----------------------------- MODULE AsyncEval -----------------------------
(***************************************************************************)
(* LocalEvaluator::execute in asyncThread mode (LocalEvaluator.cpp 181-197) *)
(* with the AsyncSock pair of LocalEvaluator.h 87-210: the two Schedulers  *)
(* run their protocols on one ThreadExecutor thread (Scheduler.h 93-163),  *)
(* while the socket Worker thread (LocalEvaluator.cpp 226-363) matches    *)
(* each party's send with the peer's recv and calls their continuations.  *)
(* A continuation dispatches a job to the executor, except the header      *)
(* send's, which runs on the worker thread and posts the body send.        *)
(* Both threads' queues are BlockingQueues (Queue.h): FIFO.                *)
(***************************************************************************)
EXTENDS Scheduler

CONSTANT
  ErrorIdxs     \* the values of mErrorIdx to explore (NoError included)

VARIABLES
  wSend, wRecv, \* Worker::mSend, mRecv: the op posted on each socket, or NoOp
  wCanceled,    \* Worker::mCanceled
  workerDone,   \* the worker thread has taken the join request and ended
  execQueue,    \* ThreadExecutor::mQueue, in pop order
  work,         \* ThreadExecutor::mWork
  held,         \* held[p]: p's Scheduler still holds mWork and mExecutor
  exState,      \* the main thread: "idle" or "busy" in ex.run, then "done",
                \* "joining" (mSocketWorker.join()) and "returned"
  lastSize,     \* the size popWithSize reported for the job being run
  physOps,      \* socket operations the worker has taken (history)
  stray,        \* a callback found its Scheduler's entry gone (history)
  assertFail    \* the worker found a second op posted on a socket (history)

workerVars == <<wSend, wRecv, wCanceled, workerDone>>
execVars   == <<execQueue, work, held, exState, lastSize>>
vars == <<taskVars, schedVars, histVars, sockVars, asyncVars, root, workerVars, execVars,
          physOps, stray, assertFail>>

NoOp == SockOp("none", 0, 0, "none", NoChunk, NoChunk)
Job(kind, p, e) == [kind |-> kind, p |-> p, ec |-> e]

\* mOpIdx == mErrorIdx in Worker::process (LocalEvaluator.cpp 305): the
\* asynchronous sockets never call getError, so mOpIdx stays at 0.
Faulty == opIdx = errorIdx

-----------------------------------------------------------------------------
(***************************************************************************)
(* A continuation called by the worker with code e, folded into acc: the   *)
(* header send's continuation (Scheduler.cpp 367-410) sends the body on    *)
(* success or dispatches cancelSendQueue; the others dispatch their job.   *)
(* Scheduler::dispatch (Scheduler.h 198-206) queues the job while the      *)
(* Scheduler holds mExecutor; afterwards it runs inline on the worker.     *)
(* There a failed header read is cancelRecvQueue on an empty table: clear  *)
(* the header state, cancel the socket, and run() adds a round.  Any      *)
(* other callback finds no entry to complete.                              *)
(***************************************************************************)
Continue(acc, op, e) ==
  LET p   == op.idx
      job == CASE op.type = "recv" /\ op.dst = "hdr" -> Job("recvHdr", p, e)
                [] op.type = "recv"                  -> Job("recvBody", p, e)
                [] op.chunk.kind = "hdr"             -> Job("sendHdrFail", p, e)
                [] OTHER                             -> Job("sendBody", p, e)
  IN
  CASE op.type = "send" /\ op.chunk.kind = "hdr" /\ e = "ok" ->
         [acc EXCEPT !.work = Append(@, SockOp("send", p, op.next.len, "none",
                                               op.next, NoChunk))]
    [] held[p] -> [acc EXCEPT !.exec = Append(@, job)]
    [] job.kind = "recvHdr" /\ e # "ok" ->
         [acc EXCEPT !.work = Append(@, SockOp("cancel", p, 0, "none", NoChunk, NoChunk)),
                     !.rnd[p] = @ + 1,
                     !.late = @ \cup {p}]
    [] OTHER -> [acc EXCEPT !.stray = TRUE]

\* The continuations in calls, a sequence of [op, ec], called in order;
\* ops is what is left of the work queue.
Invoke(calls, ops) ==
  LET r == FoldLeft(LAMBDA acc, c : Continue(acc, c.op, c.ec),
                    [exec |-> <<>>, work |-> <<>>, rnd |-> rounds, stray |-> stray,
                     late |-> {}],
                    calls)
  IN /\ execQueue' = execQueue \o r.exec
     /\ workQueue' = ops \o r.work
     /\ rounds' = r.rnd
     /\ stray' = r.stray
     /\ haveHeader' = [q \in Parties |-> haveHeader[q] /\ q \notin r.late]
     /\ activeRecv' = [q \in Parties |-> activeRecv[q] /\ q \notin r.late]

\* Worker::cancel (LocalEvaluator.cpp 276-299): every posted op's
\* continuation gets ioError, recv before send, socket 0 before 1.
WorkerCancel(S, R, ops) ==
  /\ Invoke(SelectSeq(<<[op |-> R[0], ec |-> "ioError"], [op |-> S[0], ec |-> "ioError"],
                        [op |-> R[1], ec |-> "ioError"], [op |-> S[1], ec |-> "ioError"]>>,
                      LAMBDA c : c.op # NoOp), ops)
  /\ wSend' = [i \in Parties |-> NoOp]
  /\ wRecv' = [i \in Parties |-> NoOp]
  /\ wCanceled' = TRUE
  /\ UNCHANGED <<hdr, delivered, misread>>

\* The copy of completeOp: into mRecvHeader, or into the recv task's span.
Copy(i, r, c) ==
  CASE c.kind # IF r.dst = "hdr" THEN "hdr" ELSE "body" ->
         /\ misread' = [misread EXCEPT ![i] = TRUE]
         /\ UNCHANGED <<hdr, delivered>>
    [] r.dst = "hdr" ->
         /\ hdr' = [hdr EXCEPT ![i] = c]
         /\ UNCHANGED <<delivered, misread>>
    [] OTHER ->
         /\ delivered' = [delivered EXCEPT ![i] =
                            Append(@, [slot |-> hdr[i].slot, src |-> c.src, dst |-> r.dst])]
         /\ UNCHANGED <<hdr, misread>>

(***************************************************************************)
(* Worker::completeOp(i) (LocalEvaluator.cpp 250-274) with posted ops S    *)
(* and R: the recv on socket i meets the peer's send; equal lengths copy   *)
(* and call the recv's, then the send's continuation with success; else   *)
(* cancel everything.                                                      *)
(***************************************************************************)
CompleteOp(i, S, R, ops) ==
  LET r == R[i]
      s == S[Other(i)]
  IN IF r.len = s.len
     THEN /\ Copy(i, r, s.chunk)
          /\ wRecv' = [R EXCEPT ![i] = NoOp]
          /\ wSend' = [S EXCEPT ![Other(i)] = NoOp]
          /\ Invoke(<<[op |-> r, ec |-> "ok"], [op |-> s, ec |-> "ok"]>>, ops)
          /\ UNCHANGED wCanceled
     ELSE WorkerCancel(S, R, ops)

\* Worker::process (LocalEvaluator.cpp 301-362) of the front request;
\* the join request (startThread, 239-242) ends the thread.
WorkerStep ==
  LET op  == Head(workQueue)
      ops == Tail(workQueue)
      i   == op.idx
      hasCont == op.type \in {"send", "recv"}
  IN
  /\ ~workerDone
  /\ workQueue # <<>>
  /\ physOps' = IF hasCont THEN physOps + 1 ELSE physOps
  /\ CASE op.type = "join" ->
            /\ workerDone' = TRUE
            /\ workQueue' = ops
            /\ UNCHANGED <<wSend, wRecv, wCanceled, execQueue, rounds, stray, assertFail,
                           hdr, delivered, misread, haveHeader, activeRecv>>
       [] (Faulty /\ hasCont) \/ (wCanceled /\ hasCont) ->
            /\ Invoke(<<[op |-> op, ec |-> "ioError"]>>, ops)
            /\ UNCHANGED <<wSend, wRecv, wCanceled, workerDone, assertFail,
                           hdr, delivered, misread>>
       [] wCanceled ->
            /\ workQueue' = ops
            /\ UNCHANGED <<wSend, wRecv, wCanceled, workerDone, execQueue, rounds, stray,
                           assertFail, hdr, delivered, misread, haveHeader, activeRecv>>
       [] op.type = "send" ->
            LET S == [wSend EXCEPT ![i] = op] IN
            /\ assertFail' = (assertFail \/ wSend[i] # NoOp)
            /\ UNCHANGED workerDone
            /\ IF wRecv[Other(i)] # NoOp
               THEN CompleteOp(Other(i), S, wRecv, ops)
               ELSE /\ wSend' = S
                    /\ workQueue' = ops
                    /\ UNCHANGED <<wRecv, wCanceled, execQueue, rounds, stray,
                                   hdr, delivered, misread, haveHeader, activeRecv>>
       [] op.type = "recv" ->
            LET R == [wRecv EXCEPT ![i] = op] IN
            /\ assertFail' = (assertFail \/ wRecv[i] # NoOp)
            /\ UNCHANGED workerDone
            /\ IF wSend[Other(i)] # NoOp
               THEN CompleteOp(i, wSend, R, ops)
               ELSE /\ wRecv' = R
                    /\ workQueue' = ops
                    /\ UNCHANGED <<wSend, wCanceled, execQueue, rounds, stray,
                                   hdr, delivered, misread, haveHeader, activeRecv>>
       [] OTHER ->
            /\ WorkerCancel(wSend, wRecv, ops)
            /\ UNCHANGED <<workerDone, assertFail>>
  /\ UNCHANGED <<taskVars, ready, stack, ret, recvBufs, sendBufs, sentHeader,
                 nextSlot, phase, wire, sockVars, root, activeSend,
                 work, held, exState, lastSize>>

-----------------------------------------------------------------------------
(***************************************************************************)
(* The executor thread: ThreadExecutor::run (Scheduler.h 141-159) pops the *)
(* oldest job with the number left behind it, runs it, and returns once    *)
(* mWork is 0 and that number was 0.  A job that calls Scheduler::run      *)
(* leaves p's phase at "run" and the Scheduler's steps follow; the job     *)
(* ends when every Scheduler is idle again.                                *)
(***************************************************************************)
ExecIdle == exState = "idle" /\ \A q \in Parties : phase[q] = "idle"

TakeJob(kind) ==
  /\ ExecIdle
  /\ execQueue # <<>>
  /\ Head(execQueue).kind = kind
  /\ execQueue' = Tail(execQueue)
  /\ lastSize' = Len(execQueue) - 1
  /\ exState' = "busy"

\* The job has returned: leave ex.run() or take the next one.
JobEnd ==
  /\ exState = "busy"
  /\ \A q \in Parties : phase[q] = "idle"
  /\ exState' = IF work = 0 /\ lastSize = 0 THEN "done" ELSE "idle"
  /\ UNCHANGED <<taskVars, schedVars, histVars, sockVars, root, asyncVars, workerVars,
                 execQueue, work, held, lastSize, physOps, stray, assertFail>>

\* Everything a job leaves alone besides the Scheduler and its socket path.
JobFrame == UNCHANGED <<pc, down, slot, stack, ret, sentHeader, nextSlot, rounds, wire,
                        sockVars, root, workerVars, work, held, physOps, assertFail>>

Running(p) == phase' = [phase EXCEPT ![p] = "run"]

\* The job ProtoImpl::evaluate dispatches (Proto.h 54-71): mSched->run().
RunJob(p) ==
  /\ TakeJob("run")
  /\ Head(execQueue).p = p
  /\ Running(p)
  /\ UNCHANGED <<status, ec, up, ready, netVars, stray>>
  /\ JobFrame

\* A body that the registered buffer cannot take (asyncRecvBody, 224-226)
Misfit(p) == \E r \in SlotRecvs(recvBufs[p], hdr[p].slot) : SpanLen(r, hdr[p].len) # hdr[p].len

\* asyncRecvHeader's job (Scheduler.cpp 189-197): mHaveHeader = true, then
\* cancelRecvQueue(ec) or asyncRecvBody.
RecvHeaderJob(p) ==
  LET e == Head(execQueue).ec IN
  /\ TakeJob("recvHdr")
  /\ Head(execQueue).p = p
  /\ IF e # "ok"
     THEN /\ CancelRecvQueue(p, e, recvBufs[p], status, ec, ready[p], opIdx)
          /\ Running(p)
     ELSE /\ AsyncRecvBody(p, status, recvBufs[p], ready[p])
          /\ IF Misfit(p) THEN Running(p) ELSE UNCHANGED phase
  /\ UNCHANGED <<sendBufs, stray, delivered, misread>>
  /\ JobFrame

\* The body job leaves the header flag set
BodyHeaderLeftHeld == TRUE
\* The body job's "mHaveHeader = false;" (Scheduler.cpp 234)
BodyHeaderLeft == FALSE

(***************************************************************************)
(* The body recv's job (Scheduler.cpp 218-249): find the entry of the held *)
(* header's slot; on success erase it, push its task on mReady, clear the  *)
(* header and mActiveRecv, start the next receive if any recv is left, and *)
(* run(); on an error cancelRecvQueue.  No entry: iter is end(), undefined *)
(* behaviour, recorded in stray.                                           *)
(***************************************************************************)
RecvBodyJob(p) ==
  LET e  == Head(execQueue).ec
      rs == SlotRecvs(recvBufs[p], hdr[p].slot)
      r  == CHOOSE x \in rs : TRUE
      rb == recvBufs[p] \ {r}
  IN
  /\ TakeJob("recvBody")
  /\ Head(execQueue).p = p
  /\ CASE rs = {} ->
            /\ stray' = TRUE
            /\ UNCHANGED <<status, ec, up, ready, phase, netVars>>
       [] e = "ok" ->
            /\ IF rb # {}
               THEN InitAsyncRecv(p, BodyHeaderLeft, status, rb, Append(ready[p], r))
               ELSE /\ AsyncRecvNoTaskChange(p, status, rb, Append(ready[p], r))
                    /\ activeRecv' = [activeRecv EXCEPT ![p] = FALSE]
                    /\ haveHeader' = [haveHeader EXCEPT ![p] = BodyHeaderLeft]
                    /\ UNCHANGED workQueue
            /\ Running(p)
            /\ UNCHANGED <<sendBufs, stray>>
       [] OTHER ->
            /\ CancelRecvQueue(p, e, recvBufs[p], status, ec, ready[p], opIdx)
            /\ Running(p)
            /\ UNCHANGED <<sendBufs, stray>>
  /\ JobFrame

(***************************************************************************)
(* The body send's job (Scheduler.cpp 374-402): on success push the front  *)
(* entry's task on mReady, pop it, clear mActiveSend, start the next send  *)
(* if one is queued, and run(); on an error cancelSendQueue.  An empty     *)
(* queue makes front() undefined behaviour, recorded in stray.             *)
(***************************************************************************)
SendBodyJob(p) ==
  LET e  == Head(execQueue).ec
      sb == sendBufs[p]
  IN
  /\ TakeJob("sendBody")
  /\ Head(execQueue).p = p
  /\ CASE sb = <<>> ->
            /\ stray' = TRUE
            /\ UNCHANGED <<status, ec, up, ready, phase, netVars>>
       [] e = "ok" ->
            /\ ready' = [ready EXCEPT ![p] = @ \o Resumed(<<Head(sb)>>)]
            /\ SendDone(p, sb)
            /\ IF sendBufs'[p] # <<>>
               THEN InitAsyncSend(p, sendBufs'[p])
               ELSE /\ activeSend' = [activeSend EXCEPT ![p] = FALSE]
                    /\ UNCHANGED workQueue
            /\ Running(p)
            /\ UNCHANGED <<status, ec, up, recvBufs, haveHeader, hdr, delivered, misread,
                           activeRecv, stray>>
       [] OTHER ->
            /\ CancelSendQueue(p, e, sb, TaskState(p, status), opIdx)
            /\ Running(p)
            /\ UNCHANGED <<recvBufs, haveHeader, hdr, delivered, misread, stray>>
  /\ JobFrame

\* The header send failed (Scheduler.cpp 404-409): cancelSendQueue(ec).
SendHeaderFailJob(p) ==
  /\ TakeJob("sendHdrFail")
  /\ Head(execQueue).p = p
  /\ CancelSendQueue(p, Head(execQueue).ec, sendBufs[p], TaskState(p, status), opIdx)
  /\ Running(p)
  /\ UNCHANGED <<recvBufs, haveHeader, hdr, delivered, misread, stray>>
  /\ JobFrame

\* ~WorkImpl's job (Scheduler.h 103-109): --mWork.
UnworkJob ==
  /\ TakeJob("unwork")
  /\ work' = work - 1
  /\ UNCHANGED <<taskVars, schedVars, histVars, sockVars, root, asyncVars, workerVars,
                 held, physOps, stray, assertFail>>

(***************************************************************************)
(* Scheduler::run leaves its loop (Scheduler.cpp 49-95): ++mRoundIdx; once *)
(* done, mWork = {} queues ~WorkImpl's job and mExecutor = nullptr, so     *)
(* later callbacks run on the worker thread.                               *)
(***************************************************************************)
RunEnd(p) ==
  /\ \/ phase[p] = "exit"
     \/ phase[p] = "run" /\ stack[p] = <<>> /\ SchedDone(p)
  /\ rounds' = [rounds EXCEPT ![p] = @ + 1]
  /\ phase' = [phase EXCEPT ![p] = "idle"]
  /\ IF SchedDone(p) /\ held[p]
     THEN /\ held' = [held EXCEPT ![p] = FALSE]
          /\ execQueue' = Append(execQueue, Job("unwork", p, "ok"))
     ELSE UNCHANGED <<held, execQueue>>
  /\ UNCHANGED <<taskVars, ready, stack, ret, nextSlot, netVars, workerVars,
                 work, exState, lastSize, physOps, stray, assertFail>>

\* ex.run() has returned: mSocketWorker.join() queues the join request
\* and waits for the worker thread (LocalEvaluator.cpp 194-195, LocalEvaluator.h
\* 160-168).
JoinWorker ==
  /\ exState = "done"
  /\ exState' = "joining"
  /\ workQueue' = Append(workQueue, SockOp("join", 0, 0, "none", NoChunk, NoChunk))
  /\ UNCHANGED <<taskVars, schedVars, histVars, sockVars, root, activeRecv, activeSend,
                 workerVars, execQueue, work, held, lastSize, physOps, stray, assertFail>>

ExecuteReturns ==
  /\ exState = "joining"
  /\ workerDone
  /\ exState' = "returned"
  /\ UNCHANGED <<taskVars, schedVars, histVars, sockVars, root, asyncVars, workerVars,
                 execQueue, work, held, lastSize, physOps, stray, assertFail>>

\* Both evaluate() calls (Proto.h 54-71) have run before ex.run(): each
\* Scheduler holds one unit of work and has its run() job queued.
Init ==
  /\ SockInit(ErrorIdxs)
  /\ SchedInit
  /\ wSend = [i \in Parties |-> NoOp]
  /\ wRecv = [i \in Parties |-> NoOp]
  /\ wCanceled = FALSE
  /\ workerDone = FALSE
  /\ execQueue = <<Job("run", 0, "ok"), Job("run", 1, "ok")>>
  /\ work = 2
  /\ held = [p \in Parties |-> TRUE]
  /\ exState = "idle"
  /\ lastSize = 0
  /\ physOps = 0
  /\ stray = FALSE
  /\ assertFail = FALSE

\* The executor thread's steps: a job, the Scheduler it runs, its end.
ExecStep ==
  \/ \E p \in Parties :
       \/ SchedStep(p) /\ UNCHANGED <<workerVars, execVars, physOps, stray, assertFail>>
       \/ RunEnd(p)
       \/ RunJob(p)
       \/ RecvHeaderJob(p)
       \/ RecvBodyJob(p)
       \/ SendBodyJob(p)
       \/ SendHeaderFailJob(p)
  \/ UnworkJob
  \/ JobEnd
  \/ JoinWorker
  \/ ExecuteReturns

Next == ExecStep \/ WorkerStep \/ (exState = "returned" /\ UNCHANGED vars)

\* Each thread takes its next step whenever it can: the BlockingQueues
\* wake their thread when a job or request is queued.
Spec == Init /\ [][Next]_vars /\ WF_vars(ExecStep) /\ WF_vars(WorkerStep)


-----------------------------------------------------------------------------
JobKinds == {"run", "recvHdr", "recvBody", "sendBody", "sendHdrFail", "unwork"}

\* The types of the state; a finished task carries a final code, never
\* suspend (spec 7: suspend "must never be observed as a final result").
TypeOK ==
  /\ status \in [Tasks -> {"uninit", "inprogress", "done"}]
  /\ ec \in [Tasks -> Codes]
  /\ \A t \in Tasks : status[t] = "done" => ec[t] # "suspend"
  /\ phase \in [Parties -> {"idle", "run", "exit"}]
  /\ activeRecv \in [Parties -> BOOLEAN]
  /\ activeSend \in [Parties -> BOOLEAN]
  /\ \A q \in Parties : wSend[q].type \in {"none", "send"} /\ wRecv[q].type \in {"none", "recv"}
  /\ \A j \in ToSet(execQueue) : j.kind \in JobKinds /\ j.p \in Parties
  /\ work \in 0..2
  /\ held \in [Parties -> BOOLEAN]
  /\ exState \in {"idle", "busy", "done", "joining", "returned"}

(***************************************************************************)
(* The worker never finds a send (or recv) posted on a socket that already *)
(* has one: the asserts !mSend[i] and !mRecv[i] of Worker::process         *)
(* (LocalEvaluator.cpp 324, 338).  mActiveSend and mActiveRecv must keep   *)
(* one op of each kind in flight per Scheduler, across the cancel paths   *)
(* and the callbacks that restart the next op.                             *)
(***************************************************************************)
OneOpPerSocket == ~assertFail

(***************************************************************************)
(* Every callback finds the Scheduler state it completes: the body recv's  *)
(* job finds the entry of the held header's slot, the body send's job a   *)
(* front entry (Scheduler.cpp 223-225, 376), and no completion reaches a   *)
(* Scheduler that has finished and dropped its executor, except a failed  *)
(* header read after a cancel.                                             *)
(***************************************************************************)
NoStaleCallback == ~stray

(***************************************************************************)
(* execute returns (ex.run() and the worker join end) with both protocols  *)
(* done: mWork reaches 0 with no job left, and no job is lost in the       *)
(* executor's queue.                                                       *)
(***************************************************************************)
Termination == <>(exState = "returned")

(***************************************************************************)
(* When execute returns, both protocols are done and the result is ioError *)
(* exactly when the socket worker injected its failure, success otherwise *)
(* (execute's checks and result, LocalEvaluator.cpp 202-223).              *)
(***************************************************************************)
FaultSurfaces ==
  exState = "returned" =>
    AllDone /\ ExecuteResult = IF Faulty THEN "ioError" ELSE "ok"

(***************************************************************************)
(* Spec 8: injecting the failure at any index k below the number of        *)
(* physical socket operations makes execute return ioError, in each of the *)
(* four execution models (the errorSocket test, NativeProto.cpp 686-718).  *)
(***************************************************************************)
IndexedFaultSurfaces ==
  exState = "returned" /\ errorIdx # NoError /\ errorIdx < physOps =>
    ExecuteResult = "ioError"

=============================================================================
