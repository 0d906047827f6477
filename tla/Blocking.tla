------------------------------ MODULE Blocking ------------------------------
(***************************************************************************)
(* LocalEvaluator::execute in blocking mode (LocalEvaluator.cpp 155-165,   *)
(* 203-223): party 0's protocol is evaluated once on a new std::thread,    *)
(* party 1's once on the calling thread, each over a BlockingSock, and     *)
(* execute joins the thread.  A Scheduler step is atomic with respect to   *)
(* the other thread: the threads share only the two mInbound queues, which *)
(* BlockingQueue guards with a mutex, and LocalEvaluator::mOpIdx.          *)
(*                                                                         *)
(* A chunk a party sends is in outbound[p] until Transfer moves it into    *)
(* the peer's mInbound: a receiver that reads it later is a receiver that  *)
(* ran later, so the split adds no behaviour the code does not have.       *)
(*                                                                         *)
(* mOpIdx++ in getError (LocalEvaluator.h 258-262) is unsynchronised      *)
(* between the two threads.  The model counts each call atomically, and a  *)
(* recv that waits in mInbound.pop() when its step is taken, not when it   *)
(* began to wait: over all fault indexes the same operations can fail,     *)
(* only the index that names a given operation differs.                    *)
(***************************************************************************)
EXTENDS Scheduler

CONSTANTS
  ErrorIdxs     \* the values of mErrorIdx to explore (NoError included)

VARIABLE
  evaluated     \* evaluated[p]: party p's evaluate() call has returned

vars == <<taskVars, schedVars, histVars, sockVars, asyncVars, root, evaluated>>

\* The injected socket failure has happened.
FaultFired == errorIdx # NoError /\ errorIdx < opIdx

Init ==
  /\ SockInit(ErrorIdxs)
  /\ SchedInit
  /\ evaluated = [p \in Parties |-> FALSE]

\* ProtoImpl::evaluate(Socket&) (Proto.h 34-46) on party p's thread:
\* scheduleReady(root) was done by SchedInit; run() starts.
EvalBegin(p) ==
  /\ phase[p] = "idle"
  /\ ~evaluated[p]
  /\ phase' = [phase EXCEPT ![p] = "run"]
  /\ UNCHANGED <<taskVars, ready, stack, ret, recvBufs, sendBufs, haveHeader, hdr,
                 sentHeader, nextSlot, rounds, histVars, sockVars, root, asyncVars, evaluated>>

\* run() leaves its loop (Scheduler.cpp 49, 63-64, 77) and evaluate()
\* returns (Proto.h 46-51); nothing calls it again on this thread.
EvalReturn(p) ==
  /\ \/ phase[p] = "exit"
     \/ phase[p] = "run" /\ stack[p] = <<>> /\ SchedDone(p)
  /\ rounds' = [rounds EXCEPT ![p] = @ + 1]
  /\ phase' = [phase EXCEPT ![p] = "idle"]
  /\ evaluated' = [evaluated EXCEPT ![p] = TRUE]
  /\ UNCHANGED <<taskVars, ready, stack, ret, recvBufs, sendBufs, haveHeader, hdr,
                 sentHeader, nextSlot, histVars, sockVars, root, asyncVars>>

\* The chunks party p emplaced reach the peer's mInbound (BlockingQueue::
\* emplace at the front, Queue.h 64-71; pop takes the back, Queue.h 73-79).
TransferLifo(p) ==
  /\ outbound[p] # <<>>
  /\ inbound' = [inbound EXCEPT ![Other(p)] = outbound[p] \o @]
  /\ outbound' = [outbound EXCEPT ![p] = <<>>]
  /\ UNCHANGED <<taskVars, schedVars, histVars, canceled, opIdx, errorIdx, root, asyncVars,
                 evaluated>>
Transfer(p) ==
  /\ outbound[p] # <<>>
  /\ inbound' = [inbound EXCEPT ![Other(p)] = @ \o outbound[p]]
  /\ outbound' = [outbound EXCEPT ![p] = <<>>]
  /\ UNCHANGED <<taskVars, schedVars, histVars, canceled, opIdx, errorIdx, root, asyncVars,
                 evaluated>>

\* thrd.join() has returned: execute goes on to its checks and result.
Finished ==
  /\ \A p \in Parties : evaluated[p]
  /\ UNCHANGED vars

Next ==
  \/ \E p \in Parties :
       \/ SchedStep(p) /\ UNCHANGED evaluated
       \/ EvalBegin(p)
       \/ EvalReturn(p)
       \/ Transfer(p)
  \/ Finished

\* Each thread runs while it can (it waits only in mInbound.pop(), and
\* every emplace notifies the waiting thread), and an emplace is not
\* held back: weak fairness per thread and per queue.
Spec ==
  /\ Init /\ [][Next]_vars
  /\ \A p \in Parties :
       /\ WF_vars(SchedStep(p) /\ UNCHANGED evaluated)
       /\ WF_vars(EvalBegin(p))
       /\ WF_vars(EvalReturn(p))
       /\ WF_vars(Transfer(p))

-----------------------------------------------------------------------------
TypeOK ==
  /\ status \in [Tasks -> {"uninit", "inprogress", "done"}]
  \* a finished task never reports suspend (resume_ and fulfillDep assert
  \* it, NativeProto.h 159, Scheduler.cpp 566)
  /\ \A t \in Tasks : status[t] = "done" => ec[t] # "suspend"
  /\ ec \in [Tasks -> Codes]
  /\ evaluated \in [Parties -> BOOLEAN]
  /\ \A p \in Parties :
       /\ sendBufs[p] = <<>>
       /\ phase[p] \in {"idle", "run", "exit"}
       /\ \A i \in 1..Len(inbound[p]) : inbound[p][i].kind \in {"hdr", "body", "eof"}

(***************************************************************************)
(* Both evaluate() calls return: no party waits in mInbound.pop() for a    *)
(* chunk the other will never send, and thrd.join() returns.               *)
(***************************************************************************)
Termination == <>(\A p \in Parties : evaluated[p])

(***************************************************************************)
(* evaluate() is called once per party in blocking mode, so run() must not *)
(* leave its loop (Scheduler.cpp 63-64) before the protocol is done;       *)
(* otherwise execute throws runtime_error at "p0->done() == false"        *)
(* (LocalEvaluator.cpp 203-206) instead of returning a result.  When it   *)
(* returns, the result (LocalEvaluator.cpp 208-223) is success exactly     *)
(* when no socket operation failed.                                        *)
(***************************************************************************)
BlockingFaultSurfaces ==
  (\A p \in Parties : evaluated[p]) =>
    /\ AllDone
    /\ (ExecuteResult = "ok") = ~FaultFired

=============================================================================
