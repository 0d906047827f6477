----------------------------- MODULE Interlace -----------------------------
(***************************************************************************)
(* LocalEvaluator::execute in interlace mode (LocalEvaluator.cpp 115-153,  *)
(* 203-223): the two parties' Schedulers run alternately on one thread.    *)
(* Each turn calls ProtoImpl::evaluate (Proto.h 34-52) for a party whose   *)
(* protocol is not done, i.e. one Scheduler::run() until it runs out of    *)
(* work, and then sendMsgs hands what it sent to the peer.                 *)
(***************************************************************************)
EXTENDS Scheduler

CONSTANTS
  ErrorIdxs,    \* the values of mErrorIdx to explore (NoError included)
  MaxRounds,    \* bound on each party's mRoundIdx: a longer run spins
  CleanRounds,  \* CleanRounds[r][p]: numRounds() the test of root r expects of
                \* party p without faults
  CleanResult   \* CleanResult[r]: the code the test of root r expects execute
                \* to return without faults

VARIABLE
  turn          \* the party whose evaluate() the execute loop is at

vars == <<taskVars, schedVars, histVars, sockVars, asyncVars, root, turn>>

\* The injected socket failure has happened.
FaultFired == errorIdx # NoError /\ errorIdx < opIdx

Init ==
  /\ SockInit(ErrorIdxs)
  /\ SchedInit
  /\ turn = 0

\* The execute loop calls evaluate() for party p (LocalEvaluator.cpp
\* 131-146) when it is p's turn, or when the other party is done and the
\* loop skips it: run() starts.
EvalBegin(p) ==
  /\ turn = p \/ RootDone(Other(p))
  /\ phase[p] = "idle"
  /\ phase[Other(p)] = "idle"
  /\ ~RootDone(p)
  /\ rounds[p] < MaxRounds
  /\ phase' = [phase EXCEPT ![p] = "run"]
  /\ UNCHANGED <<taskVars, ready, stack, ret, recvBufs, sendBufs, haveHeader, hdr,
                 sentHeader, nextSlot, rounds, histVars, sockVars, root, asyncVars, turn>>

\* run() leaves its loop (Scheduler.cpp 49, 63-64, 77): mRoundIdx is
\* incremented, evaluate() returns, and sendMsgs(p, ec) follows.
EvalReturn(p) ==
  /\ \/ phase[p] = "exit"
     \/ phase[p] = "run" /\ stack[p] = <<>> /\ SchedDone(p)
  /\ rounds' = [rounds EXCEPT ![p] = @ + 1]
  /\ phase' = [phase EXCEPT ![p] = "idle"]
  /\ SendMsgs(p, EvalResult(p))
  /\ turn' = Other(p)
  /\ UNCHANGED <<taskVars, ready, stack, ret, recvBufs, sendBufs, haveHeader, hdr,
                 sentHeader, nextSlot, histVars, opIdx, errorIdx, root, asyncVars>>

\* Both protocols are done: execute returns.
Finished ==
  /\ AllDone
  /\ \A p \in Parties : phase[p] = "idle"
  /\ UNCHANGED vars

Next ==
  \/ \E p \in Parties :
       \/ SchedStep(p) /\ UNCHANGED turn
       \/ EvalBegin(p)
       \/ EvalReturn(p)
  \/ Finished

\* One thread runs every step, and the execute loop keeps calling
\* evaluate() while either protocol is unfinished.
Spec == Init /\ [][Next]_vars /\ WF_vars(Next)

-----------------------------------------------------------------------------
TypeOK ==
  /\ status \in [Tasks -> {"uninit", "inprogress", "done"}]
  \* a finished task never reports suspend (resume_ and fulfillDep assert
  \* it, NativeProto.h 159, Scheduler.cpp 566)
  /\ \A t \in Tasks : status[t] = "done" => ec[t] # "suspend"
  /\ ec \in [Tasks -> Codes]
  /\ \A t \in Tasks : up[t] \subseteq Tasks /\ ToSet(down[t]) \subseteq Tasks
  /\ \A p \in Parties :
       /\ ToSet(ready[p]) \subseteq Tasks
       /\ ToSet(stack[p]) \subseteq Tasks
       /\ recvBufs[p] \subseteq Tasks
       \* InterlaceSock::send never suspends, so initSend always drains
       \* mSendBuffers before send_ returns.
       /\ sendBufs[p] = <<>>
       /\ phase[p] \in {"idle", "run", "exit"}
       /\ ret[p] \in Codes \cup {"none"}
  /\ turn \in Parties

(***************************************************************************)
(* The execute loop ends: both protocols finish, whatever the socket       *)
(* failure injected (the spec's "every k in range" and errorSocket test).  *)
(***************************************************************************)
Termination == <>AllDone

(***************************************************************************)
(* A socket failure injected at any operation index surfaces as an error   *)
(* from execute (errorSocket test, NativeProto.cpp 686-718): ioError, or   *)
(* the error the test expects anyway if the protocol got that far; without *)
(* one, execute returns what the test asserts (success, or                 *)
(* uncaughtException in the throw tests, AwaitProto.cpp 465-489, 719-757). *)
(***************************************************************************)
FaultSurfaces ==
  AllDone =>
    IF FaultFired THEN ExecuteResult \in {"ioError", CleanResult[root]} \ {"ok"}
                  ELSE ExecuteResult = CleanResult[root]

\* execute has returned: both protocols done and both run() calls left.
ExecuteReturned == AllDone /\ \A p \in Parties : phase[p] = "idle"

(***************************************************************************)
(* When execute returns, no spawned sub-protocol is still in flight: every *)
(* Async<T>::Controller that was started is done.  Otherwise the Async     *)
(* handle's destructor calls std::terminate (Async.h 110-117) when the     *)
(* protocol object is destroyed.                                           *)
(***************************************************************************)
NoAsyncInFlight ==
  ExecuteReturned => \A c \in Tasks : Kind(c) = "ctrl" => status[c] # "inprogress"

(***************************************************************************)
(* A failed spawned task fails the evaluation that joins it, whenever the  *)
(* join happens: spec 4.6 and 8 ("joining them in any order yields the    *)
(* same aggregate success/failure result as running them sequentially").   *)
(* It is about the two joins of NativeProto.h 91-115 and the error that    *)
(* fulfillDep passes a waiting joiner.                                     *)
(***************************************************************************)
SpawnFailureSurfaces ==
  AllDone /\ (\E a \in Tasks : Kind(a) = "async" /\ ec[Prog[a].inner] # "ok") =>
    ExecuteResult # "ok"

(***************************************************************************)
(* Without an injected fault, execute returns what the test asserts, and   *)
(* each Scheduler counts the rounds the test expects where it states them  *)
(* (numRounds(), e.g. 2 and 1 in Native_endOfRound_Test): run() leaves its *)
(* loop only when no task can make progress.  Unlike FaultSurfaces, this   *)
(* holds of tests whose wrapped checks turn a fault into a throw.          *)
(***************************************************************************)
CleanRun ==
  ExecuteReturned /\ errorIdx = NoError =>
    /\ ExecuteResult = CleanResult[root]
    /\ root \in DOMAIN CleanRounds => rounds = CleanRounds[root]

=============================================================================
