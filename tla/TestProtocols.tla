--------------------------- MODULE TestProtocols ---------------------------
(***************************************************************************)
(* Protocol pairs from coproto's tests (NativeProto.cpp), scaled down, for *)
(* checking the evaluators with TLC.  Each task is a string; Prog says     *)
(* what it is.  Lengths are byte counts.                                   *)
(***************************************************************************)
EXTENDS Integers, Sequences, TLC

\* Program-building helpers.
Await(t)       == [op |-> "await", task |-> t]
Join(a)        == [op |-> "join", task |-> a]
\* CP_AWAIT(std::move(a)): the join of a moved handle
JoinMv(a)      == [op |-> "joinmv", task |-> a]
EoR            == [op |-> "eor"]
Throw          == [op |-> "throw"]
Check(w, e)    == [op |-> "check", task |-> w, want |-> e]
\* return ec; where ec is what the wrapped await w captured
RetEc(w)       == [op |-> "retec", task |-> w]
Wrap(t)        == [kind |-> "wrap", inner |-> t]
P(body)        == [kind |-> "proto", body |-> body]
\* a C++20 coroutine protocol (ProtoPromise)
Co(body)       == [kind |-> "coro", body |-> body]
Snd(n)         == [kind |-> "send", len |-> n]
\* send(std::move(v)): MvSendProto
MvSnd(n)       == [kind |-> "mvsend", len |-> n]
\* std::vector<u8> received into: resizable, one-byte elements
Rcv(n)         == [kind |-> "recv", len |-> n, resize |-> TRUE, elem |-> 1]
\* span<u8>: fixed length
RcvSpan(n)     == [kind |-> "recv", len |-> n, resize |-> FALSE, elem |-> 1]
Spawn(j, c)    == [kind |-> "async", inner |-> j, ctrl |-> c]
Ctl(j)         == [kind |-> "ctrl", inner |-> j]

MCParties == {0, 1}
MCNoError == -1
MCErrorIdxs == {MCNoError} \cup 0..24
\* enough for every operation of the longest clean run of a C++20 suite (34)
MCErrorIdxsWide == {MCNoError} \cup 0..33
MCNoFault == {MCNoError}
MCNone == <<>>

(***************************************************************************)
(* coawait_endOfRound_Test (AwaitProto.cpp 759-805), the C++20 form of     *)
(* Native_endOfRound_Test: party 0 (sendProto2) awaits sendProto (send,    *)
(* end-of-round, recv) and then receives; party 1 (recvProto2) awaits      *)
(* recvProto (recv, end-of-round, send) and then sends.                    *)
(***************************************************************************)
EoRProg ==
     ("a0" :> Co(<<Await("c0"), Await("r0")>>))
  @@ ("c0" :> Co(<<Await("c0s"), EoR, Await("c0r")>>))
  @@ ("c0s" :> Snd(10)) @@ ("c0r" :> RcvSpan(10)) @@ ("r0" :> RcvSpan(10))
  @@ ("a1" :> Co(<<Await("c1"), Await("s1")>>))
  @@ ("c1" :> Co(<<Await("c1r"), EoR, Await("c1s")>>))
  @@ ("c1r" :> RcvSpan(10)) @@ ("c1s" :> Snd(10)) @@ ("s1" :> Snd(10))
EoRTasks == DOMAIN EoRProg
EoRRoot  == (0 :> "a0") @@ (1 :> "a1")
EoRRoots == {EoRRoot}
EoRRounds == EoRRoot :> ((0 :> 2) @@ (1 :> 1))
EoRPairs == ("c1r" :> "c0s") @@ ("c0r" :> "c1s") @@ ("r0" :> "s1")

(***************************************************************************)
(* Native_endOfRound_Test (NativeProto.cpp 614-684), the native form of    *)
(* the same exchange: each root awaits a child protocol of the same class  *)
(* with idx cleared and then sends (party 1) or receives (party 0).        *)
(***************************************************************************)
NatEoRProg ==
     ("na0" :> P(<<Await("nc0"), Await("nr0")>>))
  @@ ("nc0" :> P(<<Await("nc0s"), EoR, Await("nc0r")>>))
  @@ ("nc0s" :> Snd(10)) @@ ("nc0r" :> RcvSpan(10)) @@ ("nr0" :> RcvSpan(10))
  @@ ("na1" :> P(<<Await("nc1"), Await("ns1")>>))
  @@ ("nc1" :> P(<<Await("nc1r"), EoR, Await("nc1s")>>))
  @@ ("nc1r" :> RcvSpan(10)) @@ ("nc1s" :> Snd(10)) @@ ("ns1" :> Snd(10))
NatEoRRoot == (0 :> "na0") @@ (1 :> "na1")
NatEoRPairs == ("nc1r" :> "nc0s") @@ ("nc0r" :> "nc1s") @@ ("nr0" :> "ns1")

\* The C++20 and the native end-of-round tests, one run.
EoRSuiteProg == EoRProg @@ NatEoRProg
EoRSuiteTasks == DOMAIN EoRSuiteProg
EoRSuiteRoots == {EoRRoot, NatEoRRoot}
EoRSuitePairs == EoRPairs @@ NatEoRPairs

(***************************************************************************)
(* AwaitPP (NativeProto.cpp 496-543) with one spawned sub-protocol and     *)
(* nEchoClient / nEchoServer at n = 0, rep = 1: party 1 spawns a client,   *)
(* runs a server inline and joins; party 0 spawns a server, runs a client  *)
(* inline and joins.  The spawned pair talks on slot 1, the inline pair on *)
(* slot 0.  Party 0 also ends its round after spawning, so that the        *)
(* spawned task runs first.                                                *)
(***************************************************************************)
AsyncProg ==
     ("b0" :> P(<<Await("sp0"), EoR, Await("cl0"), Join("sp0")>>))
  @@ ("sp0" :> Spawn("sv0", "ct0")) @@ ("ct0" :> Ctl("sv0"))
  @@ ("sv0" :> P(<<Await("sv0r"), Await("sv0s")>>))
  @@ ("sv0r" :> RcvSpan(10)) @@ ("sv0s" :> Snd(10))
  @@ ("cl0" :> P(<<Await("cl0s"), Await("cl0r")>>))
  @@ ("cl0s" :> Snd(14)) @@ ("cl0r" :> RcvSpan(14))
  @@ ("b1" :> P(<<Await("sp1"), Await("sv1"), Join("sp1")>>))
  @@ ("sp1" :> Spawn("cl1", "ct1")) @@ ("ct1" :> Ctl("cl1"))
  @@ ("cl1" :> P(<<Await("cl1s"), Await("cl1r")>>))
  @@ ("cl1s" :> Snd(10)) @@ ("cl1r" :> RcvSpan(10))
  @@ ("sv1" :> P(<<Await("sv1r"), Await("sv1s")>>))
  @@ ("sv1r" :> RcvSpan(14)) @@ ("sv1s" :> Snd(14))
AsyncTasks == DOMAIN AsyncProg

AsyncRoot  == (0 :> "b0") @@ (1 :> "b1")
AsyncRoots == {AsyncRoot}
AsyncPairs ==
     ("sv0r" :> "cl1s") @@ ("cl1r" :> "sv0s")
  @@ ("sv1r" :> "cl0s") @@ ("cl0r" :> "sv1s")

(***************************************************************************)
(* Native_nestedProtocol_ErrorCode_Test (NativeProto.cpp 467-486) at n = 1 *)
(* and rep = 1 with throws set: nEchoClient / nEchoServer (NativeProto.cpp *)
(* 312-433) each run one echo and then await, wrapped, the nested echo     *)
(* that throws, checking that the wrap captured uncaughtException.  The    *)
(* client first sends an empty message, wrapped, as in                     *)
(* Native_ZeroSend_ErrorCode_Test (NativeProto.cpp 119-162).               *)
(***************************************************************************)
NestProg ==
     ("k0" :> P(<<Await("kz"), Check("kz", "sendLengthZeroMsg"), Await("k0s"),
                  Await("k0r"), Await("kw"), Check("kw", "uncaughtException")>>))
  @@ ("kz" :> Wrap("kzs")) @@ ("kzs" :> Snd(0))
  @@ ("k0s" :> Snd(10)) @@ ("k0r" :> RcvSpan(10))
  @@ ("kw" :> Wrap("k1")) @@ ("k1" :> P(<<Await("k1s"), Await("k1r"), Throw>>))
  @@ ("k1s" :> Snd(10)) @@ ("k1r" :> RcvSpan(10))
  @@ ("v0" :> P(<<Await("v0r"), Await("v0s"), Await("vw"),
                  Check("vw", "uncaughtException")>>))
  @@ ("v0r" :> RcvSpan(10)) @@ ("v0s" :> Snd(10))
  @@ ("vw" :> Wrap("v1")) @@ ("v1" :> P(<<Await("v1r"), Await("v1s"), Throw>>))
  @@ ("v1r" :> RcvSpan(10)) @@ ("v1s" :> Snd(10))
NestTasks == DOMAIN NestProg
NestRoot  == (0 :> "k0") @@ (1 :> "v0")
NestRoots == {NestRoot}
NestPairs ==
     ("v0r" :> "k0s") @@ ("k0r" :> "v0s") @@ ("v1r" :> "k1s") @@ ("k1r" :> "v1s")
NestRounds == NestRoot :> ((0 :> 3) @@ (1 :> 2))

(***************************************************************************)
(* coawait_badRecvSize_ErrorCode_Test (AwaitProto.cpp 411-463): party 1    *)
(* sends a 3-word vector and receives into it, both wrapped, expecting     *)
(* ioError; party 0 receives into a 1-word vector (badBufferSize), then    *)
(* receives and sends again, each expected to give ioError.  The test      *)
(* expects execute to succeed.                                             *)
(***************************************************************************)
CoBadSizeEcProg ==
     ("y0" :> Co(<<Await("yw1"), Check("yw1", "badBufferSize"),
                   Await("yw2"), Check("yw2", "ioError"),
                   Await("yw3"), Check("yw3", "ioError")>>))
  @@ ("yw1" :> Wrap("yr1")) @@ ("yr1" :> RcvSpan(8))
  @@ ("yw2" :> Wrap("yr2")) @@ ("yr2" :> RcvSpan(8))
  @@ ("yw3" :> Wrap("ys3")) @@ ("ys3" :> Snd(8))
  @@ ("x1" :> Co(<<Await("xw1"), Await("xw2"), Check("xw2", "ioError")>>))
  @@ ("xw1" :> Wrap("xs1")) @@ ("xs1" :> Snd(24))
  @@ ("xw2" :> Wrap("xr2")) @@ ("xr2" :> RcvSpan(24))
CoBadSizeEcRoot == (0 :> "y0") @@ (1 :> "x1")
CoBadSizeEcPairs == ("yr1" :> "xs1")

(***************************************************************************)
(* A spawned sub-protocol whose failure is absorbed by wrap(): party 0     *)
(* spawns x.wrap().async() for a protocol x that throws, ends its round,   *)
(* so that the spawned task runs first, and joins it.  Party 1 does        *)
(* nothing.  Awaited directly, the wrap would return success.              *)
(***************************************************************************)
WrapJoinProg ==
     ("j0" :> P(<<Await("jsp"), EoR, Join("jsp")>>))
  @@ ("jsp" :> Spawn("jw", "jct")) @@ ("jct" :> Ctl("jw"))
  @@ ("jw" :> Wrap("jx")) @@ ("jx" :> P(<<Throw>>))
  @@ ("j1" :> P(<<>>))
WrapJoinTasks == DOMAIN WrapJoinProg
WrapJoinRoot  == (0 :> "j0") @@ (1 :> "j1")
WrapJoinRoots == {WrapJoinRoot}

(***************************************************************************)
(* A spawned protocol that throws, joined through a moved handle: party 0 *)
(* ends its round first, so that the spawned task has thrown by the time  *)
(* of the join.                                                           *)
(***************************************************************************)
JoinMvLateProg ==
     ("m0" :> P(<<Await("msp"), EoR, JoinMv("msp")>>))
  @@ ("msp" :> Spawn("mx", "mct")) @@ ("mct" :> Ctl("mx"))
  @@ ("mx" :> P(<<Throw>>))
  @@ ("n1" :> P(<<>>))
JoinMvLateTasks == DOMAIN JoinMvLateProg
JoinMvRoot == (0 :> "m0") @@ (1 :> "n1")
JoinMvRoots == {JoinMvRoot}

(***************************************************************************)
(* resizeExample (cpp20Tutorial.cpp 64-101), run by execute(server,       *)
(* client): the server (party 0) receives "hello" by recvResize and       *)
(* "world" as a returned std::string (MoveRecvProto, a resizable          *)
(* receive), then moves both back with send(std::move(.)); the client     *)
(* sends both by reference and receives them into its fixed-size strings. *)
(***************************************************************************)
ResizeProg ==
     ("rsv" :> Co(<<Await("rsv0"), Await("rsv1"), Await("rsvm0"), Await("rsvm1")>>))
  @@ ("rsv0" :> Rcv(5)) @@ ("rsv1" :> Rcv(5))
  @@ ("rsvm0" :> MvSnd(5)) @@ ("rsvm1" :> MvSnd(5))
  @@ ("rcl" :> Co(<<Await("rcl0"), Await("rcl1"), Await("rclr0"), Await("rclr1")>>))
  @@ ("rcl0" :> Snd(5)) @@ ("rcl1" :> Snd(5))
  @@ ("rclr0" :> RcvSpan(5)) @@ ("rclr1" :> RcvSpan(5))
ResizeTasks == DOMAIN ResizeProg
ResizeRoot  == (0 :> "rsv") @@ (1 :> "rcl")
ResizeRoots == {ResizeRoot}
ResizeRounds == ResizeRoot :> ((0 :> 2) @@ (1 :> 2))
ResizePairs ==
     ("rsv0" :> "rcl0") @@ ("rsv1" :> "rcl1")
  @@ ("rclr0" :> "rsvm0") @@ ("rclr1" :> "rsvm1")

(***************************************************************************)
(* coawait_asyncProtocol_Test (AwaitProto.cpp 626-717) with one spawned    *)
(* sub-protocol and the C++20 echoServer / echoClient (AwaitProto.cpp      *)
(* 22-130) at i = 0, rep = 1.  Party 1 receives the opening vector, ends   *)
(* its round, spawns a server, runs a client inline and joins; party 0     *)
(* sends the vector, spawns a client, runs a server inline and joins.      *)
(***************************************************************************)
\* The C++20 echoServer and echoClient at i = 0, rep = 1: the server
\* receives a vector, sends it back and ends its round; the client sends,
\* ends its round and receives.
CoEchoServer(r, s) == Co(<<Await(r), Await(s), EoR>>)
CoEchoClient(s, r) == Co(<<Await(s), EoR, Await(r)>>)

CoAsyncProg ==
     ("q1" :> Co(<<Await("q1b"), EoR, Await("q1sp"), Await("q1cl"), Join("q1sp")>>))
  @@ ("q1b" :> RcvSpan(80))
  @@ ("q1sp" :> Spawn("q1sv", "q1ct")) @@ ("q1ct" :> Ctl("q1sv"))
  @@ ("q1sv" :> CoEchoServer("q1svr", "q1svs"))
  @@ ("q1svr" :> Rcv(5)) @@ ("q1svs" :> Snd(5))
  @@ ("q1cl" :> CoEchoClient("q1cls", "q1clr"))
  @@ ("q1cls" :> Snd(10)) @@ ("q1clr" :> Rcv(10))
  @@ ("q0" :> Co(<<Await("q0b"), Await("q0sp"), Await("q0sv"), Join("q0sp")>>))
  @@ ("q0b" :> Snd(80))
  @@ ("q0sp" :> Spawn("q0cl", "q0ct")) @@ ("q0ct" :> Ctl("q0cl"))
  @@ ("q0cl" :> CoEchoClient("q0cls", "q0clr"))
  @@ ("q0cls" :> Snd(5)) @@ ("q0clr" :> Rcv(5))
  @@ ("q0sv" :> CoEchoServer("q0svr", "q0svs"))
  @@ ("q0svr" :> Rcv(10)) @@ ("q0svs" :> Snd(10))
CoAsyncTasks == DOMAIN CoAsyncProg
CoAsyncRoot  == (0 :> "q0") @@ (1 :> "q1")
CoAsyncRoots == {CoAsyncRoot}
CoAsyncPairs ==
     ("q1b" :> "q0b") @@ ("q1svr" :> "q0cls") @@ ("q0clr" :> "q1svs")
  @@ ("q0svr" :> "q1cls") @@ ("q1clr" :> "q0svs")

(***************************************************************************)
(* coawait_asyncProtocol_Throw_Test (AwaitProto.cpp 719-757) at n = 1,     *)
(* with throwServer and throwClient (AwaitProto.cpp 528-552): party 1      *)
(* sends the opening vector, spawns throwServer(1) and joins it; party 0   *)
(* receives the vector, spawns throwClient(1) and joins it.  Each level    *)
(* exchanges "hello world" (11 bytes) and awaits the next level; the       *)
(* server's last level throws.  The test expects uncaughtException.        *)
(***************************************************************************)
\* throwServer(i): receive a string (recv<std::string>, resizable), send
\* it back, then await throwServer(i - 1), or throw at i = 0
CoThrowServer(r, s, next) ==
  Co(<<Await(r), Await(s)>> \o (IF next = "" THEN <<Throw>> ELSE <<Await(next)>>))
\* throwClient(i): send, receive and compare, then await throwClient(i - 1)
CoThrowClient(s, r, next) ==
  Co(<<Await(s), Await(r)>> \o (IF next = "" THEN <<>> ELSE <<Await(next)>>))

CoThrowAsyncProg ==
     ("u1" :> Co(<<Await("u1b"), Await("u1sp"), Join("u1sp")>>))
  @@ ("u1b" :> Snd(80))
  @@ ("u1sp" :> Spawn("ts1", "u1ct")) @@ ("u1ct" :> Ctl("ts1"))
  @@ ("ts1" :> CoThrowServer("ts1r", "ts1s", "ts0"))
  @@ ("ts1r" :> Rcv(11)) @@ ("ts1s" :> Snd(11))
  @@ ("ts0" :> CoThrowServer("ts0r", "ts0s", ""))
  @@ ("ts0r" :> Rcv(11)) @@ ("ts0s" :> Snd(11))
  @@ ("u0" :> Co(<<Await("u0b"), Await("u0sp"), Join("u0sp")>>))
  @@ ("u0b" :> RcvSpan(80))
  @@ ("u0sp" :> Spawn("tc1", "u0ct")) @@ ("u0ct" :> Ctl("tc1"))
  @@ ("tc1" :> CoThrowClient("tc1s", "tc1r", "tc0"))
  @@ ("tc1s" :> Snd(11)) @@ ("tc1r" :> Rcv(11))
  @@ ("tc0" :> CoThrowClient("tc0s", "tc0r", ""))
  @@ ("tc0s" :> Snd(11)) @@ ("tc0r" :> Rcv(11))
CoThrowAsyncRoot == (0 :> "u0") @@ (1 :> "u1")
CoThrowAsyncPairs ==
     ("u0b" :> "u1b") @@ ("ts1r" :> "tc1s") @@ ("tc1r" :> "ts1s")
  @@ ("ts0r" :> "tc0s") @@ ("tc0r" :> "ts0s")

\* coawait_throws_Test (AwaitProto.cpp 465-489): both coroutines throw at
\* once; the test expects an error.
CoThrowsProg == ("o0" :> Co(<<Throw>>)) @@ ("o1" :> Co(<<Throw>>))
CoThrowsRoot == (0 :> "o0") @@ (1 :> "o1")

(***************************************************************************)
(* coawait_errorSocket_Test (AwaitProto.cpp 807-899) with two of its five  *)
(* spawned echoes, at i = 0 and rep = 1: party 1 receives the vector, ends *)
(* its round, spawns two servers, runs a client inline and joins both;     *)
(* party 0 sends the vector, spawns two clients, runs a server inline and  *)
(* joins both.  The spawned pairs talk on slots 1 and 2.  The test expects *)
(* success, and ioError for every failure index below the clean run's.     *)
(***************************************************************************)
CoErrSockProg ==
     ("f1" :> Co(<<Await("f1b"), EoR, Await("f1sp"), Await("f1sq"),
                   Await("f1cl"), Join("f1sp"), Join("f1sq")>>))
  @@ ("f1b" :> RcvSpan(80))
  @@ ("f1sp" :> Spawn("f1sv", "f1ct")) @@ ("f1ct" :> Ctl("f1sv"))
  @@ ("f1sv" :> CoEchoServer("f1svr", "f1svs"))
  @@ ("f1svr" :> Rcv(5)) @@ ("f1svs" :> Snd(5))
  @@ ("f1sq" :> Spawn("f1sw", "f1cu")) @@ ("f1cu" :> Ctl("f1sw"))
  @@ ("f1sw" :> CoEchoServer("f1swr", "f1sws"))
  @@ ("f1swr" :> Rcv(6)) @@ ("f1sws" :> Snd(6))
  @@ ("f1cl" :> CoEchoClient("f1cls", "f1clr"))
  @@ ("f1cls" :> Snd(10)) @@ ("f1clr" :> Rcv(10))
  @@ ("f0" :> Co(<<Await("f0b"), Await("f0sp"), Await("f0sq"),
                   Await("f0sv"), Join("f0sp"), Join("f0sq")>>))
  @@ ("f0b" :> Snd(80))
  @@ ("f0sp" :> Spawn("f0cl", "f0ct")) @@ ("f0ct" :> Ctl("f0cl"))
  @@ ("f0cl" :> CoEchoClient("f0cls", "f0clr"))
  @@ ("f0cls" :> Snd(5)) @@ ("f0clr" :> Rcv(5))
  @@ ("f0sq" :> Spawn("f0cm", "f0cu")) @@ ("f0cu" :> Ctl("f0cm"))
  @@ ("f0cm" :> CoEchoClient("f0cms", "f0cmr"))
  @@ ("f0cms" :> Snd(6)) @@ ("f0cmr" :> Rcv(6))
  @@ ("f0sv" :> CoEchoServer("f0svr", "f0svs"))
  @@ ("f0svr" :> Rcv(10)) @@ ("f0svs" :> Snd(10))
CoErrSockRoot == (0 :> "f0") @@ (1 :> "f1")
CoErrSockPairs ==
     ("f1b" :> "f0b") @@ ("f1svr" :> "f0cls") @@ ("f0clr" :> "f1svs")
  @@ ("f1swr" :> "f0cms") @@ ("f0cmr" :> "f1sws")
  @@ ("f0svr" :> "f1cls") @@ ("f1clr" :> "f0svs")

(***************************************************************************)
(* Native_asyncProtocol_Throw_Test (NativeProto.cpp 559-612) at echo depth *)
(* 0 and rep = 1: party 1 spawns an nEchoClient that throws after its      *)
(* exchange, runs an nEchoServer inline and joins with CP_AWAIT(f1);       *)
(* party 0 spawns a server, runs a client inline and joins.  The test      *)
(* expects uncaughtException.                                              *)
(***************************************************************************)
NatThrowAsyncProg ==
     ("ay1" :> P(<<Await("ay1sp"), Await("ay1sv"), Join("ay1sp")>>))
  @@ ("ay1sp" :> Spawn("ay1cl", "ay1ct")) @@ ("ay1ct" :> Ctl("ay1cl"))
  @@ ("ay1cl" :> P(<<Await("ay1cls"), Await("ay1clr"), Throw>>))
  @@ ("ay1cls" :> Snd(11)) @@ ("ay1clr" :> RcvSpan(11))
  @@ ("ay1sv" :> P(<<Await("ay1svr"), Await("ay1svs")>>))
  @@ ("ay1svr" :> RcvSpan(14)) @@ ("ay1svs" :> Snd(14))
  @@ ("ay0" :> P(<<Await("ay0sp"), Await("ay0cl"), Join("ay0sp")>>))
  @@ ("ay0sp" :> Spawn("ay0sv", "ay0ct")) @@ ("ay0ct" :> Ctl("ay0sv"))
  @@ ("ay0sv" :> P(<<Await("ay0svr"), Await("ay0svs")>>))
  @@ ("ay0svr" :> RcvSpan(11)) @@ ("ay0svs" :> Snd(11))
  @@ ("ay0cl" :> P(<<Await("ay0cls"), Await("ay0clr")>>))
  @@ ("ay0cls" :> Snd(14)) @@ ("ay0clr" :> RcvSpan(14))
NatThrowAsyncRoot == (0 :> "ay0") @@ (1 :> "ay1")
NatThrowAsyncPairs ==
     ("ay0svr" :> "ay1cls") @@ ("ay1clr" :> "ay0svs")
  @@ ("ay1svr" :> "ay0cls") @@ ("ay0clr" :> "ay1svs")

\* The tests of spawned and throwing protocols, one run.
CoSuiteProg ==
  CoAsyncProg @@ CoThrowAsyncProg @@ CoThrowsProg @@ CoErrSockProg @@ NatThrowAsyncProg
CoSuiteTasks == DOMAIN CoSuiteProg
CoSuiteRoots ==
  {CoAsyncRoot, CoThrowAsyncRoot, CoThrowsRoot, CoErrSockRoot, NatThrowAsyncRoot}
CoSuitePairs ==
  CoAsyncPairs @@ CoThrowAsyncPairs @@ CoErrSockPairs @@ NatThrowAsyncPairs

(***************************************************************************)
(* Native_StrSendRecv_Test (NativeProto.cpp 15-88) with 2 of its 5         *)
(* iterations: party 1 sends the string, ends its round and receives the   *)
(* reply with CP_RECV_EC, throwing on an error; party 0 receives, sends    *)
(* the reply and ends its round.  The test expects success and 6 rounds    *)
(* per party for 5 iterations: one per iteration, and the last.            *)
(***************************************************************************)
StrProg ==
     ("sa1" :> P(<<Await("sa1s"), EoR, Await("sa1w"), Check("sa1w", "ok"),
                   Await("sb1s"), EoR, Await("sb1w"), Check("sb1w", "ok")>>))
  @@ ("sa1s" :> Snd(12)) @@ ("sa1w" :> Wrap("sa1r")) @@ ("sa1r" :> RcvSpan(12))
  @@ ("sb1s" :> Snd(12)) @@ ("sb1w" :> Wrap("sb1r")) @@ ("sb1r" :> RcvSpan(12))
  @@ ("sa0" :> P(<<Await("sa0r"), Await("sa0s"), EoR,
                   Await("sb0r"), Await("sb0s"), EoR>>))
  @@ ("sa0r" :> RcvSpan(12)) @@ ("sa0s" :> Snd(12))
  @@ ("sb0r" :> RcvSpan(12)) @@ ("sb0s" :> Snd(12))
StrRoot == (0 :> "sa0") @@ (1 :> "sa1")
StrRounds == StrRoot :> ((0 :> 3) @@ (1 :> 3))
StrPairs ==
     ("sa0r" :> "sa1s") @@ ("sa1r" :> "sa0s")
  @@ ("sb0r" :> "sb1s") @@ ("sb1r" :> "sb0s")

(***************************************************************************)
(* Native_ZeroSend_ErrorCode_Test (NativeProto.cpp 119-162): each party    *)
(* sends an empty vector with CP_SEND_EC, notes whether the code is        *)
(* sendLengthZeroMsg (modelled as a check) and returns it.                 *)
(***************************************************************************)
ZeroEcProg ==
     ("za0" :> P(<<Await("za0w"), Check("za0w", "sendLengthZeroMsg"), RetEc("za0w")>>))
  @@ ("za0w" :> Wrap("za0s")) @@ ("za0s" :> Snd(0))
  @@ ("za1" :> P(<<Await("za1w"), Check("za1w", "sendLengthZeroMsg"), RetEc("za1w")>>))
  @@ ("za1w" :> Wrap("za1s")) @@ ("za1s" :> Snd(0))
ZeroEcRoot == (0 :> "za0") @@ (1 :> "za1")

(***************************************************************************)
(* Native_BadRecvSize_ErrorCode_Test (NativeProto.cpp 256-310): party 1    *)
(* sends 3 bytes; party 0 receives them into a 1-byte span with            *)
(* CP_RECV_EC, notes whether the code is badBufferSize (a check) and       *)
(* returns it.  The test expects badBufferSize from execute.               *)
(***************************************************************************)
BadSizeEcProg ==
     ("bz0" :> P(<<Await("bz0w"), Check("bz0w", "badBufferSize"), RetEc("bz0w")>>))
  @@ ("bz0w" :> Wrap("bz0r")) @@ ("bz0r" :> RcvSpan(1))
  @@ ("bz1" :> P(<<Await("bz1s")>>)) @@ ("bz1s" :> Snd(3))
BadSizeEcRoot == (0 :> "bz0") @@ (1 :> "bz1")
BadSizeEcPairs == ("bz0r" :> "bz1s")

(***************************************************************************)
(* coawait_nestedProtocol_ErrorCode_Test (AwaitProto.cpp 585-624) at n = 1 *)
(* (throwServer and throwClient as in CoThrowAsyncProg): party 1 sends the *)
(* vector and awaits throwServer(1).wrap(), which must give               *)
(* uncaughtException; party 0 receives and awaits throwClient(1).  The    *)
(* test records the code in hasEc and fails unless it is set and execute  *)
(* succeeds; the model throws instead, which fails execute alike.         *)
(***************************************************************************)
CoNestEcProg ==
     ("l1" :> Co(<<Await("l1b"), Await("l1w"), Check("l1w", "uncaughtException")>>))
  @@ ("l1b" :> Snd(80)) @@ ("l1w" :> Wrap("ls1"))
  @@ ("ls1" :> CoThrowServer("ls1r", "ls1s", "ls0"))
  @@ ("ls1r" :> Rcv(11)) @@ ("ls1s" :> Snd(11))
  @@ ("ls0" :> CoThrowServer("ls0r", "ls0s", ""))
  @@ ("ls0r" :> Rcv(11)) @@ ("ls0s" :> Snd(11))
  @@ ("l0" :> Co(<<Await("l0b"), Await("lc1")>>))
  @@ ("l0b" :> RcvSpan(80))
  @@ ("lc1" :> CoThrowClient("lc1s", "lc1r", "lc0"))
  @@ ("lc1s" :> Snd(11)) @@ ("lc1r" :> Rcv(11))
  @@ ("lc0" :> CoThrowClient("lc0s", "lc0r", ""))
  @@ ("lc0s" :> Snd(11)) @@ ("lc0r" :> Rcv(11))
CoNestEcRoot == (0 :> "l0") @@ (1 :> "l1")
CoNestEcPairs ==
     ("l0b" :> "l1b") @@ ("ls1r" :> "lc1s") @@ ("lc1r" :> "ls1s")
  @@ ("ls0r" :> "lc0s") @@ ("lc0r" :> "ls0s")

(***************************************************************************)
(* Single-send tests of the error codes a leaf raises.  Both parties send  *)
(* an empty vector: Native_ZeroSendRecv_Test (NativeProto.cpp 91-117) and  *)
(* coawait_zeroSendRecv_Test (AwaitProto.cpp 340-358) expect an error,    *)
(* coawait_zeroSendRecv_ErrorCode_Test (AwaitProto.cpp 389-409) wraps the  *)
(* send, throws unless it gave sendLengthZeroMsg and expects success.      *)
(* coawait_badRecvSize_Test (AwaitProto.cpp 361-387): party 1 sends 3      *)
(* words, party 0 receives into 1; the test expects badBufferSize.         *)
(***************************************************************************)
NatZeroProg ==
  ("nz0" :> P(<<Await("nz0s")>>)) @@ ("nz0s" :> Snd(0))
  @@ ("nz1" :> P(<<Await("nz1s")>>)) @@ ("nz1s" :> Snd(0))
NatZeroRoot == (0 :> "nz0") @@ (1 :> "nz1")
CoZeroProg ==
  ("cz0" :> Co(<<Await("cz0s")>>)) @@ ("cz0s" :> Snd(0))
  @@ ("cz1" :> Co(<<Await("cz1s")>>)) @@ ("cz1s" :> Snd(0))
CoZeroRoot == (0 :> "cz0") @@ (1 :> "cz1")
CoZeroEcProg ==
     ("ce0" :> Co(<<Await("ce0w"), Check("ce0w", "sendLengthZeroMsg")>>))
  @@ ("ce0w" :> Wrap("ce0s")) @@ ("ce0s" :> Snd(0))
  @@ ("ce1" :> Co(<<Await("ce1w"), Check("ce1w", "sendLengthZeroMsg")>>))
  @@ ("ce1w" :> Wrap("ce1s")) @@ ("ce1s" :> Snd(0))
CoZeroEcRoot == (0 :> "ce0") @@ (1 :> "ce1")
CoBadSizeProg ==
  ("cb0" :> Co(<<Await("cb0r")>>)) @@ ("cb0r" :> RcvSpan(8))
  @@ ("cb1" :> Co(<<Await("cb1s")>>)) @@ ("cb1s" :> Snd(24))
CoBadSizeRoot == (0 :> "cb0") @@ (1 :> "cb1")
CoBadSizePairs == ("cb0r" :> "cb1s")

\* The tests of wrapped and returned error codes, and of round counts, one
\* run.
NestSuiteProg ==
  NestProg @@ StrProg @@ ZeroEcProg @@ BadSizeEcProg @@ CoBadSizeEcProg @@ CoNestEcProg
  @@ NatZeroProg @@ CoZeroProg @@ CoZeroEcProg @@ CoBadSizeProg
NestSuiteTasks == DOMAIN NestSuiteProg
NestSuiteRoots ==
  {NestRoot, StrRoot, ZeroEcRoot, BadSizeEcRoot, CoBadSizeEcRoot, CoNestEcRoot,
   NatZeroRoot, CoZeroRoot, CoZeroEcRoot, CoBadSizeRoot}
NestSuitePairs ==
  NestPairs @@ StrPairs @@ BadSizeEcPairs @@ CoBadSizeEcPairs @@ CoNestEcPairs
  @@ CoBadSizePairs
NestSuiteRounds == NestRounds @@ StrRounds

(***************************************************************************)
(* The tutorial's asyncServer (cpp20Tutorial.cpp 229-248) pattern, spawn   *)
(* then join, inside a coroutine that its parent awaits with co_await      *)
(* instead of evaluating it as the root: party 0's sub-protocol spawns a   *)
(* receive and joins it, then the parent sends on slot 0; party 1 spawns   *)
(* the matching send on slot 1, receives on slot 0 and joins.              *)
(***************************************************************************)
SubJoinProg ==
     ("g0" :> Co(<<Await("g0n"), Await("g0s")>>))
  @@ ("g0n" :> Co(<<Await("g0sp"), Join("g0sp")>>))
  @@ ("g0sp" :> Spawn("g0x", "g0ct")) @@ ("g0ct" :> Ctl("g0x"))
  @@ ("g0x" :> Co(<<Await("g0xr")>>)) @@ ("g0xr" :> RcvSpan(4))
  @@ ("g0s" :> Snd(4))
  @@ ("h1" :> Co(<<Await("h1sp"), Await("h1r"), Join("h1sp")>>))
  @@ ("h1sp" :> Spawn("h1x", "h1ct")) @@ ("h1ct" :> Ctl("h1x"))
  @@ ("h1x" :> Co(<<Await("h1xs")>>)) @@ ("h1xs" :> Snd(4))
  @@ ("h1r" :> RcvSpan(4))
SubJoinTasks == DOMAIN SubJoinProg
SubJoinRoot  == (0 :> "g0") @@ (1 :> "h1")
SubJoinRoots == {SubJoinRoot}
SubJoinPairs == ("g0xr" :> "h1xs") @@ ("h1r" :> "g0s")

(***************************************************************************)
(* Native_BadRecvSize_Test (NativeProto.cpp 213-254) with a second,        *)
(* spawned exchange outstanding: party 1 sends 3 bytes on slot 0 and 4     *)
(* bytes on slot 1; party 0 receives slot 0 into a 1-byte span while its   *)
(* spawned task waits for slot 1 with a resizable buffer.                  *)
(***************************************************************************)
BadSizeProg ==
     ("d0" :> P(<<Await("dsp"), Await("drs"), Join("dsp")>>))
  @@ ("dsp" :> Spawn("dg", "dct")) @@ ("dct" :> Ctl("dg"))
  @@ ("dg" :> P(<<Await("dgr")>>)) @@ ("dgr" :> Rcv(4))
  @@ ("drs" :> RcvSpan(1))
  @@ ("e1" :> P(<<Await("esp"), Await("ess"), Join("esp")>>))
  @@ ("esp" :> Spawn("eg", "ect")) @@ ("ect" :> Ctl("eg"))
  @@ ("eg" :> P(<<Await("egs")>>)) @@ ("egs" :> Snd(4))
  @@ ("ess" :> Snd(3))
BadSizeTasks == DOMAIN BadSizeProg
BadSizeRoot  == (0 :> "d0") @@ (1 :> "e1")
BadSizeRoots == {BadSizeRoot}
BadSizePairs == ("drs" :> "ess") @@ ("dgr" :> "egs")


(***************************************************************************)
(* An exchange in which both parties send first: each root sends 4 bytes   *)
(* and then receives the peer's 4 bytes.                                   *)
(***************************************************************************)
SwapProg ==
     ("w0" :> P(<<Await("w0s"), Await("w0r")>>)) @@ ("w0s" :> Snd(4)) @@ ("w0r" :> Rcv(4))
  @@ ("z1" :> P(<<Await("z1s"), Await("z1r")>>)) @@ ("z1s" :> Snd(4)) @@ ("z1r" :> Rcv(4))
SwapTasks == DOMAIN SwapProg
SwapRoot  == (0 :> "w0") @@ (1 :> "z1")
SwapRoots == {SwapRoot}
SwapPairs == ("w0r" :> "z1s") @@ ("z1r" :> "w0s")

(***************************************************************************)
(* What each test asserts of execute's result without an injected fault;  *)
(* where a test asserts only that there is an error, the one its protocol *)
(* raises.                                                                 *)
(***************************************************************************)
MCCleanResults ==
     (CoThrowAsyncRoot :> "uncaughtException")
  @@ (NatZeroRoot :> "sendLengthZeroMsg") @@ (CoZeroRoot :> "sendLengthZeroMsg")
  @@ (CoBadSizeRoot :> "badBufferSize")
  @@ (NatThrowAsyncRoot :> "uncaughtException")
  @@ (ZeroEcRoot :> "sendLengthZeroMsg") @@ (BadSizeEcRoot :> "badBufferSize")
  @@ (CoThrowsRoot :> "uncaughtException")
  @@ [r \in {CoAsyncRoot, CoErrSockRoot, NestRoot, StrRoot, CoNestEcRoot,
             CoZeroEcRoot, CoBadSizeEcRoot, WrapJoinRoot, ResizeRoot,
             SubJoinRoot} |-> "ok"]

=============================================================================
