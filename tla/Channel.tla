------------------------------ MODULE Channel ------------------------------
(***************************************************************************)
(* What the framed connection between two schedulers promises its          *)
(* protocols: each party's messages reach the peer one by one, in the      *)
(* order they were sent, none skipped and none twice.  sent[p] is the      *)
(* sequence of the messages party p has sent, got[p] the sequence it has   *)
(* received; got[p] is always a prefix of the peer's sent sequence.        *)
(***************************************************************************)
EXTENDS Naturals, Sequences

CONSTANTS
  Parties,   \* the two ends of the connection
  Msgs       \* message identities

VARIABLES sent, got

vars == <<sent, got>>

Peer(p) == CHOOSE q \in Parties : q # p

Init ==
  /\ sent = [p \in Parties |-> <<>>]
  /\ got  = [p \in Parties |-> <<>>]

\* p sends message m
Send(p, m) ==
  /\ sent' = [sent EXCEPT ![p] = Append(@, m)]
  /\ UNCHANGED got

\* p receives the peer's oldest message it has not received yet
Receive(p) ==
  LET s == sent[Peer(p)] IN
  /\ Len(got[p]) < Len(s)
  /\ got' = [got EXCEPT ![p] = Append(@, s[Len(got[p]) + 1])]
  /\ UNCHANGED sent

Next == \E p \in Parties : (\E m \in Msgs : Send(p, m)) \/ Receive(p)

Spec == Init /\ [][Next]_vars

=============================================================================
