------------------------------- MODULE Duplex -------------------------------
(***************************************************************************)
(* What a tunnel promises the two applications it joins: each receives a   *)
(* prefix of what the other one sends, in order and unaltered, and nothing *)
(* any more once its own connection has been closed.                       *)
(***************************************************************************)
EXTENDS Integers, Sequences

CONSTANTS Ends,         \* the two applications' ends of the tunnel
          Peer(_),      \* the other end
          Chunk(_),     \* the n-th piece of data an application sends
          Limit(_)      \* bound: pieces of data an application sends

VARIABLES sent,         \* pieces sent so far at an end
          got,          \* what the application at an end has received
          over          \* the connection of the application is closed

Init ==
    /\ sent = [e \in Ends |-> 0]
    /\ got = [e \in Ends |-> <<>>]
    /\ over = [e \in Ends |-> FALSE]

Send(e) ==
    /\ sent[e] < Limit(e)
    /\ sent' = [sent EXCEPT ![e] = @ + 1]
    /\ UNCHANGED <<got, over>>

Deliver(e) ==
    /\ ~over[e]
    /\ Len(got[e]) < sent[Peer(e)]
    /\ got' = [got EXCEPT ![e] = Append(@, Chunk(Len(@) + 1))]
    /\ UNCHANGED <<sent, over>>

(* Connections close, one or both of them at a time.                       *)
Hangup ==
    /\ over' \in [Ends -> BOOLEAN]
    /\ \A e \in Ends : over[e] => over'[e]
    /\ UNCHANGED <<sent, got>>

Next == (\E e \in Ends : Send(e) \/ Deliver(e)) \/ Hangup

Spec == Init /\ [][Next]_<<sent, got, over>>

=============================================================================
