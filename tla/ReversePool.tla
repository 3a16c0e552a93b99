----------------------------- MODULE ReversePool -----------------------------
(***************************************************************************)
(* What the server promises reverse-tunnel clients and the connections     *)
(* that come in for them: every listener has a bounded line of clients,    *)
(* each incoming connection is given the client that has waited longest,   *)
(* nobody is given a client twice, and a client may leave the line.        *)
(***************************************************************************)
EXTENDS Integers, Sequences

CONSTANTS Listeners, Waiters, Incoming, WaitCap, None

VARIABLES line,         \* the clients waiting at a listener, oldest first
          given         \* the client an incoming connection was given

Init ==
    /\ line = [l \in Listeners |-> <<>>]
    /\ given = [h \in Incoming |-> None]

Park(w, l) ==
    /\ \A k \in Listeners : \A i \in 1..Len(line[k]) : line[k][i] # w
    /\ \A h \in Incoming : given[h] # w
    /\ Len(line[l]) < WaitCap
    /\ line' = [line EXCEPT ![l] = Append(@, w)]
    /\ UNCHANGED given

Give(h, l) ==
    /\ given[h] = None
    /\ line[l] # <<>>
    /\ given' = [given EXCEPT ![h] = Head(line[l])]
    /\ line' = [line EXCEPT ![l] = Tail(@)]

(* The line without its i-th client.                                      *)
Without(s, i) == SubSeq(s, 1, i - 1) \o SubSeq(s, i + 1, Len(s))

Leave(w, l) ==
    /\ \E i \in 1..Len(line[l]) :
           /\ line[l][i] = w
           /\ line' = [line EXCEPT ![l] = Without(@, i)]
    /\ UNCHANGED given

(* Every step changes the line it is about.                                *)
Next ==
    \E l \in Listeners :
        /\ line'[l] # line[l]
        /\ \/ \E w \in Waiters : Park(w, l) \/ Leave(w, l)
           \/ \E h \in Incoming : Give(h, l)

Spec == Init /\ [][Next]_<<line, given>>

=============================================================================
