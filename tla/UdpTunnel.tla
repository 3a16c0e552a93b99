----------------------------- MODULE UdpTunnel -----------------------------
(***************************************************************************)
(* The client's UDP sessions: runUdpTunnel and runTProxyUdpTunnel of       *)
(* pkg/client/client.go.                                                   *)
(*                                                                         *)
(* One receive loop reads datagrams.  The first datagram of a source       *)
(* address dials a stream to the server, arms a timer and starts a reader  *)
(* goroutine for the replies; clients and timers remember both under the   *)
(* source address.  Three goroutines delete from the two maps: the receive *)
(* loop after a failed write, the timer's callback, and the reader when    *)
(* its stream ends.  An action is a critical section of mu, or one of the  *)
(* steps outside mu (a read, a write, a Close) that others can observe.    *)
(* mu is also held while a stream is dialed, which may take any time.      *)
(*                                                                         *)
(* A definition set just before another one, with a name that says what is *)
(* wrong with it, is a faulty variant that the properties must catch.      *)
(***************************************************************************)
EXTENDS FiniteSets

CONSTANTS Peers,     \* source addresses of datagrams
          Targets,   \* original destinations (one for runUdpTunnel)
          Sessions,  \* tunnelStream objects that may be dialed
          Modes,     \* which of the two functions may run, see tproxy
          None

ASSUME UdpAssumption ==
    /\ Modes \subseteq BOOLEAN
    /\ None \notin Peers \cup Targets \cup Sessions

VARIABLES
    tproxy,    \* TRUE in runTProxyUdpTunnel, FALSE in runUdpTunnel
    clients,   \* the stream mapped to a source address
    timers,    \* the timer mapped to it, named by the session that made it
    peer,      \* the source address a session was dialed for
    target,    \* the destination it was dialed to
    stream,    \* the session's tunnelStream
    armed,     \* the session's timer is running
    expiry,    \* where the timer's callback is
    reader,    \* where the session's reader goroutine is
    pc,        \* where the receive loop is
    from,      \* the source address of the datagram in hand
    dest,      \* its original destination
    ts         \* the session the receive loop uses for it

maps == <<clients, timers>>
sessionVars == <<peer, target, stream>>
loopVars == <<pc, from, dest, ts>>
vars == <<tproxy, maps, sessionVars, armed, expiry, reader, loopVars>>

TypeOK ==
    /\ tproxy \in BOOLEAN
    /\ clients \in [Peers -> Sessions \cup {None}]
    /\ timers \in [Peers -> Sessions \cup {None}]
    /\ peer \in [Sessions -> Peers \cup {None}]
    /\ target \in [Sessions -> Targets \cup {None}]
    /\ stream \in [Sessions -> {"none", "open", "closed"}]
    /\ armed \in [Sessions -> BOOLEAN]
    /\ expiry \in [Sessions -> {"none", "lock", "close"}]
    /\ reader \in [Sessions -> {"none", "read", "reply", "leave", "close", "gone"}]
    /\ pc \in {"recv", "dial", "write", "drop", "close"}
    /\ from \in Peers \cup {None}
    /\ dest \in Targets \cup {None}
    /\ ts \in Sessions \cup {None}
    /\ pc # "recv" => from \in Peers
    /\ pc \notin {"recv", "dial"} => ts \in Sessions

Init ==
    /\ tproxy \in Modes
    /\ clients = [p \in Peers |-> None]
    /\ timers = [p \in Peers |-> None]
    /\ peer = [s \in Sessions |-> None]
    /\ target = [s \in Sessions |-> None]
    /\ stream = [s \in Sessions |-> "none"]
    /\ armed = [s \in Sessions |-> FALSE]
    /\ expiry = [s \in Sessions |-> "none"]
    /\ reader = [s \in Sessions |-> "none"]
    /\ pc = "recv"
    /\ from = None
    /\ dest = None
    /\ ts = None

-----------------------------------------------------------------------------
(* Helpers.                                                                *)

(* Whether the timers' callbacks and the readers can lock mu.              *)
MuFree == pc # "dial"

(* timers[p].Reset, when there is a timer under p: Reset also re-arms a    *)
(* timer whose callback has started.                                       *)
Reset(p) == [s \in Sessions |-> armed[s] \/ s = timers[p]]

(* Both entries of p are deleted and the timer found there is stopped.     *)
ForgetLeavesTimer(p) ==
    /\ clients' = [clients EXCEPT ![p] = None]
    /\ armed' = [s \in Sessions |-> armed[s] /\ s # timers[p]]
    /\ UNCHANGED timers
ForgetLeavesClient(p) ==
    /\ timers' = [timers EXCEPT ![p] = None]
    /\ armed' = [s \in Sessions |-> armed[s] /\ s # timers[p]]
    /\ UNCHANGED clients
Forget(p) ==
    /\ clients' = [clients EXCEPT ![p] = None]
    /\ timers' = [timers EXCEPT ![p] = None]
    /\ armed' = [s \in Sessions |-> armed[s] /\ s # timers[p]]

-----------------------------------------------------------------------------
(* The receive loop.                                                       *)

(* A datagram of a source that has a session.                              *)
ReceiveUnchecked(p, d) ==
    /\ pc = "recv"
    /\ armed' = Reset(p)
    /\ ts' = clients[p]
    /\ from' = p
    /\ dest' = d
    /\ pc' = "write"
    /\ UNCHANGED <<tproxy, maps, sessionVars, expiry, reader>>
Receive(p, d) ==
    /\ pc = "recv"
    /\ clients[p] # None
    /\ armed' = Reset(p)
    /\ ts' = clients[p]
    /\ from' = p
    /\ dest' = d
    /\ pc' = "write"
    /\ UNCHANGED <<tproxy, maps, sessionVars, expiry, reader>>

(* A datagram of a new source: a stream is dialed under mu.                *)
DialBegins(p, d) ==
    /\ pc = "recv"
    /\ clients[p] = None
    /\ from' = p
    /\ dest' = d
    /\ pc' = "dial"
    /\ UNCHANGED <<tproxy, maps, sessionVars, armed, expiry, reader, ts>>

Dial(s) ==
    /\ pc = "dial"
    /\ stream[s] = "none"
    /\ clients' = [clients EXCEPT ![from] = s]
    /\ timers' = [timers EXCEPT ![from] = s]
    /\ peer' = [peer EXCEPT ![s] = from]
    /\ target' = [target EXCEPT ![s] = dest]
    /\ stream' = [stream EXCEPT ![s] = "open"]
    /\ armed' = [armed EXCEPT ![s] = TRUE]
    /\ reader' = [reader EXCEPT ![s] = "read"]
    /\ ts' = s
    /\ pc' = "write"
    /\ UNCHANGED <<tproxy, expiry, from, dest>>

DialFails ==
    /\ pc = "dial"
    /\ pc' = "recv"
    /\ UNCHANGED <<tproxy, maps, sessionVars, armed, expiry, reader, from, dest, ts>>

(* The write to the stream, outside mu.  runTProxyUdpTunnel ignores its    *)
(* error; a write to an open stream may fail too.                          *)
Write ==
    /\ pc = "write"
    /\ stream[ts] = "open" \/ tproxy
    /\ pc' = "recv"
    /\ UNCHANGED <<tproxy, maps, sessionVars, armed, expiry, reader, from, dest, ts>>

WriteFails ==
    /\ pc = "write"
    /\ ~tproxy
    /\ pc' = "drop"
    /\ UNCHANGED <<tproxy, maps, sessionVars, armed, expiry, reader, from, dest, ts>>

(* The clean-up after a failed write: under mu, then ts.Close.             *)
Drop ==
    /\ pc = "drop"
    /\ Forget(from)
    /\ pc' = "close"
    /\ UNCHANGED <<tproxy, sessionVars, expiry, reader, from, dest, ts>>

DropCloses ==
    /\ pc = "close"
    /\ stream' = [stream EXCEPT ![ts] = "closed"]
    /\ pc' = "recv"
    /\ UNCHANGED <<tproxy, maps, peer, target, armed, expiry, reader, from, dest, ts>>

-----------------------------------------------------------------------------
(* The timer and its callback.                                             *)

(* A timer fires once per arming.  Bound: a timer that was re-armed while  *)
(* its callback waits for mu fires again only when the callback is over.   *)
Fire(s) ==
    /\ armed[s]
    /\ expiry[s] = "none"
    /\ armed' = [armed EXCEPT ![s] = FALSE]
    /\ expiry' = [expiry EXCEPT ![s] = "lock"]
    /\ UNCHANGED <<tproxy, maps, sessionVars, reader, loopVars>>

(* runUdpTunnel's callback forgets its source's entries, then closes its   *)
(* own stream; runTProxyUdpTunnel's closes the stream it finds mapped.     *)
Expire(s) ==
    /\ expiry[s] = "lock"
    /\ MuFree
    /\ ~tproxy
    /\ clients' = [clients EXCEPT ![peer[s]] = None]
    /\ timers' = [timers EXCEPT ![peer[s]] = None]
    /\ expiry' = [expiry EXCEPT ![s] = "close"]
    /\ UNCHANGED <<tproxy, sessionVars, armed, reader, loopVars>>

ExpireCloses(s) ==
    /\ expiry[s] = "close"
    /\ stream' = [stream EXCEPT ![s] = "closed"]
    /\ expiry' = [expiry EXCEPT ![s] = "none"]
    /\ UNCHANGED <<tproxy, maps, peer, target, armed, reader, loopVars>>

ExpireTProxy(s) ==
    LET p == peer[s] IN
    /\ expiry[s] = "lock"
    /\ MuFree
    /\ tproxy
    /\ stream' = [r \in Sessions |-> IF r = clients[p] THEN "closed" ELSE stream[r]]
    /\ clients' = [clients EXCEPT ![p] = None]
    /\ timers' = [timers EXCEPT ![p] = None]
    /\ expiry' = [expiry EXCEPT ![s] = "none"]
    /\ UNCHANGED <<tproxy, peer, target, armed, reader, loopVars>>

-----------------------------------------------------------------------------
(* The reader of a session's replies.                                      *)

(* A read returns a reply, outside mu; then, under mu, the timer mapped to *)
(* the session's source is reset.                                          *)
Read(s) ==
    /\ reader[s] = "read"
    /\ stream[s] = "open"
    /\ reader' = [reader EXCEPT ![s] = "reply"]
    /\ UNCHANGED <<tproxy, maps, sessionVars, armed, expiry, loopVars>>

Reply(s) ==
    /\ reader[s] = "reply"
    /\ MuFree
    /\ armed' = Reset(peer[s])
    /\ reader' = [reader EXCEPT ![s] = "read"]
    /\ UNCHANGED <<tproxy, maps, sessionVars, expiry, loopVars>>

(* The read fails, because the stream was closed here or by the server.    *)
ReadFails(s) ==
    /\ reader[s] = "read"
    /\ reader' = [reader EXCEPT ![s] = "leave"]
    /\ UNCHANGED <<tproxy, maps, sessionVars, armed, expiry, loopVars>>

(* The deferred clean-up, under mu; then ts.Close.                         *)
LeaveKeepsEntry(s) ==
    /\ reader[s] = "leave"
    /\ MuFree
    /\ reader' = [reader EXCEPT ![s] = "close"]
    /\ UNCHANGED <<tproxy, maps, sessionVars, armed, expiry, loopVars>>
Leave(s) ==
    /\ reader[s] = "leave"
    /\ MuFree
    /\ Forget(peer[s])
    /\ reader' = [reader EXCEPT ![s] = "close"]
    /\ UNCHANGED <<tproxy, sessionVars, expiry, loopVars>>

LeaveCloses(s) ==
    /\ reader[s] = "close"
    /\ stream' = [stream EXCEPT ![s] = "closed"]
    /\ reader' = [reader EXCEPT ![s] = "gone"]
    /\ UNCHANGED <<tproxy, maps, peer, target, armed, expiry, loopVars>>

-----------------------------------------------------------------------------
Incoming == \E p \in Peers, d \in Targets : Receive(p, d) \/ DialBegins(p, d)

DialReturns == DialFails \/ \E s \in Sessions : Dial(s)

LoopStep == Write \/ WriteFails \/ Drop \/ DropCloses

TimerStep(s) == Expire(s) \/ ExpireCloses(s) \/ ExpireTProxy(s)

ReaderStep(s) == Reply(s) \/ Leave(s) \/ LeaveCloses(s)

Next ==
    \/ Incoming
    \/ DialReturns
    \/ LoopStep
    \/ \E s \in Sessions : \/ Fire(s) \/ TimerStep(s)
                           \/ Read(s) \/ ReadFails(s) \/ ReaderStep(s)

Spec == Init /\ [][Next]_vars

(* Goroutines are scheduled and get mu in the end when it is free again    *)
(* and again (sync.Mutex starves nobody), and a read of a closed stream    *)
(* returns.  Nothing is assumed of the receive loop, whose dials and       *)
(* writes wait for the server, nor of datagrams and replies.               *)
Fairness ==
    \A s \in Sessions : /\ SF_vars(TimerStep(s))
                        /\ SF_vars(ReaderStep(s))
                        /\ WF_vars(stream[s] = "closed" /\ ReadFails(s))

FairSpec == Spec /\ Fairness

-----------------------------------------------------------------------------
(* Properties.                                                             *)

(* Whoever deletes deletes from both maps, and a timer is filed where the  *)
(* session it was made for is: resetting it defers that session's expiry.  *)
MapsAgree == timers = clients

(* No source address is mapped to a dead session: the mapped one was       *)
(* dialed for that source, and its reader, which will remove the entry     *)
(* when the stream ends, has not done so yet.                              *)
NoDeadSessionMapped ==
    \A p \in Peers : clients[p] # None =>
        peer[clients[p]] = p /\ reader[clients[p]] \in {"read", "reply", "leave"}

(* Unless a dial lasts for ever, and mu with it, a session whose stream    *)
(* was closed, by whichever goroutine, loses its place in the map, and its *)
(* reader goroutine ends.                                                  *)
ClosedSessionEnds ==
    []<>MuFree =>
        \A s \in Sessions :
            stream[s] = "closed" ~>
                reader[s] = "gone" /\ \A p \in Peers : clients[p] # s

(* An open session that is in the map is taken out of it only because its  *)
(* own timer expired, its own stream ended or a write to it failed.        *)
ActiveNotDropped ==
    [][\A p \in Peers : LET s == clients[p] IN
           s # None /\ clients'[p] = None =>
               expiry[s] = "lock" \/ reader[s] = "leave" \/ (pc = "drop" /\ ts = s)]_vars

-----------------------------------------------------------------------------
(* The inductive invariant: goroutines and timers exist only for sessions  *)
(* that were dialed.                                                       *)
Dialed ==
    /\ \A s \in Sessions :
           armed[s] \/ expiry[s] # "none" \/ reader[s] # "none" => peer[s] \in Peers
    /\ \A s \in Sessions : stream[s] = "none" => reader[s] = "none"

InductiveInvariant == TypeOK /\ Dialed /\ MapsAgree /\ NoDeadSessionMapped

=============================================================================
