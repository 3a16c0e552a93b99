----------------------------- MODULE ReverseUdp -----------------------------
(***************************************************************************)
(* The sessions of a reverse UDP listener: runUdpListener's receive loop   *)
(* and its map of sessions (pkg/server/reverse_udp.go), the idle timer     *)
(* around each session (pkg/tunnel/idletimer.go), and the two copying      *)
(* goroutines of the Pipe that handleIncoming runs on it.                  *)
(*                                                                         *)
(* A critical section is one step, whichever of the three locks it is      *)
(* under: the loop's mu, a session's u.mu, its timer's c.mu.  Datagrams    *)
(* are counted, not told apart.  How handleIncoming finds a parked client  *)
(* is the subject of ReverseTunnelManager: here it finds one or not.       *)
(***************************************************************************)
EXTENDS Integers

CONSTANTS Peers,        \* addresses datagrams come from
          Sessions,     \* udpSessionConn objects that may be allocated
          Buffer,       \* capacity of udpSessionConn.ch
          Replies,      \* bound: messages the clients send back
          Datagrams,    \* bound: datagrams received
          None

ASSUME ConstantsAssumption ==
    /\ Buffer \in Nat \ {0}
    /\ Replies \in Nat
    /\ Datagrams \in Nat
    /\ None \notin Sessions \cup Peers

VARIABLES
    sessions,   \* the loop's map from a peer to its session
    loop,       \* where runUdpListener is
    session,    \* its variable session
    received,   \* datagrams read from the socket so far
    peer,       \* u.peer; None until the session is allocated
    ch,         \* datagrams buffered in u.ch
    closing,    \* how far the Close of the session has come
    armed,      \* the idle timer is running
    callbacks,  \* goroutines of the timer that have yet to call Close
    hpc,        \* where handleIncoming is
    up,         \* where its goroutine from the session to the client is
    down,       \* where its goroutine from the client to the session is
    replies     \* messages the clients have sent back

loopVars == <<sessions, loop, session, received>>
sessionVars == <<peer, ch, closing>>
timerVars == <<armed, callbacks>>
handlerVars == <<hpc, up, down, replies>>
vars == <<loopVars, sessionVars, timerVars, handlerVars>>

(* "open", then the three critical sections of Close: c.closed is set (the *)
(* timer's wrapper), u.closed is set and u.ch closed, the map entry is     *)
(* deleted by onClose.                                                     *)
CloseStates == {"open", "marked", "closed", "unmapped"}
Accepting == {"open", "marked"}

TypeOK ==
    /\ sessions \in [Peers -> Sessions \cup {None}]
    /\ loop \in {"read", "push", "exit"}
    /\ session \in Sessions \cup {None}
    /\ received \in 0..Datagrams
    /\ peer \in [Sessions -> Peers \cup {None}]
    /\ ch \in [Sessions -> 0..Buffer]
    /\ closing \in [Sessions -> CloseStates]
    /\ armed \in [Sessions -> BOOLEAN]
    /\ callbacks \in [Sessions -> Nat]
    /\ hpc \in [Sessions -> {"none", "acquire", "pipe", "returned"}]
    /\ up \in [Sessions -> {"read", "touch", "write", "eof", "failed"}]
    /\ down \in [Sessions -> {"read", "touch", "end"}]
    /\ replies \in 0..Replies

Init ==
    /\ sessions = [p \in Peers |-> None]
    /\ loop = "read"
    /\ session = None
    /\ received = 0
    /\ peer = [s \in Sessions |-> None]
    /\ ch = [s \in Sessions |-> 0]
    /\ closing = [s \in Sessions |-> "open"]
    /\ armed = [s \in Sessions |-> FALSE]
    /\ callbacks = [s \in Sessions |-> 0]
    /\ hpc = [s \in Sessions |-> "none"]
    /\ up = [s \in Sessions |-> "read"]
    /\ down = [s \in Sessions |-> "read"]
    /\ replies = 0

-----------------------------------------------------------------------------
(* runUdpListener.                                                         *)

(* A datagram of a peer that has a session: the map is read under mu.      *)
ReceiveMapped(p) ==
    /\ loop = "read"
    /\ received < Datagrams
    /\ sessions[p] # None
    /\ loop' = "push"
    /\ session' = sessions[p]
    /\ received' = received + 1
    /\ UNCHANGED <<sessions, sessionVars, timerVars, handlerVars>>

(* A datagram of a peer that has none: still under mu the session is made, *)
(* its idle timer armed, and handleIncoming started on it.                 *)
UnmappedOrClosed(p) == sessions[p] # None => closing[sessions[p]] = "closed"
Unmapped(p) == sessions[p] = None

NeverArmed(s) == armed
NewIdleTimeoutConn(s) == [armed EXCEPT ![s] = TRUE]

ReceiveNew(p, s) ==
    /\ loop = "read"
    /\ received < Datagrams
    /\ Unmapped(p)
    /\ peer[s] = None
    /\ sessions' = [sessions EXCEPT ![p] = s]
    /\ loop' = "push"
    /\ session' = s
    /\ received' = received + 1
    /\ peer' = [peer EXCEPT ![s] = p]
    /\ armed' = NewIdleTimeoutConn(s)
    /\ hpc' = [hpc EXCEPT ![s] = "acquire"]
    /\ UNCHANGED <<ch, closing, callbacks, up, down, replies>>

(* session.push, after mu was released: a closed session and a full buffer *)
(* lose the datagram.                                                      *)
AcceptsUntilFull(s) == ch[s] < Buffer
AcceptsWhileOpen(s) == closing[s] \in Accepting
Accepts(s) == closing[s] \in Accepting /\ ch[s] < Buffer

push ==
    /\ loop = "push"
    /\ loop' = "read"
    /\ ch' = IF Accepts(session) THEN [ch EXCEPT ![session] = @ + 1]
                                   ELSE ch
    /\ UNCHANGED <<sessions, session, received, peer, closing, timerVars,
                   handlerVars>>

(* ReadFromUDP fails: the loop ends and closes the socket; the sessions    *)
(* are left to their timers and handlers.                                  *)
ReadFromUDPFails ==
    /\ loop = "read"
    /\ loop' = "exit"
    /\ UNCHANGED <<sessions, session, received, sessionVars, timerVars,
                   handlerVars>>

-----------------------------------------------------------------------------
(* IdleTimeoutConn and udpSessionConn.                                     *)

(* time.AfterFunc starts a goroutine, which will call Close.               *)
TimerFires(s) ==
    /\ armed[s]
    /\ armed' = [armed EXCEPT ![s] = FALSE]
    /\ callbacks' = [callbacks EXCEPT ![s] = @ + 1]
    /\ UNCHANGED <<loopVars, sessionVars, handlerVars>>

(* touch: Reset arms the timer anew, also when its callback is already     *)
(* waiting for c.mu.                                                       *)
TouchedAnyway(s) == [armed EXCEPT ![s] = TRUE]
Touched(s) == [armed EXCEPT ![s] = @ \/ closing[s] = "open"]

(* The first critical section of Close, in which the timer is stopped; a   *)
(* second caller returns.                                                  *)
Stopped(s) == IF closing[s] = "open" THEN [armed EXCEPT ![s] = FALSE] ELSE armed
Marked(s) == [closing EXCEPT ![s] = IF @ = "open" THEN "marked" ELSE @]

TimerCloses(s) ==
    /\ callbacks[s] > 0
    /\ callbacks' = [callbacks EXCEPT ![s] = @ - 1]
    /\ closing' = Marked(s)
    /\ armed' = Stopped(s)
    /\ UNCHANGED <<loopVars, peer, ch, handlerVars>>

(* udpSessionConn.Close: close(u.ch) under u.mu; what is buffered can      *)
(* still be read ...                                                       *)
CloseSession(s) ==
    /\ closing[s] = "marked"
    /\ closing' = [closing EXCEPT ![s] = "closed"]
    /\ UNCHANGED <<loopVars, peer, ch, timerVars, handlerVars>>

(* ... and onClose under mu, which deletes the entry of the peer's key.    *)
OnCloseForgets(s) ==
    /\ closing[s] = "closed"
    /\ closing' = [closing EXCEPT ![s] = "unmapped"]
    /\ UNCHANGED <<loopVars, peer, ch, timerVars, handlerVars>>
onClose(s) ==
    /\ closing[s] = "closed"
    /\ closing' = [closing EXCEPT ![s] = "unmapped"]
    /\ sessions' = [sessions EXCEPT ![peer[s]] = None]
    /\ UNCHANGED <<loop, session, received, peer, ch, timerVars, handlerVars>>

-----------------------------------------------------------------------------
(* handleIncoming and its Pipe, with the session as the local connection.  *)

(* acquireWaitingConn finds a parked client, ...                           *)
Acquires(s) ==
    /\ hpc[s] = "acquire"
    /\ hpc' = [hpc EXCEPT ![s] = "pipe"]
    /\ UNCHANGED <<loopVars, sessionVars, timerVars, up, down, replies>>

(* ... or gives up, and the deferred conn.Close ends the session.          *)
AcquireFails(s) ==
    /\ hpc[s] = "acquire"
    /\ hpc' = [hpc EXCEPT ![s] = "returned"]
    /\ closing' = Marked(s)
    /\ armed' = Stopped(s)
    /\ UNCHANGED <<loopVars, peer, ch, callbacks, up, down, replies>>

(* The goroutine to the client: Read takes a datagram or, once the channel *)
(* is closed and empty, returns EOF, upon which the close message is sent; *)
UpMissesEof(s) ==
    /\ hpc[s] = "pipe"
    /\ up[s] = "read"
    /\ ch[s] > 0
    /\ ch' = [ch EXCEPT ![s] = @ - 1]
    /\ up' = [up EXCEPT ![s] = "touch"]
    /\ UNCHANGED <<loopVars, peer, closing, timerVars, hpc, down, replies>>
UpReads(s) ==
    /\ hpc[s] = "pipe"
    /\ up[s] = "read"
    /\ \/ /\ ch[s] > 0
          /\ ch' = [ch EXCEPT ![s] = @ - 1]
          /\ up' = [up EXCEPT ![s] = "touch"]
       \/ /\ ch[s] = 0
          /\ closing[s] \notin Accepting
          /\ up' = [up EXCEPT ![s] = "eof"]
          /\ UNCHANGED ch
    /\ UNCHANGED <<loopVars, peer, closing, timerVars, hpc, down, replies>>

(* a datagram touches the timer, under c.mu, unless it is empty, ...       *)
UpTouches(s) ==
    /\ up[s] = "touch"
    /\ armed' \in {armed, Touched(s)}
    /\ up' = [up EXCEPT ![s] = "write"]
    /\ UNCHANGED <<loopVars, sessionVars, callbacks, hpc, down, replies>>

(* ... and is written to the client, which may fail or, while the client   *)
(* does not read, wait.                                                    *)
UpWrites(s) ==
    /\ up[s] = "write"
    /\ \E next \in {"read", "failed"} : up' = [up EXCEPT ![s] = next]
    /\ UNCHANGED <<loopVars, sessionVars, timerVars, hpc, down, replies>>

(* The goroutine from the client: a message is written to the peer, ...    *)
DownReads(s) ==
    /\ hpc[s] = "pipe"
    /\ down[s] = "read"
    /\ loop # "exit"
    /\ replies < Replies
    /\ replies' = replies + 1
    /\ down' = [down EXCEPT ![s] = "touch"]
    /\ UNCHANGED <<loopVars, sessionVars, timerVars, hpc, up>>

(* ... which touches the timer, unless it is empty, ...                    *)
DownTouches(s) ==
    /\ down[s] = "touch"
    /\ armed' \in {armed, Touched(s)}
    /\ down' = [down EXCEPT ![s] = "read"]
    /\ UNCHANGED <<loopVars, sessionVars, callbacks, hpc, up, replies>>

(* ... until that fails because the loop has closed the socket, or the     *)
(* client's stream ends, by itself or in answer to the close message; the  *)
(* deferred Close ends the session.                                        *)
DownEnds(s) ==
    /\ hpc[s] = "pipe"
    /\ down[s] = "read"
    /\ down' = [down EXCEPT ![s] = "end"]
    /\ closing' = Marked(s)
    /\ armed' = Stopped(s)
    /\ UNCHANGED <<loopVars, peer, ch, callbacks, hpc, up, replies>>

(* wg.Wait, and handleIncoming returns.                                    *)
PipeReturns(s) ==
    /\ hpc[s] = "pipe"
    /\ up[s] \in {"eof", "failed"}
    /\ down[s] = "end"
    /\ hpc' = [hpc EXCEPT ![s] = "returned"]
    /\ UNCHANGED <<loopVars, sessionVars, timerVars, up, down, replies>>

-----------------------------------------------------------------------------
CloseStep(s) == TimerCloses(s) \/ CloseSession(s) \/ onClose(s)
UpStep(s) == UpReads(s) \/ UpTouches(s)

Next ==
    \/ \E p \in Peers : ReceiveMapped(p) \/ \E s \in Sessions : ReceiveNew(p, s)
    \/ push
    \/ ReadFromUDPFails
    \/ \E s \in Sessions :
           \/ TimerFires(s) \/ CloseStep(s)
           \/ Acquires(s) \/ AcquireFails(s)
           \/ UpStep(s) \/ UpWrites(s)
           \/ DownReads(s) \/ DownTouches(s) \/ DownEnds(s)
           \/ PipeReturns(s)

Spec == Init /\ [][Next]_vars

(* What the scheduler and the clock guarantee.  Nothing is assumed of      *)
(* peers sending, of clients reading, replying or ending their streams, or *)
(* of acquireWaitingConn returning: it can sleep past its ten seconds, as  *)
(* UnusedListenerReaped of ReverseTunnelManager shows.                     *)
Fairness ==
    /\ WF_vars(push)
    /\ \A s \in Sessions :
           /\ WF_vars(TimerFires(s))
           /\ WF_vars(CloseStep(s))
           /\ WF_vars(UpStep(s) \/ DownTouches(s) \/ PipeReturns(s))

FairSpec == Spec /\ Fairness

-----------------------------------------------------------------------------
(* Properties.                                                             *)

(* The map holds exactly the sessions whose onClose has not run: a peer    *)
(* has one of them at most, and onClose, which deletes whatever the peer's *)
(* key leads to, finds its own session there.                              *)
EntryIsOwn ==
    \A s \in Sessions :
        peer[s] # None => (sessions[peer[s]] = s <=> closing[s] # "unmapped")

(* A session that is being closed has no running timer: touch, which the   *)
(* copying goroutines go on calling, does not arm it again.                *)
ClosedStaysDisarmed ==
    \A s \in Sessions : closing[s] # "open" => ~armed[s]

(* A session whose Close has not begun can still expire: its timer runs,   *)
(* or its callback is on its way.                                          *)
OpenCanExpire ==
    \A s \in Sessions :
        peer[s] # None /\ closing[s] = "open" => armed[s] \/ callbacks[s] > 0

(* Nothing is buffered behind the end of the stream.  The loop looks a     *)
(* session up, releases mu and pushes; in between the timer may close the  *)
(* session and the goroutine to the client read EOF and leave.  A datagram *)
(* accepted then would be in a channel that nobody reads.                  *)
DrainedAtEof == \A s \in Sessions : up[s] = "eof" => ch[s] = 0

(* Every session leaves the map, also when no client is ever found for it, *)
(* when its client stops reading, and after the listener's own end.        *)
SessionsReclaimed ==
    \A s \in Sessions : peer[s] # None ~> \A p \in Peers : sessions[p] # s

(* The handler of s waits for others: for a parked connection, for its     *)
(* client to read, or for it to answer the close message.                  *)
Waits(s) ==
    \/ hpc[s] = "acquire"
    \/ up[s] = "write"
    \/ up[s] \in {"eof", "failed"} /\ down[s] = "read"

(* The handler of every session returns, provided none of those waits is   *)
(* for ever: the idle timer ends the session of a silent peer, its reader  *)
(* drains what is buffered and tells the client.                           *)
HandlersReturn ==
    \A s \in Sessions :
        []<>~Waits(s) => (peer[s] # None ~> hpc[s] = "returned")

-----------------------------------------------------------------------------
(* The inductive invariant behind the safety properties.                   *)

(* Nothing happens to a session before it is allocated, and the loop       *)
(* pushes to a session.                                                    *)
Allocation ==
    /\ loop = "push" => session # None
    /\ \A s \in Sessions : peer[s] = None =>
           /\ closing[s] = "open" /\ ~armed[s] /\ callbacks[s] = 0
           /\ hpc[s] = "none" /\ up[s] = "read" /\ down[s] = "read"

(* A reader that has seen EOF has seen the channel closed.                 *)
EofMeansClosed == \A s \in Sessions : up[s] = "eof" => closing[s] \notin Accepting

InductiveInvariant ==
    /\ TypeOK
    /\ Allocation
    /\ EofMeansClosed
    /\ DrainedAtEof
    /\ EntryIsOwn
    /\ ClosedStaysDisarmed
    /\ OpenCanExpire

=============================================================================
