------------------------ MODULE ReverseTunnelManager ------------------------
(***************************************************************************)
(* The server's pool of reverse-tunnel connections, pkg/server/manager.go. *)
(*                                                                         *)
(* A tunnel client that wants connections from a server-side address       *)
(* parks a transport connection (a waitingConn) in the queue of the        *)
(* listener bound to that address.  The listener's accept loop starts a    *)
(* handleIncoming goroutine for every connection it accepts; the handler   *)
(* takes a parked connection out of the queue and pipes the two together.  *)
(* A reaper removes listeners that have been idle for idleTimeout.         *)
(*                                                                         *)
(* An action is a critical section of m.mu or of tl.queueMu, or a step     *)
(* outside both that others can observe.  sync.Cond.Wait puts a goroutine  *)
(* in a state ending in "Sleep"; Broadcast moves the sleepers of the       *)
(* listener back to the top of their loop.                                 *)
(*                                                                         *)
(* The definitions set just before another one, with a name that says what *)
(* is wrong with them (NotPopped before Popped), are faulty variants: the  *)
(* properties are checked to fail when the variant stands for the original.*)
(***************************************************************************)
EXTENDS Integers, Sequences, FiniteSets

CONSTANTS Addrs,        \* bind addresses clients ask for
          Listeners,    \* tunnelListener objects that may be allocated
          Waiters,      \* waitingConn objects, one per parked client connection
          Incoming,     \* connections accepted on the listeners' sockets
          WaitCap,      \* tunnelListener.waitCap
          IdleTimeout,  \* TRUE iff m.idleTimeout > 0
          None

ASSUME ConstantsAssumption ==
    /\ WaitCap \in Nat \ {0}
    /\ IdleTimeout \in BOOLEAN
    /\ IsFiniteSet(Incoming)
    /\ None \notin Addrs \cup Listeners \cup Waiters

VARIABLES
    listeners,  \* m.listeners: the listener registered for an address
    stop,       \* m.stop is closed
    addr,       \* tl.addr; None until the listener is allocated
    waiting,    \* tl.waiting
    quit,       \* tl.quit is closed
    socket,     \* tl.ln (or tl.udpConn) is open
    active,     \* tl.active
    idle,       \* idleTimeout has passed since tl.lastUsed
    loop,       \* where runListener is
    wpc,        \* where HandleClient is
    wl,         \* the listener HandleClient was given
    acquired,   \* wait.acquired is closed
    done,       \* wait.done is closed
    open,       \* the parked transport connection is open on this side
    hpc,        \* where handleIncoming is
    hl,         \* the listener that accepted the connection
    hw,         \* the waitingConn handleIncoming acquired
    clock,      \* which of "rang" (the AfterFunc ran) and "late" (now >= deadline) hold
    todo,       \* listeners a closer has removed from the map but not yet quit
    shutting    \* the listener whose socket a closer closes next

managerVars == <<listeners, stop>>
listenerVars == <<addr, waiting, quit, socket, active, idle, loop>>
waiterVars == <<wpc, wl, acquired, done, open>>
handlerVars == <<hpc, hl, hw, clock>>
closerVars == <<todo, shutting>>
vars == <<managerVars, listenerVars, waiterVars, handlerVars, closerVars>>

Closers == {"reaper", "Close"}

LoopStates == {"none", "accept", "begin", "failed", "unmap", "exit"}
WaiterStates == {"new", "enq", "enqSleep", "touch", "wait", "expired",
                 "close", "purge", "afterAcquire", "returned"}
HandlerStates == {"none", "accepted", "handshake", "acq", "acqSleep",
                  "forward", "pipe", "finish", "end", "closed"}

(* The states of handleIncoming between beginIncoming and its deferred     *)
(* updateActivePipes(-1), and those in which it owns a waitingConn.        *)
Begun == {"handshake", "acq", "acqSleep", "forward", "pipe", "finish", "end"}
Holding == {"forward", "pipe", "finish"}

TypeOK ==
    /\ listeners \in [Addrs -> Listeners \cup {None}]
    /\ stop \in BOOLEAN
    /\ addr \in [Listeners -> Addrs \cup {None}]
    /\ waiting \in [Listeners -> Seq(Waiters)]
    /\ quit \in [Listeners -> BOOLEAN]
    /\ socket \in [Listeners -> BOOLEAN]
    /\ active \in [Listeners -> Nat]
    /\ idle \in [Listeners -> BOOLEAN]
    /\ loop \in [Listeners -> LoopStates]
    /\ wpc \in [Waiters -> WaiterStates]
    /\ wl \in [Waiters -> Listeners \cup {None}]
    /\ acquired \in [Waiters -> BOOLEAN]
    /\ done \in [Waiters -> BOOLEAN]
    /\ open \in [Waiters -> BOOLEAN]
    /\ hpc \in [Incoming -> HandlerStates]
    /\ hl \in [Incoming -> Listeners \cup {None}]
    /\ hw \in [Incoming -> Waiters \cup {None}]
    /\ clock \in [Incoming -> SUBSET {"rang", "late"}]
    /\ todo \in [Closers -> SUBSET Listeners]
    /\ shutting \in [Closers -> Listeners \cup {None}]

Init ==
    /\ listeners = [a \in Addrs |-> None]
    /\ stop = FALSE
    /\ addr = [l \in Listeners |-> None]
    /\ waiting = [l \in Listeners |-> <<>>]
    /\ quit = [l \in Listeners |-> FALSE]
    /\ socket = [l \in Listeners |-> FALSE]
    /\ active = [l \in Listeners |-> 0]
    /\ idle = [l \in Listeners |-> FALSE]
    /\ loop = [l \in Listeners |-> "none"]
    /\ wpc = [w \in Waiters |-> "new"]
    /\ wl = [w \in Waiters |-> None]
    /\ acquired = [w \in Waiters |-> FALSE]
    /\ done = [w \in Waiters |-> FALSE]
    /\ open = [w \in Waiters |-> TRUE]
    /\ hpc = [h \in Incoming |-> "none"]
    /\ hl = [h \in Incoming |-> None]
    /\ hw = [h \in Incoming |-> None]
    /\ clock = [h \in Incoming |-> {}]
    /\ todo = [c \in Closers |-> {}]
    /\ shutting = [c \in Closers |-> None]

-----------------------------------------------------------------------------
(* Helpers.                                                                *)

Registered(l) == addr[l] # None /\ listeners[addr[l]] = l

(* lastUsed = time.Now(), made only while the listener is still registered *)
Touched(l) == IF Registered(l) THEN [idle EXCEPT ![l] = FALSE] ELSE idle

(* purgeDoneWaitersLocked keeps the waiters that are not done, in order:   *)
(* all of them if nobody is done, and else the n-th it keeps is the one at *)
(* the pending position of rank n.                                         *)
Pending(l) == {i \in 1..Len(waiting[l]) : ~done[waiting[l][i]]}
Rank(S, i) == Cardinality({j \in S : j <= i})
Purged(l) ==
    IF \A i \in 1..Len(waiting[l]) : ~done[waiting[l][i]] THEN waiting[l]
    ELSE [n \in 1..Cardinality(Pending(l)) |->
             waiting[l][CHOOSE i \in Pending(l) : Rank(Pending(l), i) = n]]

(* queueCond.Broadcast: every sleeper on the listener runs its loop again. *)
WakeWaiters(l) ==
    [w \in Waiters |-> IF wpc[w] = "enqSleep" /\ wl[w] = l THEN "enq" ELSE wpc[w]]
WakesNoHandler(l) == hpc
WakeHandlers(l) ==
    [h \in Incoming |-> IF hpc[h] = "acqSleep" /\ hl[h] = l THEN "acq" ELSE hpc[h]]

(* The head of the queue is taken out. *)
NotPopped(l) == Purged(l)
Popped(l) == Tail(Purged(l))

(* The purge at the top of each loop broadcasts only when it removed one.  *)
PurgesSilently(l) == wpc
PurgeWakesWaiters(l) == IF Purged(l) # waiting[l] THEN WakeWaiters(l) ELSE wpc
PurgeWakesHandlers(l) == IF Purged(l) # waiting[l] THEN WakeHandlers(l) ELSE hpc

-----------------------------------------------------------------------------
(* HandleClient, HandleGorillaClient and HandleClientH2: getOrCreateListener *)
(* under m.mu, enqueueWaitingConn, touchListener, waitForUseOrTimeout.      *)

(* The listener is registered already.                                     *)
ReuseListener(w, a) ==
    /\ wpc[w] = "new"
    /\ listeners[a] # None
    /\ idle' = [idle EXCEPT ![listeners[a]] = FALSE]
    /\ wpc' = [wpc EXCEPT ![w] = "enq"]
    /\ wl' = [wl EXCEPT ![w] = listeners[a]]
    /\ UNCHANGED <<managerVars, addr, waiting, quit, socket, active, loop,
                   acquired, done, open, handlerVars, closerVars>>

(* A new listener: Listen succeeds only if no socket holds the address.    *)
CreateListener(w, a, l) ==
    /\ wpc[w] = "new"
    /\ listeners[a] = None
    /\ addr[l] = None
    /\ \A k \in Listeners : addr[k] = a => ~socket[k]
    /\ listeners' = [listeners EXCEPT ![a] = l]
    /\ addr' = [addr EXCEPT ![l] = a]
    /\ socket' = [socket EXCEPT ![l] = TRUE]
    /\ idle' = [idle EXCEPT ![l] = FALSE]
    /\ loop' = [loop EXCEPT ![l] = "accept"]
    /\ wpc' = [wpc EXCEPT ![w] = "enq"]
    /\ wl' = [wl EXCEPT ![w] = l]
    /\ UNCHANGED <<stop, waiting, quit, active, acquired, done, open,
                   handlerVars, closerVars>>

(* Listen fails: the client's connection is closed.                        *)
ListenFails(w, a) ==
    /\ wpc[w] = "new"
    /\ listeners[a] = None
    /\ wpc' = [wpc EXCEPT ![w] = "returned"]
    /\ open' = [open EXCEPT ![w] = FALSE]
    /\ UNCHANGED <<managerVars, listenerVars, wl, acquired, done, handlerVars,
                   closerVars>>

(* One turn of enqueueWaitingConn's loop: rejected because the listener    *)
(* has quit (HandleClient then calls finish(true)), appended, or asleep.   *)
EnqueueRejected(w) ==
    LET l == wl[w] IN
    /\ wpc[w] = "enq"
    /\ quit[l]
    /\ waiting' = [waiting EXCEPT ![l] = Purged(l)]
    /\ wpc' = [PurgeWakesWaiters(l) EXCEPT ![w] = "returned"]
    /\ hpc' = PurgeWakesHandlers(l)
    /\ open' = [open EXCEPT ![w] = FALSE]
    /\ done' = [done EXCEPT ![w] = TRUE]
    /\ UNCHANGED <<managerVars, addr, quit, socket, active, idle, loop, wl,
                   acquired, hl, hw, clock, closerVars>>

EnqueuePrepend(w) ==
    LET l == wl[w] IN
    /\ wpc[w] = "enq"
    /\ ~quit[l]
    /\ Len(Purged(l)) < WaitCap
    /\ waiting' = [waiting EXCEPT ![l] = <<w>> \o Purged(l)]
    /\ wpc' = [WakeWaiters(l) EXCEPT ![w] = "touch"]
    /\ hpc' = WakeHandlers(l)
    /\ UNCHANGED <<managerVars, addr, quit, socket, active, idle, loop, wl,
                   acquired, done, open, hl, hw, clock, closerVars>>

EnqueueAppend(w) ==
    LET l == wl[w] IN
    /\ wpc[w] = "enq"
    /\ ~quit[l]
    /\ Len(Purged(l)) < WaitCap
    /\ waiting' = [waiting EXCEPT ![l] = Append(Purged(l), w)]
    /\ wpc' = [WakeWaiters(l) EXCEPT ![w] = "touch"]
    /\ hpc' = WakeHandlers(l)
    /\ UNCHANGED <<managerVars, addr, quit, socket, active, idle, loop, wl,
                   acquired, done, open, hl, hw, clock, closerVars>>

EnqueueSleep(w) ==
    LET l == wl[w] IN
    /\ wpc[w] = "enq"
    /\ ~quit[l]
    /\ Len(Purged(l)) >= WaitCap
    /\ waiting' = [waiting EXCEPT ![l] = Purged(l)]
    /\ wpc' = [PurgeWakesWaiters(l) EXCEPT ![w] = "enqSleep"]
    /\ hpc' = PurgeWakesHandlers(l)
    /\ UNCHANGED <<managerVars, addr, quit, socket, active, idle, loop, wl,
                   acquired, done, open, hl, hw, clock, closerVars>>

(* touchListener once the connection is in the queue.                      *)
TouchParked(w) ==
    /\ wpc[w] = "touch"
    /\ idle' = Touched(wl[w])
    /\ wpc' = [wpc EXCEPT ![w] = "wait"]
    /\ UNCHANGED <<managerVars, addr, waiting, quit, socket, active, loop, wl,
                   acquired, done, open, handlerVars, closerVars>>

(* waitForUseOrTimeout and waitAfterAcquireOrShutdown return on done or on *)
(* quit; their caller then closes the connection (server.go's deferred     *)
(* Close), and on quit wait.finish(true) closed it already.                *)
WaitReturnsAcquired(w) ==
    /\ wpc[w] \in {"wait", "afterAcquire"}
    /\ acquired[w] \/ done[w] \/ quit[wl[w]]
    /\ wpc' = [wpc EXCEPT ![w] = "returned"]
    /\ open' = [open EXCEPT ![w] = FALSE]
    /\ done' = [done EXCEPT ![w] = TRUE]
    /\ UNCHANGED <<managerVars, listenerVars, wl, acquired, handlerVars,
                   closerVars>>
WaitReturns(w) ==
    /\ wpc[w] \in {"wait", "afterAcquire"}
    /\ done[w] \/ quit[wl[w]]
    /\ wpc' = [wpc EXCEPT ![w] = "returned"]
    /\ open' = [open EXCEPT ![w] = FALSE]
    /\ done' = [done EXCEPT ![w] = TRUE]
    /\ UNCHANGED <<managerVars, listenerVars, wl, acquired, handlerVars,
                   closerVars>>

(* The acquired case of the select.                                        *)
WaitSeesAcquired(w) ==
    /\ wpc[w] = "wait"
    /\ IdleTimeout
    /\ acquired[w]
    /\ wpc' = [wpc EXCEPT ![w] = "afterAcquire"]
    /\ UNCHANGED <<managerVars, listenerVars, wl, acquired, done, open,
                   handlerVars, closerVars>>

(* The timer case of the select: handleWaitTimeout is entered.             *)
WaitTimerAlwaysArmed(w) ==
    /\ wpc[w] = "wait"
    /\ wpc' = [wpc EXCEPT ![w] = "expired"]
    /\ UNCHANGED <<managerVars, listenerVars, wl, acquired, done, open,
                   handlerVars, closerVars>>
WaitTimerFires(w) ==
    /\ wpc[w] = "wait"
    /\ IdleTimeout
    /\ wpc' = [wpc EXCEPT ![w] = "expired"]
    /\ UNCHANGED <<managerVars, listenerVars, wl, acquired, done, open,
                   handlerVars, closerVars>>

(* handleWaitTimeout reads isAcquired ...                                  *)
TimeoutChecks(w) ==
    /\ wpc[w] = "expired"
    /\ wpc' = [wpc EXCEPT ![w] = IF acquired[w] THEN "afterAcquire" ELSE "close"]
    /\ UNCHANGED <<managerVars, listenerVars, wl, acquired, done, open,
                   handlerVars, closerVars>>

(* ... and without a lock calls finish(true), whose first call closes the  *)
(* connection ...                                                          *)
TimeoutFinishes(w) ==
    /\ wpc[w] = "close"
    /\ wpc' = [wpc EXCEPT ![w] = "purge"]
    /\ open' = [open EXCEPT ![w] = open[w] /\ done[w]]
    /\ done' = [done EXCEPT ![w] = TRUE]
    /\ UNCHANGED <<managerVars, listenerVars, wl, acquired, handlerVars,
                   closerVars>>

(* ... and purgeDoneWaiters, under queueMu, and HandleClient returns.      *)
TimeoutPurges(w) ==
    LET l == wl[w] IN
    /\ wpc[w] = "purge"
    /\ waiting' = [waiting EXCEPT ![l] = Purged(l)]
    /\ wpc' = [PurgeWakesWaiters(l) EXCEPT ![w] = "returned"]
    /\ hpc' = PurgeWakesHandlers(l)
    /\ open' = [open EXCEPT ![w] = FALSE]
    /\ UNCHANGED <<managerVars, addr, quit, socket, active, idle, loop, wl,
                   acquired, done, hl, hw, clock, closerVars>>

-----------------------------------------------------------------------------
(* runListener and runUdpListener.                                         *)

(* Accept returns a connection (ReadFromUDP a new peer's first datagram).  *)
Accept(l, h) ==
    /\ loop[l] = "accept"
    /\ socket[l]
    /\ hpc[h] = "none"
    /\ loop' = [loop EXCEPT ![l] = "begin"]
    /\ hpc' = [hpc EXCEPT ![h] = "accepted"]
    /\ hl' = [hl EXCEPT ![h] = l]
    /\ UNCHANGED <<managerVars, addr, waiting, quit, socket, active, idle,
                   waiterVars, hw, clock, closerVars>>

(* beginIncoming under m.mu; then the handler's goroutine is started and   *)
(* the loop accepts again.                                                 *)
beginIncomingUncounted(h) ==
    LET l == hl[h] IN
    /\ hpc[h] = "accepted"
    /\ idle' = Touched(l)
    /\ loop' = [loop EXCEPT ![l] = "accept"]
    /\ hpc' = [hpc EXCEPT ![h] = "handshake"]
    /\ UNCHANGED <<managerVars, addr, waiting, quit, socket, active, waiterVars,
                   hl, hw, clock, closerVars>>
beginIncoming(h) ==
    LET l == hl[h] IN
    /\ hpc[h] = "accepted"
    /\ active' = IF Registered(l) THEN [active EXCEPT ![l] = @ + 1] ELSE active
    /\ idle' = Touched(l)
    /\ loop' = [loop EXCEPT ![l] = "accept"]
    /\ hpc' = [hpc EXCEPT ![h] = "handshake"]
    /\ UNCHANGED <<managerVars, addr, waiting, quit, socket, waiterVars, hl, hw,
                   clock, closerVars>>

(* Accept returns an error: always once the socket is closed, and for a    *)
(* failure of the socket itself while it is open.                          *)
AcceptFails(l) ==
    /\ loop[l] = "accept"
    /\ loop' = [loop EXCEPT ![l] = "failed"]
    /\ UNCHANGED <<managerVars, addr, waiting, quit, socket, active, idle,
                   waiterVars, handlerVars, closerVars>>

(* closeTunnelListener's critical section: close quit and Broadcast.       *)
QuitSilently(l) ==
    /\ quit' = [quit EXCEPT ![l] = TRUE]
    /\ UNCHANGED <<wpc, hpc>>
QuitAndWake(l) ==
    /\ quit' = [quit EXCEPT ![l] = TRUE]
    /\ wpc' = WakeWaiters(l)
    /\ hpc' = WakeHandlers(l)

(* The loop's exit: closeTunnelListener(tl, false), ...                    *)
LoopQuits(l) ==
    /\ loop[l] = "failed"
    /\ QuitAndWake(l)
    /\ loop' = [loop EXCEPT ![l] = "unmap"]
    /\ UNCHANGED <<managerVars, addr, waiting, socket, active, idle, wl,
                   acquired, done, open, hl, hw, clock, closerVars>>

(* ... the map entry is deleted if it is still this listener's, ...        *)
LoopLeavesEntry(l) ==
    /\ loop[l] = "unmap"
    /\ loop' = [loop EXCEPT ![l] = "exit"]
    /\ UNCHANGED <<managerVars, addr, waiting, quit, socket, active, idle,
                   waiterVars, handlerVars, closerVars>>
LoopUnmaps(l) ==
    /\ loop[l] = "unmap"
    /\ listeners' = IF Registered(l) THEN [listeners EXCEPT ![addr[l]] = None]
                                     ELSE listeners
    /\ loop' = [loop EXCEPT ![l] = "exit"]
    /\ UNCHANGED <<stop, addr, waiting, quit, socket, active, idle, waiterVars,
                   handlerVars, closerVars>>

(* ... and the deferred Close closes the socket.                           *)
LoopCloses(l) ==
    /\ loop[l] = "exit"
    /\ socket[l]
    /\ socket' = [socket EXCEPT ![l] = FALSE]
    /\ UNCHANGED <<managerVars, addr, waiting, quit, active, idle, loop,
                   waiterVars, handlerVars, closerVars>>

-----------------------------------------------------------------------------
(* handleIncoming.                                                         *)

(* The SOCKS5 or HTTP handshake of the dynamic listeners; then             *)
(* acquireWaitingConn arms its timer and computes its deadline.            *)
HandshakeFailureUncounted(h) ==
    /\ hpc[h] = "handshake"
    /\ \E next \in {"acq", "closed"} : hpc' = [hpc EXCEPT ![h] = next]
    /\ UNCHANGED <<managerVars, listenerVars, waiterVars, hl, hw, clock,
                   closerVars>>
Handshake(h) ==
    /\ hpc[h] = "handshake"
    /\ \E next \in {"acq", "end"} : hpc' = [hpc EXCEPT ![h] = next]
    /\ UNCHANGED <<managerVars, listenerVars, waiterVars, hl, hw, clock,
                   closerVars>>

(* The AfterFunc of acquireWaitingConn: one Broadcast under queueMu.  It   *)
(* was armed before the deadline was computed, so it may run before it.    *)
TimerRings(h) ==
    /\ hpc[h] \in {"acq", "acqSleep"}
    /\ "rang" \notin clock[h]
    /\ clock' = [clock EXCEPT ![h] = @ \cup {"rang"}]
    /\ wpc' = WakeWaiters(hl[h])
    /\ hpc' = WakeHandlers(hl[h])
    /\ UNCHANGED <<managerVars, listenerVars, wl, acquired, done, open, hl, hw,
                   closerVars>>

DeadlinePasses(h) ==
    /\ hpc[h] \in {"acq", "acqSleep"}
    /\ "late" \notin clock[h]
    /\ clock' = [clock EXCEPT ![h] = @ \cup {"late"}]
    /\ UNCHANGED <<managerVars, listenerVars, waiterVars, hpc, hl, hw,
                   closerVars>>

(* One turn of acquireWaitingConn's loop: the head of the queue is taken   *)
(* and marked, or the queue is empty and it gives up, or it sleeps.        *)
AcquireTakes(h) ==
    LET l == hl[h]
        w == Head(Purged(l))
    IN
    /\ hpc[h] = "acq"
    /\ Purged(l) # <<>>
    /\ waiting' = [waiting EXCEPT ![l] = Popped(l)]
    /\ acquired' = [acquired EXCEPT ![w] = TRUE]
    /\ wpc' = WakeWaiters(l)
    /\ hpc' = [WakeHandlers(l) EXCEPT ![h] = "forward"]
    /\ hw' = [hw EXCEPT ![h] = w]
    /\ clock' = [clock EXCEPT ![h] = {}]
    /\ UNCHANGED <<managerVars, addr, quit, socket, active, idle, loop, wl, done,
                   open, hl, closerVars>>

AcquireGivesUp(h) ==
    LET l == hl[h] IN
    /\ hpc[h] = "acq"
    /\ Purged(l) = <<>>
    /\ "late" \in clock[h] \/ quit[l]
    /\ waiting' = [waiting EXCEPT ![l] = <<>>]
    /\ wpc' = PurgeWakesWaiters(l)
    /\ hpc' = [PurgeWakesHandlers(l) EXCEPT ![h] = "end"]
    /\ clock' = [clock EXCEPT ![h] = {}]
    /\ UNCHANGED <<managerVars, addr, quit, socket, active, idle, loop, wl,
                   acquired, done, open, hl, hw, closerVars>>

AcquireSleeps(h) ==
    LET l == hl[h] IN
    /\ hpc[h] = "acq"
    /\ Purged(l) = <<>>
    /\ "late" \notin clock[h]
    /\ ~quit[l]
    /\ waiting' = [waiting EXCEPT ![l] = <<>>]
    /\ wpc' = PurgeWakesWaiters(l)
    /\ hpc' = [PurgeWakesHandlers(l) EXCEPT ![h] = "acqSleep"]
    /\ UNCHANGED <<managerVars, addr, quit, socket, active, idle, loop, wl,
                   acquired, done, open, hl, hw, clock, closerVars>>

(* touchListener, the target frame of the dynamic listeners (its write may *)
(* fail), and the start of the pipe.                                       *)
Forward(h) ==
    /\ hpc[h] = "forward"
    /\ idle' = Touched(hl[h])
    /\ \E next \in {"pipe", "finish"} : hpc' = [hpc EXCEPT ![h] = next]
    /\ UNCHANGED <<managerVars, addr, waiting, quit, socket, active, loop,
                   waiterVars, hl, hw, clock, closerVars>>

(* The pipe ends.  PipeBiDir closes the parked connection; Pipe and        *)
(* PipeGorilla leave that to the parked connection's own goroutine.        *)
PipeEnds(h) ==
    /\ hpc[h] = "pipe"
    /\ hpc' = [hpc EXCEPT ![h] = "finish"]
    /\ \E o \in {open[hw[h]], FALSE} : open' = [open EXCEPT ![hw[h]] = o]
    /\ UNCHANGED <<managerVars, listenerVars, wpc, wl, acquired, done, hl, hw,
                   clock, closerVars>>

(* The deferred wait.finish(false).                                        *)
FinishForwarding(h) ==
    /\ hpc[h] = "finish"
    /\ done' = [done EXCEPT ![hw[h]] = TRUE]
    /\ hpc' = [hpc EXCEPT ![h] = "end"]
    /\ UNCHANGED <<managerVars, listenerVars, wpc, wl, acquired, open, hl, hw,
                   clock, closerVars>>

(* The deferred updateActivePipes(tl, -1), then conn.Close.                *)
EndIncoming(h) ==
    LET l == hl[h] IN
    /\ hpc[h] = "end"
    /\ active' = IF Registered(l) THEN [active EXCEPT ![l] = @ - 1] ELSE active
    /\ idle' = Touched(l)
    /\ hpc' = [hpc EXCEPT ![h] = "closed"]
    /\ UNCHANGED <<managerVars, addr, waiting, quit, socket, loop, waiterVars,
                   hl, hw, clock, closerVars>>

-----------------------------------------------------------------------------
(* The reaper and Close.                                                   *)

(* idleTimeout passes without a use of the listener.                       *)
Elapse(l) ==
    /\ Registered(l)
    /\ ~idle[l]
    /\ idle' = [idle EXCEPT ![l] = TRUE]
    /\ UNCHANGED <<managerVars, addr, waiting, quit, socket, active, loop,
                   waiterVars, handlerVars, closerVars>>

Free(c) == todo[c] = {} /\ shutting[c] = None

(* reapIdleListenersOnce, under m.mu.                                      *)
StaleByClockOnly == {l \in Listeners : Registered(l) /\ idle[l]}
Stale == {l \in Listeners : Registered(l) /\ ~(active[l] > 0) /\ idle[l]}

reapIdleListenersOnce ==
    /\ IdleTimeout
    /\ Free("reaper")
    /\ Stale # {}
    /\ listeners' = [a \in Addrs |-> IF listeners[a] \in Stale THEN None
                                                              ELSE listeners[a]]
    /\ todo' = [todo EXCEPT !["reaper"] = Stale]
    /\ UNCHANGED <<stop, listenerVars, waiterVars, handlerVars, shutting>>

(* Close: the reaper is told to stop and every listener is removed.        *)
Close ==
    /\ Free("Close")
    /\ ~stop \/ \E a \in Addrs : listeners[a] # None
    /\ stop' = TRUE
    /\ listeners' = [a \in Addrs |-> None]
    /\ todo' = [todo EXCEPT !["Close"] = {l \in Listeners : Registered(l)}]
    /\ UNCHANGED <<listenerVars, waiterVars, handlerVars, shutting>>

(* closeTunnelListener(tl, true), first under queueMu, then the socket.    *)
CloserQuits(c, l) ==
    /\ shutting[c] = None
    /\ l \in todo[c]
    /\ QuitAndWake(l)
    /\ todo' = [todo EXCEPT ![c] = @ \ {l}]
    /\ shutting' = [shutting EXCEPT ![c] = l]
    /\ UNCHANGED <<managerVars, addr, waiting, socket, active, idle, loop, wl,
                   acquired, done, open, hl, hw, clock>>

CloserShuts(c) ==
    /\ shutting[c] # None
    /\ socket' = [socket EXCEPT ![shutting[c]] = FALSE]
    /\ shutting' = [shutting EXCEPT ![c] = None]
    /\ UNCHANGED <<managerVars, addr, waiting, quit, active, idle, loop,
                   waiterVars, handlerVars, todo>>

-----------------------------------------------------------------------------
(* A client connects; the steps its goroutine takes by itself.             *)
Arrive(w) ==
    \E a \in Addrs :
        \/ ReuseListener(w, a)
        \/ \E l \in Listeners : CreateListener(w, a, l)
        \/ ListenFails(w, a)

WaiterStep(w) ==
    \/ EnqueueRejected(w)
    \/ EnqueueAppend(w)
    \/ EnqueueSleep(w)
    \/ TouchParked(w)
    \/ WaitReturns(w)
    \/ WaitSeesAcquired(w)
    \/ WaitTimerFires(w)
    \/ TimeoutChecks(w)
    \/ TimeoutFinishes(w)
    \/ TimeoutPurges(w)

LoopStep(l) ==
    \/ LoopQuits(l)
    \/ LoopUnmaps(l)
    \/ LoopCloses(l)

HandlerStep(h) ==
    \/ beginIncoming(h)
    \/ AcquireTakes(h)
    \/ AcquireGivesUp(h)
    \/ AcquireSleeps(h)
    \/ Forward(h)
    \/ FinishForwarding(h)
    \/ EndIncoming(h)

CloserStep(c) ==
    \/ \E l \in Listeners : CloserQuits(c, l)
    \/ CloserShuts(c)

Next ==
    \/ \E w \in Waiters : Arrive(w) \/ WaiterStep(w)
    \/ \E l \in Listeners : \/ \E h \in Incoming : Accept(l, h)
                            \/ AcceptFails(l)
                            \/ LoopStep(l)
                            \/ Elapse(l)
    \/ \E h \in Incoming : \/ HandlerStep(h)
                           \/ Handshake(h)
                           \/ TimerRings(h)
                           \/ DeadlinePasses(h)
                           \/ PipeEnds(h)
    \/ \E c \in Closers : CloserStep(c)
    \/ reapIdleListenersOnce
    \/ Close

Spec == Init /\ [][Next]_vars

(* What the Go scheduler, the clock and closed sockets guarantee, and that *)
(* the send buffer of a parked connection has room for the target frame.   *)
(* Nothing is assumed of clients arriving, of a peer finishing its         *)
(* handshake, of a pipe ever ending (either side may stop reading), of an  *)
(* open socket failing, or of Close being called.                          *)
Fairness ==
    /\ \A w \in Waiters : WF_vars(WaiterStep(w))
    /\ \A l \in Listeners : /\ WF_vars(LoopStep(l))
                            /\ WF_vars(~socket[l] /\ AcceptFails(l))
                            /\ WF_vars(Elapse(l))
    /\ \A h \in Incoming : /\ WF_vars(HandlerStep(h))
                           /\ WF_vars(TimerRings(h))
                           /\ WF_vars(DeadlinePasses(h))
    /\ \A c \in Closers : WF_vars(CloserStep(c))
    /\ WF_vars(~stop /\ reapIdleListenersOnce)

FairSpec == Spec /\ Fairness

-----------------------------------------------------------------------------
(* Properties.                                                             *)

(* tl.active of a registered listener is the number of its handleIncoming  *)
(* goroutines between beginIncoming and the deferred updateActivePipes(-1),*)
(* whichever way they return: the reaper's test tl.active > 0 is exact.    *)
ActiveCountsHandlers ==
    \A l \in Listeners :
        Registered(l) =>
            active[l] = Cardinality({h \in Incoming : hl[h] = l /\ hpc[h] \in Begun})

(* A parked connection serves at most one incoming connection: it is in at *)
(* most one place of one queue, and once acquireWaitingConn handed it out  *)
(* it is in no queue and in no other handler's hands.                      *)
ExclusiveUse ==
    /\ \A l \in Listeners : \A i, j \in DOMAIN waiting[l] :
           waiting[l][i] = waiting[l][j] => i = j
    /\ \A l, k \in Listeners : \A i \in DOMAIN waiting[l], j \in DOMAIN waiting[k] :
           waiting[l][i] = waiting[k][j] => l = k
    /\ \A h \in Incoming : hw[h] # None =>
           /\ \A l \in Listeners : \A i \in DOMAIN waiting[l] : waiting[l][i] # hw[h]
           /\ \A g \in Incoming : hw[g] = hw[h] => g = h

(* No wake-up of queueCond is lost: a client asleep in enqueueWaitingConn  *)
(* means that the queue is full of waiters none of which is done, except   *)
(* those whose own goroutine is about to purge, and a handler asleep in    *)
(* acquireWaitingConn means that the queue is empty; nobody sleeps on a    *)
(* listener that has quit.                                                 *)
NoLostWakeup ==
    /\ \A w \in Waiters : wpc[w] = "enqSleep" =>
           /\ ~quit[wl[w]]
           /\ Len(waiting[wl[w]]) = WaitCap
           /\ \A i \in DOMAIN waiting[wl[w]] :
                  done[waiting[wl[w]][i]] => wpc[waiting[wl[w]][i]] = "purge"
    /\ \A h \in Incoming : hpc[h] = "acqSleep" =>
           ~quit[hl[h]] /\ waiting[hl[h]] = <<>>

(* getOrCreateListener hands a client a listener whose socket is open and  *)
(* which has not quit, except between the two critical sections of a       *)
(* failing accept loop: the reaper and Close unregister before they close. *)
RegisteredIsServed ==
    \A a \in Addrs : listeners[a] # None =>
        /\ addr[listeners[a]] = a
        /\ socket[listeners[a]]
        /\ quit[listeners[a]] => loop[listeners[a]] = "unmap"

(* While handleIncoming forwards through a parked connection, and its      *)
(* listener has not quit, the server side leaves that connection open.     *)
InUseStaysOpen ==
    \A h \in Incoming : hpc[h] = "pipe" /\ ~quit[hl[h]] => open[hw[h]]

(* While handleIncoming forwards through a parked connection, and its      *)
(* listener has not quit, nobody closes that connection but the            *)
(* finish(true) of a handleWaitTimeout that read isAcquired too early:     *)
(* neither a purge, nor another handler, nor the return of HandleClient.   *)
OnlyTimeoutCloses ==
    [][\A h \in Incoming :
           /\ hpc[h] = "pipe" /\ hpc'[h] = "pipe"
           /\ ~quit[hl[h]]
           /\ open[hw[h]] /\ ~open'[hw[h]]
           => wpc[hw[h]] = "close"]_vars

(* The queue with its lazy purging, its timeouts and its quitting is a     *)
(* bounded line: acquireWaitingConn hands out the parked connection that   *)
(* has waited longest, and none that is done or has been handed out.  The  *)
(* line of a listener is its queue without the waiters that are done: when *)
(* purgeDoneWaitersLocked gets to remove them makes no difference.         *)
Pool == INSTANCE ReversePool WITH line <- [l \in Listeners |-> Purged(l)],
                                  given <- hw
IsPool == Pool!Spec

(* reapIdleListenersOnce takes l out of the map in this step.              *)
Reaps(l) == l \in todo'["reaper"] /\ l \notin todo["reaper"]

(* The reaper never takes a listener while handleIncoming is serving one   *)
(* of its connections.                                                     *)
ReaperSparesHandlers ==
    [][\A l \in Listeners : Reaps(l) =>
           \A h \in Incoming : hl[h] = l => hpc[h] \notin Begun]_vars

(* Nobody works for l but handlers whose peer has yet to finish its        *)
(* handshake, and pipes whose parked connection has been closed.           *)
Drained(l) ==
    /\ \A w \in Waiters : wl[w] = l => wpc[w] = "returned"
    /\ \A h \in Incoming : hl[h] = l =>
           \/ hpc[h] \in {"handshake", "closed"}
           \/ hpc[h] = "pipe" /\ ~open[hw[h]]

(* Once a listener has quit, every HandleClient on it returns, and every   *)
(* handleIncoming past its handshake returns too, or is in a pipe whose    *)
(* parked connection the server has closed.  Such a pipe may last: its     *)
(* goroutine in tcpConn.Write waits for a peer that does not read.         *)
QuitDrains == \A l \in Listeners : quit[l] ~> Drained(l)

(* While the reaper runs, no listener stays registered for good unless a   *)
(* handleIncoming is at work on it again and again: a count in tl.active   *)
(* that outlived its handler would keep it there.                          *)
IdleListenerReaped ==
    \A l \in Listeners :
        Registered(l) ~>
            \/ ~Registered(l)
            \/ stop
            \/ \E h \in Incoming : hl[h] = l /\ hpc[h] \in Begun

(* A listener that neither a handshake nor a pipe uses is reaped: a        *)
(* handler looking for a parked connection gives up after ten seconds.     *)
UnusedListenerReaped ==
    \A l \in Listeners :
        Registered(l) ~>
            \/ ~Registered(l)
            \/ stop
            \/ \E h \in Incoming : hl[h] = l /\ hpc[h] \in {"handshake", "pipe"}

-----------------------------------------------------------------------------
(* The inductive invariant behind the safety properties.                   *)

(* A goroutine past its first step has a listener, and a forwarding        *)
(* handler has a parked connection.                                        *)
WaiterReferences ==
    \A w \in Waiters : wpc[w] \notin {"new", "returned"} => wl[w] \in Listeners

HandlerReferences ==
    \A h \in Incoming : /\ hpc[h] # "none" => hl[h] \in Listeners
                        /\ hpc[h] \in Holding => hw[h] \in Waiters

(* A listener that has not been allocated has neither loop nor handlers.   *)
Allocation ==
    \A l \in Listeners : addr[l] = None =>
        loop[l] = "none" /\ active[l] = 0 /\ \A h \in Incoming : hl[h] # l

(* A queued waiter is parked on that listener and has not been acquired; a *)
(* waiter that a handler took is acquired, and only enqueued ones are.     *)
Outside == {"new", "enq", "enqSleep"}

QueueInv ==
    /\ \A l \in Listeners : \A i \in 1..Len(waiting[l]) :
           /\ wl[waiting[l][i]] = l
           /\ ~acquired[waiting[l][i]]
           /\ wpc[waiting[l][i]] \notin Outside
    /\ \A w \in Waiters : acquired[w] => wpc[w] \notin Outside
    /\ \A h \in Incoming : hw[h] # None => acquired[hw[h]]
    /\ \A l \in Listeners : \A i, j \in 1..Len(waiting[l]) :
           waiting[l][i] = waiting[l][j] => i = j
    /\ \A g, h \in Incoming : hw[g] # None /\ hw[g] = hw[h] => g = h

(* What a closer works on, and what a finished accept loop left behind, is *)
(* no longer registered, and was once allocated; an accept loop waits for  *)
(* beginIncoming of the one connection it accepted.                        *)
ServedInv ==
    /\ RegisteredIsServed
    /\ \A c \in Closers : \A l \in todo[c] : addr[l] # None /\ ~Registered(l)
    /\ \A c \in Closers : shutting[c] # None =>
           addr[shutting[c]] # None /\ ~Registered(shutting[c])
    /\ \A l \in Listeners : loop[l] = "exit" => ~Registered(l)
    /\ \A l \in Listeners : quit[l] => addr[l] # None
    /\ \A h \in Incoming : hpc[h] = "accepted" => loop[hl[h]] = "begin"
    /\ \A g, h \in Incoming :
           hpc[g] = "accepted" /\ hpc[h] = "accepted" /\ hl[g] = hl[h] => g = h

(* A client sleeps only on a full queue and a handler only on an empty one *)
(* of a listener that has not quit.  The queue never exceeds its capacity, *)
(* a queued waiter is done only between its timeout's finish and purge or  *)
(* after the listener has quit, and none is done before it is queued.      *)
WakeInv ==
    /\ \A w \in Waiters : wpc[w] = "enqSleep" =>
           ~quit[wl[w]] /\ Len(waiting[wl[w]]) = WaitCap
    /\ \A h \in Incoming : hpc[h] = "acqSleep" => ~quit[hl[h]] /\ waiting[hl[h]] = <<>>
    /\ \A l \in Listeners : Len(waiting[l]) <= WaitCap
    /\ \A l \in Listeners : \A i \in 1..Len(waiting[l]) :
           done[waiting[l][i]] => quit[l] \/ wpc[waiting[l][i]] = "purge"
    /\ \A w \in Waiters : done[w] => wpc[w] \notin Outside

(* A client that has yet to be queued, that is queued, or that a handler   *)
(* forwards through is open, unless its own timeout has finished it or the *)
(* listener has quit; there are timeouts only with an idleTimeout.  Only a *)
(* handler that has taken a client is past acquireWaitingConn with one.    *)
InUse == {"forward", "pipe"}
Usable(w) ==
    IF wpc[w] \in {"purge", "returned"} THEN ~open[w] /\ IdleTimeout
                                      ELSE open[w] /\ ~done[w]

UseInv ==
    /\ \A w \in Waiters : wpc[w] \in Outside => open[w]
    /\ \A w \in Waiters : wpc[w] \in {"expired", "close", "purge"} => IdleTimeout
    /\ \A l \in Listeners : \A i \in 1..Len(waiting[l]) :
           ~quit[l] => Usable(waiting[l][i])
    /\ \A h \in Incoming : hpc[h] \in InUse =>
           /\ wl[hw[h]] = hl[h]
           /\ ~quit[hl[h]] => Usable(hw[h])
    /\ \A h \in Incoming : hw[h] # None => hpc[h] \in Holding \cup {"end", "closed"}

InductiveInvariant ==
    /\ TypeOK
    /\ WaiterReferences
    /\ HandlerReferences
    /\ Allocation
    /\ ActiveCountsHandlers
    /\ QueueInv
    /\ ServedInv
    /\ WakeInv
    /\ UseInv

=============================================================================
