------------------- MODULE ReverseTunnelManagerQueueProofs -------------------
(* What every step keeps of the queues, the listeners and the connections  *)
(* in use of the reverse-tunnel pool, for any number of addresses,         *)
(* listeners, clients and incoming connections and any queue capacity.     *)
(* ReverseTunnelManagerProofs adds what is counted and draws the theorems. *)
EXTENDS ReverseTunnelManager, TLAPS

-----------------------------------------------------------------------------
(* Purging, waking and the references of goroutines.                       *)

(* What purgeDoneWaitersLocked returns is made of waiters of the queue     *)
(* that are not done; it is no longer than the queue and repeats nothing   *)
(* the queue does not.                                                     *)
PurgeKeepsLine ==
    \A l \in Listeners : waiting[l] \in Seq(Waiters) =>
        /\ Purged(l) \in Seq(Waiters)
        /\ Len(Purged(l)) <= Len(waiting[l])
        /\ \A n \in 1..Len(Purged(l)) : \E i \in 1..Len(waiting[l]) :
               /\ Purged(l)[n] = waiting[l][i]
               /\ ~done[waiting[l][i]]
        /\ (\A i, j \in 1..Len(waiting[l]) : waiting[l][i] = waiting[l][j] => i = j)
           => (\A m, n \in 1..Len(Purged(l)) : Purged(l)[m] = Purged(l)[n] => m = n)

ReferencesInv == WaiterReferences /\ HandlerReferences /\ Allocation
CountInv == TypeOK /\ ReferencesInv /\ ActiveCountsHandlers /\ PurgeKeepsLine

(* The purged queue of a listener.                                         *)
LEMMA PurgedFacts ==
    ASSUME CountInv, NEW l \in Listeners
    PROVE  /\ Purged(l) \in Seq(Waiters)
           /\ Len(Purged(l)) <= Len(waiting[l])
           /\ \A n \in 1..Len(Purged(l)) : \E i \in 1..Len(waiting[l]) :
                  /\ Purged(l)[n] = waiting[l][i]
                  /\ ~done[waiting[l][i]]
           /\ (\A i, j \in 1..Len(waiting[l]) : waiting[l][i] = waiting[l][j] => i = j)
              => (\A m, n \in 1..Len(Purged(l)) : Purged(l)[m] = Purged(l)[n] => m = n)
  BY Zenon DEF CountInv, TypeOK, PurgeKeepsLine

(* What a Broadcast may do to the place a goroutine is at.                 *)
Woken(before, after, asleep, awake) ==
    after = before \/ (before = asleep /\ after = awake)

(* A Broadcast moves sleepers to the top of their loops, nothing else; the *)
(* one made by a purge does so when the purge removed a waiter.            *)
LEMMA WakeFacts ==
    ASSUME TypeOK, NEW l
    PROVE  /\ WakeWaiters(l) \in [Waiters -> WaiterStates]
           /\ WakeHandlers(l) \in [Incoming -> HandlerStates]
           /\ \A w \in Waiters : WakeWaiters(l)[w] =
                  IF wpc[w] = "enqSleep" /\ wl[w] = l THEN "enq" ELSE wpc[w]
           /\ \A h \in Incoming : WakeHandlers(l)[h] =
                  IF hpc[h] = "acqSleep" /\ hl[h] = l THEN "acq" ELSE hpc[h]
BY DEF TypeOK, WakeWaiters, WakeHandlers, WaiterStates, HandlerStates

(* A purge leaves every client and handler in one of its states.           *)
LEMMA PurgeWakesFacts ==
    ASSUME TypeOK, NEW l
    PROVE  /\ PurgeWakesWaiters(l) \in [Waiters -> WaiterStates]
           /\ PurgeWakesHandlers(l) \in [Incoming -> HandlerStates]
           /\ \A w \in Waiters : PurgeWakesWaiters(l)[w] =
                  IF wpc[w] = "enqSleep" /\ wl[w] = l /\ Purged(l) # waiting[l]
                  THEN "enq" ELSE wpc[w]
           /\ \A h \in Incoming : PurgeWakesHandlers(l)[h] =
                  IF hpc[h] = "acqSleep" /\ hl[h] = l /\ Purged(l) # waiting[l]
                  THEN "acq" ELSE hpc[h]
BY WakeFacts DEF TypeOK, PurgeWakesWaiters, PurgeWakesHandlers

(* After a Broadcast a goroutine is where it was, or awake.                *)
LEMMA WakeWoken ==
    ASSUME TypeOK, NEW l
    PROVE  /\ WakeWaiters(l) \in [Waiters -> WaiterStates]
           /\ \A w \in Waiters : Woken(wpc[w], WakeWaiters(l)[w], "enqSleep", "enq")
           /\ WakeHandlers(l) \in [Incoming -> HandlerStates]
           /\ \A h \in Incoming : Woken(hpc[h], WakeHandlers(l)[h], "acqSleep", "acq")
BY WakeFacts DEF Woken

(* So it is after a purge.                                                 *)
LEMMA PurgeWakesWoken ==
    ASSUME TypeOK, NEW l
    PROVE  /\ PurgeWakesWaiters(l) \in [Waiters -> WaiterStates]
           /\ \A w \in Waiters : Woken(wpc[w], PurgeWakesWaiters(l)[w], "enqSleep", "enq")
           /\ PurgeWakesHandlers(l) \in [Incoming -> HandlerStates]
           /\ \A h \in Incoming : Woken(hpc[h], PurgeWakesHandlers(l)[h], "acqSleep", "acq")
BY PurgeWakesFacts DEF Woken

-----------------------------------------------------------------------------
(* The kinds of steps, by what they do to clients, handlers and queues.    *)

(* Purge of l's queue at the top of a turn of enqueueWaitingConn's or      *)
(* acquireWaitingConn's loop, or by handleWaitTimeout.  Who sleeps on the  *)
(* listener is woken unless nothing was purged; the one whose turn it is   *)
(* leaves, or falls asleep for want of room or of a client.                *)
Purging(l) ==
    /\ waiting' = [waiting EXCEPT ![l] = Purged(l)]
    /\ UNCHANGED <<quit, wl, acquired, hl, hw>>
    /\ \A x \in Waiters :
           \/ /\ Woken(wpc[x], wpc'[x], "enqSleep", "enq")
              /\ wpc'[x] = "enqSleep" /\ wl[x] = l => Purged(l) = waiting[l]
              /\ open'[x] = open[x] /\ done'[x] = done[x]
           \/ /\ wpc[x] = "enq" /\ wpc'[x] = "enqSleep"
              /\ wl[x] = l /\ ~quit[l] /\ Len(Purged(l)) >= WaitCap
              /\ open'[x] = open[x] /\ done'[x] = done[x]
           \/ wpc[x] = "enq" /\ wpc'[x] = "returned" /\ wl[x] = l
           \/ /\ wpc[x] = "purge" /\ wpc'[x] = "returned" /\ wl[x] = l
              /\ ~open'[x] /\ done'[x] = done[x]
    /\ \A g \in Incoming :
           \/ /\ Woken(hpc[g], hpc'[g], "acqSleep", "acq")
              /\ hpc'[g] = "acqSleep" /\ hl[g] = l => Purged(l) = waiting[l]
           \/ /\ hpc[g] = "acq" /\ hpc'[g] = "acqSleep"
              /\ hl[g] = l /\ ~quit[l] /\ Purged(l) = <<>>
           \/ hpc[g] = "acq" /\ hpc'[g] = "end"

(* Broadcast of l's queueCond, by the timer of acquireWaitingConn or by    *)
(* closeTunnelListener, which also sets quit.                              *)
Broadcasting(l) ==
    /\ UNCHANGED <<waiting, wl, acquired, done, open, hl, hw>>
    /\ quit' = quit \/ quit' = [quit EXCEPT ![l] = TRUE]
    /\ \A x \in Waiters : /\ Woken(wpc[x], wpc'[x], "enqSleep", "enq")
                          /\ wpc'[x] = "enqSleep" => wl[x] # l
    /\ \A g \in Incoming : /\ Woken(hpc[g], hpc'[g], "acqSleep", "acq")
                           /\ hpc'[g] = "acqSleep" => hl[g] # l

(* A client's goroutine moves on by itself.                                *)
ClientMoves(w) ==
    /\ UNCHANGED <<waiting, quit, acquired, hpc, hl, hw>>
    /\ \A x \in Waiters : x # w => /\ wpc'[x] = wpc[x] /\ wl'[x] = wl[x]
                                   /\ open'[x] = open[x] /\ done'[x] = done[x]
    /\ \/ /\ wpc[w] = "new" /\ wpc'[w] = "enq" /\ wl'[w] \in Listeners
          /\ UNCHANGED <<open, done>>
       \/ wpc[w] = "new" /\ wpc'[w] = "returned" /\ done' = done
       \/ /\ \/ wpc[w] = "touch" /\ wpc'[w] = "wait"
             \/ wpc[w] \in {"wait", "expired"} /\ wpc'[w] = "afterAcquire"
             \/ wpc[w] = "wait" /\ wpc'[w] = "expired" /\ IdleTimeout
             \/ wpc[w] = "expired" /\ wpc'[w] = "close"
          /\ UNCHANGED <<wl, open, done>>
       \/ /\ wpc[w] \in {"wait", "afterAcquire"} /\ wpc'[w] = "returned"
          /\ done[w] \/ quit[wl[w]]
          /\ wl' = wl /\ done' = [done EXCEPT ![w] = TRUE]
       \/ /\ wpc[w] = "close" /\ wpc'[w] = "purge" /\ (open'[w] => done[w])
          /\ wl' = wl /\ done' = [done EXCEPT ![w] = TRUE]

(* A handler's goroutine moves on by itself, or is started.                *)
HandlerMoves(h) ==
    /\ UNCHANGED <<waiting, quit, wpc, wl, acquired, hw>>
    /\ \A g \in Incoming : g # h => hpc'[g] = hpc[g] /\ hl'[g] = hl[g]
    /\ \/ /\ hpc[h] = "none" /\ hpc'[h] = "accepted" /\ hl'[h] \in Listeners
          /\ loop[hl'[h]] = "accept" /\ loop'[hl'[h]] = "begin"
          /\ UNCHANGED <<open, done>>
       \/ /\ \/ hpc[h] = "accepted" /\ hpc'[h] = "handshake"
             \/ hpc[h] = "handshake" /\ hpc'[h] \in {"acq", "end"}
             \/ hpc[h] = "forward" /\ hpc'[h] \in {"pipe", "finish"}
             \/ hpc[h] = "end" /\ hpc'[h] = "closed"
          /\ UNCHANGED <<hl, open, done>>
       \/ /\ hpc[h] = "pipe" /\ hpc'[h] = "finish" /\ UNCHANGED <<hl, done>>
          /\ \A x \in Waiters : x # hw[h] => open'[x] = open[x]
       \/ /\ hpc[h] = "finish" /\ hpc'[h] = "end" /\ UNCHANGED <<hl, open>>
          /\ done' = [done EXCEPT ![hw[h]] = TRUE]

(* Clients, handlers and queues stay as they are.                          *)
Rests == UNCHANGED <<waiting, quit, wpc, wl, acquired, done, open, hpc, hl, hw>>

(* A purging action purges the queue of its listener.                      *)
LEMMA PurgeKinds ==
    ASSUME CountInv
    PROVE  /\ \A w \in Waiters :
                  EnqueueRejected(w) \/ EnqueueSleep(w) \/ TimeoutPurges(w)
                  => wl[w] \in Listeners /\ Purging(wl[w])
           /\ \A h \in Incoming :
                  AcquireGivesUp(h) \/ AcquireSleeps(h)
                  => hl[h] \in Listeners /\ Purging(hl[h])
<1> TypeOK /\ WaiterReferences /\ HandlerReferences
  BY DEF CountInv, ReferencesInv
<1>1. \A l : /\ PurgeWakesWaiters(l) \in [Waiters -> WaiterStates]
             /\ PurgeWakesHandlers(l) \in [Incoming -> HandlerStates]
             /\ \A x \in Waiters :
                    /\ Woken(wpc[x], PurgeWakesWaiters(l)[x], "enqSleep", "enq")
                    /\ PurgeWakesWaiters(l)[x] = "enqSleep" /\ wl[x] = l => Purged(l) = waiting[l]
             /\ \A g \in Incoming :
                    /\ Woken(hpc[g], PurgeWakesHandlers(l)[g], "acqSleep", "acq")
                    /\ PurgeWakesHandlers(l)[g] = "acqSleep" /\ hl[g] = l => Purged(l) = waiting[l]
  BY PurgeWakesFacts DEF Woken
<1>2. ASSUME NEW w \in Waiters, EnqueueRejected(w)
      PROVE  wl[w] \in Listeners /\ Purging(wl[w])
  BY <1>1, <1>2, Zenon DEF EnqueueRejected, WaiterReferences, Purging, TypeOK
<1>3. ASSUME NEW w \in Waiters, EnqueueSleep(w)
      PROVE  wl[w] \in Listeners /\ Purging(wl[w])
  BY <1>1, <1>3, Zenon DEF EnqueueSleep, WaiterReferences, Purging, TypeOK
<1>4. ASSUME NEW w \in Waiters, TimeoutPurges(w)
      PROVE  wl[w] \in Listeners /\ Purging(wl[w])
  BY <1>1, <1>4, Zenon DEF TimeoutPurges, WaiterReferences, Purging, TypeOK
<1>5. ASSUME NEW h \in Incoming, AcquireGivesUp(h)
      PROVE  hl[h] \in Listeners /\ Purging(hl[h])
  BY <1>1, <1>5 DEF AcquireGivesUp, HandlerReferences, Purging, TypeOK
<1>6. ASSUME NEW h \in Incoming, AcquireSleeps(h)
      PROVE  hl[h] \in Listeners /\ Purging(hl[h])
  BY <1>1, <1>6 DEF AcquireSleeps, HandlerReferences, Purging, TypeOK
<1> QED
  BY <1>2, <1>3, <1>4, <1>5, <1>6, Zenon

(* The kind of every step.                                                 *)
LEMMA Kinds ==
    ASSUME CountInv, [Next]_vars
    PROVE  \/ \E w \in Waiters : EnqueueAppend(w) \/ ClientMoves(w)
           \/ \E h \in Incoming : AcquireTakes(h) \/ HandlerMoves(h)
           \/ \E l \in Listeners : Purging(l) \/ Broadcasting(l)
           \/ Rests
<1> TypeOK /\ WaiterReferences /\ HandlerReferences
  BY DEF CountInv, ReferencesInv
<1> USE DEF managerVars, listenerVars, waiterVars, handlerVars, closerVars
<1>1. ASSUME NEW w \in Waiters, NEW a \in Addrs, ReuseListener(w, a) PROVE ClientMoves(w)
  BY <1>1 DEF ReuseListener, ClientMoves, TypeOK
<1>2. ASSUME NEW w \in Waiters, NEW a \in Addrs, NEW l \in Listeners, CreateListener(w, a, l)
      PROVE  ClientMoves(w)
  BY <1>2 DEF CreateListener, ClientMoves, TypeOK
<1>3. ASSUME NEW w \in Waiters, NEW a \in Addrs, ListenFails(w, a) PROVE ClientMoves(w)
  BY <1>3 DEF ListenFails, ClientMoves, TypeOK
<1>4. ASSUME NEW w \in Waiters, TouchParked(w) PROVE ClientMoves(w)
  BY <1>4 DEF TouchParked, ClientMoves, TypeOK
<1>5. ASSUME NEW w \in Waiters, WaitReturns(w) PROVE ClientMoves(w)
  BY <1>5 DEF WaitReturns, ClientMoves, TypeOK
<1>6. ASSUME NEW w \in Waiters, WaitSeesAcquired(w) PROVE ClientMoves(w)
  BY <1>6 DEF WaitSeesAcquired, ClientMoves, TypeOK
<1>7. ASSUME NEW w \in Waiters, WaitTimerFires(w) PROVE ClientMoves(w)
  BY <1>7 DEF WaitTimerFires, ClientMoves, TypeOK
<1>8. ASSUME NEW w \in Waiters, TimeoutChecks(w) PROVE ClientMoves(w)
  BY <1>8 DEF TimeoutChecks, ClientMoves, TypeOK
<1>9. ASSUME NEW w \in Waiters, TimeoutFinishes(w) PROVE ClientMoves(w)
  BY <1>9 DEF TimeoutFinishes, ClientMoves, TypeOK
<1>10. ASSUME NEW l \in Listeners, NEW h \in Incoming, Accept(l, h) PROVE HandlerMoves(h)
  BY <1>10 DEF Accept, HandlerMoves, TypeOK
<1>11. ASSUME NEW h \in Incoming, beginIncoming(h) PROVE HandlerMoves(h)
  BY <1>11 DEF beginIncoming, HandlerMoves, TypeOK
<1>12. ASSUME NEW h \in Incoming, Handshake(h) PROVE HandlerMoves(h)
  BY <1>12 DEF Handshake, HandlerMoves, TypeOK
<1>13. ASSUME NEW h \in Incoming, Forward(h) PROVE HandlerMoves(h)
  BY <1>13 DEF Forward, HandlerMoves, TypeOK
<1>14. ASSUME NEW h \in Incoming, PipeEnds(h) PROVE HandlerMoves(h)
  BY <1>14 DEF PipeEnds, HandlerMoves, TypeOK
<1>15. ASSUME NEW h \in Incoming, FinishForwarding(h) PROVE HandlerMoves(h)
  BY <1>15 DEF FinishForwarding, HandlerMoves, TypeOK
<1>16. ASSUME NEW h \in Incoming, EndIncoming(h) PROVE HandlerMoves(h)
  BY <1>16 DEF EndIncoming, HandlerMoves, TypeOK
<1>17. ASSUME NEW l \in Listeners, UNCHANGED <<waiting, wl, acquired, done, open, hl, hw>>,
              quit' = quit \/ quit' = [quit EXCEPT ![l] = TRUE],
              wpc' = WakeWaiters(l), hpc' = WakeHandlers(l)
       PROVE  Broadcasting(l)
  BY <1>17, WakeFacts DEF Broadcasting, Woken
<1>18. ASSUME NEW h \in Incoming, TimerRings(h) PROVE \E l \in Listeners : Broadcasting(l)
  <2>1. hl[h] \in Listeners
    BY <1>18, Zenon DEF TimerRings, HandlerReferences
  <2> QED
    BY <1>17, <1>18, <2>1, Zenon DEF TimerRings
<1>19. ASSUME NEW h \in Incoming, DeadlinePasses(h) PROVE Rests
  BY <1>19, Zenon DEF DeadlinePasses, Rests
<1>20. ASSUME NEW l \in Listeners, AcceptFails(l) \/ LoopStep(l) \/ Elapse(l)
       PROVE  Rests \/ Broadcasting(l)
  BY <1>17, <1>20, Zenon DEF AcceptFails, LoopStep, LoopQuits, QuitAndWake,
     LoopUnmaps, LoopCloses, Elapse, Rests
<1>21. ASSUME (\E c \in Closers : CloserStep(c)) \/ reapIdleListenersOnce \/ Close
       PROVE  Rests \/ \E l \in Listeners : Broadcasting(l)
  BY <1>17, <1>21, Zenon DEF CloserStep, CloserQuits, CloserShuts, QuitAndWake,
     reapIdleListenersOnce, Close, Rests
<1>22. CASE UNCHANGED vars
  BY <1>22, Zenon DEF vars, Rests
<1> QED
  BY <1>1, <1>2, <1>3, <1>4, <1>5, <1>6, <1>7, <1>8, <1>9, <1>10, <1>11, <1>12,
     <1>13, <1>14, <1>15, <1>16, <1>18, <1>19, <1>20, <1>21, <1>22, PurgeKinds, Zenon
  DEF Next, Arrive, WaiterStep, HandlerStep

(* Every step keeps the references of goroutines to listeners and parked   *)
(* connections, and touches no listener that has not been allocated.       *)
LEMMA ReferencesStep == CountInv /\ [Next]_vars => ReferencesInv'
<1> SUFFICES ASSUME CountInv, [Next]_vars
             PROVE  WaiterReferences' /\ HandlerReferences' /\ Allocation'
  BY Zenon DEF ReferencesInv
<1> TypeOK /\ WaiterReferences /\ HandlerReferences /\ Allocation
  BY Zenon DEF CountInv, ReferencesInv
<1>1. ASSUME NEW w \in Waiters, ClientMoves(w) PROVE WaiterReferences' /\ HandlerReferences'
  BY <1>1, Zenon DEF ClientMoves, WaiterReferences, HandlerReferences
<1>2. ASSUME NEW h \in Incoming, HandlerMoves(h) PROVE WaiterReferences' /\ HandlerReferences'
  BY <1>2, Zenon DEF HandlerMoves, WaiterReferences, HandlerReferences, Holding
<1>3. ASSUME \A x \in Waiters : wpc'[x] \notin {"new", "returned"} =>
                 wpc[x] \notin {"new", "returned"},
             \A g \in Incoming : /\ hpc'[g] # "none" => hpc[g] # "none"
                                 /\ hpc'[g] \in Holding => hpc[g] \in Holding \/ hw'[g] \in Waiters,
             \A g \in Incoming : hw'[g] = hw[g] \/ hw'[g] \in Waiters,
             wl' = wl, hl' = hl
      PROVE  WaiterReferences' /\ HandlerReferences'
  BY <1>3, Zenon DEF WaiterReferences, HandlerReferences
<1>4. ASSUME NEW l \in Listeners, Purging(l) \/ Broadcasting(l)
      PROVE  WaiterReferences' /\ HandlerReferences'
  <2>1. /\ \A x \in Waiters : wpc'[x] \notin {"new", "returned"} =>
               wpc[x] \notin {"new", "returned"}
        /\ \A g \in Incoming : /\ hpc'[g] # "none" => hpc[g] # "none"
                               /\ hpc'[g] \in Holding => hpc[g] \in Holding
    BY <1>4 DEF Purging, Broadcasting, Woken, Holding
  <2> QED
    BY <1>3, <1>4, <2>1, Zenon DEF Purging, Broadcasting
<1>5. ASSUME NEW w \in Waiters, EnqueueAppend(w) PROVE WaiterReferences' /\ HandlerReferences'
  <2>1. /\ WakeWaiters(wl[w]) \in [Waiters -> WaiterStates]
        /\ \A x \in Waiters : Woken(wpc[x], WakeWaiters(wl[w])[x], "enqSleep", "enq")
        /\ WakeHandlers(wl[w]) \in [Incoming -> HandlerStates]
        /\ \A g \in Incoming : Woken(hpc[g], WakeHandlers(wl[w])[g], "acqSleep", "acq")
    BY WakeWoken, Zenon
  <2>2. /\ \A x \in Waiters : wpc'[x] \notin {"new", "returned"} =>
               wpc[x] \notin {"new", "returned"}
        /\ \A g \in Incoming : /\ hpc'[g] # "none" => hpc[g] # "none"
                               /\ hpc'[g] \in Holding => hpc[g] \in Holding
        /\ UNCHANGED <<wl, hl, hw>>
    BY <1>5, <2>1 DEF EnqueueAppend, Woken, Holding
  <2> QED
    BY <1>3, <2>2, Zenon
<1>6. ASSUME NEW h \in Incoming, AcquireTakes(h) PROVE WaiterReferences' /\ HandlerReferences'
  <2>1. /\ WakeWaiters(hl[h]) \in [Waiters -> WaiterStates]
        /\ \A x \in Waiters : Woken(wpc[x], WakeWaiters(hl[h])[x], "enqSleep", "enq")
        /\ WakeHandlers(hl[h]) \in [Incoming -> HandlerStates]
        /\ \A g \in Incoming : Woken(hpc[g], WakeHandlers(hl[h])[g], "acqSleep", "acq")
    BY WakeWoken, Zenon
  <2>2. Head(Purged(hl[h])) \in Waiters
    <3>1. hl[h] \in Listeners /\ Purged(hl[h]) # <<>>
      BY <1>6, Zenon DEF AcquireTakes, HandlerReferences
    <3>2. Purged(hl[h]) \in Seq(Waiters)
      BY <3>1, PurgedFacts, Zenon
    <3>3. \A q \in Seq(Waiters) : q # <<>> => Head(q) \in Waiters
      OBVIOUS
    <3> QED
      BY <3>1, <3>2, <3>3, Zenon
  <2>3. \A g \in Incoming : IF g = h THEN hw'[g] \in Waiters ELSE hw'[g] = hw[g]
    BY <1>6, <2>2, Zenon DEF AcquireTakes, TypeOK
  <2>4. /\ \A x \in Waiters : wpc'[x] \notin {"new", "returned"} =>
               wpc[x] \notin {"new", "returned"}
        /\ \A g \in Incoming : /\ hpc'[g] # "none" => hpc[g] # "none"
                               /\ hpc'[g] \in Holding => hpc[g] \in Holding \/ g = h
        /\ UNCHANGED <<wl, hl>>
    BY <1>6, <2>1 DEF AcquireTakes, Woken, Holding
  <2> QED
    BY <1>3, <2>3, <2>4, Zenon
<1>7. ASSUME Rests PROVE WaiterReferences' /\ HandlerReferences'
  BY <1>7, Zenon DEF Rests, WaiterReferences, HandlerReferences
<1>8. WaiterReferences' /\ HandlerReferences'
  BY <1>1, <1>2, <1>4, <1>5, <1>6, <1>7, Kinds, Zenon
<1> USE DEF managerVars, listenerVars, waiterVars, handlerVars, closerVars
<1>9. ASSUME UNCHANGED <<addr, active, hl>>,
             \/ loop' = loop
             \/ \E l \in Listeners, p \in LoopStates : /\ loop[l] # "none"
                                                       /\ loop' = [loop EXCEPT ![l] = p]
      PROVE  Allocation'
  BY <1>9 DEF Allocation, TypeOK
<1>10. ASSUME NEW w \in Waiters, NEW a \in Addrs, NEW l \in Listeners, CreateListener(w, a, l)
       PROVE  Allocation'
  BY <1>10, ConstantsAssumption DEF CreateListener, Allocation, TypeOK
<1>11. ASSUME NEW w \in Waiters,
              \/ \E a \in Addrs : ReuseListener(w, a) \/ ListenFails(w, a)
              \/ WaiterStep(w)
       PROVE  Allocation'
  BY <1>9, <1>11, Zenon DEF ReuseListener, ListenFails, WaiterStep, EnqueueRejected,
     EnqueueAppend, EnqueueSleep, TouchParked, WaitReturns, WaitSeesAcquired,
     WaitTimerFires, TimeoutChecks, TimeoutFinishes, TimeoutPurges
<1>12. ASSUME NEW l \in Listeners, NEW h \in Incoming, Accept(l, h) PROVE Allocation'
  BY <1>12 DEF Accept, Allocation, TypeOK
<1>13. ASSUME NEW l \in Listeners, AcceptFails(l) \/ LoopStep(l) \/ Elapse(l) PROVE Allocation'
  BY <1>9, <1>13, Zenon DEF AcceptFails, LoopStep, LoopQuits, LoopUnmaps, LoopCloses, Elapse, LoopStates
<1>14. ASSUME NEW h \in Incoming, beginIncoming(h) \/ EndIncoming(h) PROVE Allocation'
  BY <1>14 DEF beginIncoming, EndIncoming, HandlerReferences, Allocation, Registered, TypeOK
<1>15. ASSUME NEW h \in Incoming,
              \/ AcquireTakes(h) \/ AcquireGivesUp(h) \/ AcquireSleeps(h) \/ Forward(h)
              \/ FinishForwarding(h) \/ Handshake(h) \/ TimerRings(h) \/ DeadlinePasses(h)
              \/ PipeEnds(h)
       PROVE  Allocation'
  BY <1>9, <1>15, Zenon DEF AcquireTakes, AcquireGivesUp, AcquireSleeps, Forward,
     FinishForwarding, Handshake, TimerRings, DeadlinePasses, PipeEnds
<1>16. ASSUME (\E c \in Closers : CloserStep(c)) \/ reapIdleListenersOnce \/ Close
       PROVE  Allocation'
  BY <1>9, <1>16, Zenon DEF CloserStep, CloserQuits, CloserShuts, reapIdleListenersOnce, Close
<1>17. ASSUME UNCHANGED vars PROVE Allocation'
  BY <1>17, Zenon DEF vars, Allocation
<1>18. Allocation'
  BY <1>10, <1>11, <1>12, <1>13, <1>14, <1>15, <1>16, <1>17, Zenon
  DEF Next, Arrive, HandlerStep
<1> QED
  BY <1>8, <1>18

-----------------------------------------------------------------------------
(* QueueInv.                                                               *)

(* No client goes back to where it was before it was queued, and each      *)
(* keeps its listener.                                                     *)
KeepsPlaces ==
    \A w \in Waiters : wpc[w] \notin Outside => wpc'[w] \notin Outside /\ wl'[w] = wl[w]

(* Queues are at most purged, and nothing is handed out.                   *)
KeepsLines ==
    /\ \A l \in Listeners : waiting'[l] \in {waiting[l], Purged(l)}
    /\ acquired' = acquired
    /\ hw' = hw
    /\ KeepsPlaces

(* A step that keeps the queues and their places keeps QueueInv.           *)
LEMMA LinesKept ==
    ASSUME CountInv, QueueInv, KeepsLines PROVE QueueInv'
<1>1. ASSUME NEW l \in Listeners
      PROVE  /\ \A i \in 1..Len(waiting'[l]) : \E j \in 1..Len(waiting[l]) :
                    waiting'[l][i] = waiting[l][j]
             /\ \A i, j \in 1..Len(waiting'[l]) : waiting'[l][i] = waiting'[l][j] => i = j
  <2>1. waiting[l] \in Seq(Waiters)
    BY <1>1 DEF CountInv, TypeOK
  <2>2. \A i, j \in 1..Len(waiting[l]) : waiting[l][i] = waiting[l][j] => i = j
    BY <1>1 DEF QueueInv
  <2>3. CASE waiting'[l] = waiting[l]
    BY <2>2, <2>3, Zenon
  <2>4. CASE waiting'[l] = Purged(l)
    <3>1. \A n \in 1..Len(Purged(l)) : \E j \in 1..Len(waiting[l]) : Purged(l)[n] = waiting[l][j]
      BY <1>1, PurgedFacts, Zenon
    <3>2. \A m, n \in 1..Len(Purged(l)) : Purged(l)[m] = Purged(l)[n] => m = n
      BY <1>1, <2>2, PurgedFacts, Zenon
    <3> QED
      BY <2>4, <3>1, <3>2, Zenon
  <2> QED
    BY <1>1, <2>3, <2>4, Zenon DEF KeepsLines
<1>2. ASSUME NEW l \in Listeners, NEW i \in 1..Len(waiting'[l])
      PROVE  /\ wl'[waiting'[l][i]] = l
             /\ ~acquired'[waiting'[l][i]]
             /\ wpc'[waiting'[l][i]] \notin Outside
  <2>1. PICK j \in 1..Len(waiting[l]) : waiting'[l][i] = waiting[l][j]
    BY <1>1, <1>2, Zenon
  <2>2. waiting[l][j] \in Waiters
    BY <2>1 DEF CountInv, TypeOK
  <2>3. /\ wl[waiting[l][j]] = l
        /\ ~acquired[waiting[l][j]]
        /\ wpc[waiting[l][j]] \notin Outside
    BY <2>1, Zenon DEF QueueInv
  <2> QED
    BY <2>1, <2>2, <2>3, Zenon DEF KeepsLines, KeepsPlaces
<1>3. \A w \in Waiters : acquired'[w] => wpc'[w] \notin Outside
  BY Zenon DEF QueueInv, KeepsLines, KeepsPlaces
<1>4. \A h \in Incoming : hw'[h] # None => acquired'[hw'[h]]
  BY Zenon DEF QueueInv, KeepsLines
<1>5. \A g, h \in Incoming : hw'[g] # None /\ hw'[g] = hw'[h] => g = h
  BY Zenon DEF QueueInv, KeepsLines
<1> QED
  BY <1>1, <1>2, <1>3, <1>4, <1>5, Zenon DEF QueueInv

(* Broadcasts leave every client on its side of the queue.                 *)
LEMMA WakeKeepsPlaces ==
    ASSUME NEW l, wpc \in [Waiters -> WaiterStates], NEW w \in Waiters
    PROVE  /\ wpc[w] \in Outside <=> WakeWaiters(l)[w] \in Outside
           /\ wpc[w] \in Outside <=> PurgeWakesWaiters(l)[w] \in Outside
           /\ wpc[w] \notin Outside => /\ WakeWaiters(l)[w] = wpc[w]
                                       /\ PurgeWakesWaiters(l)[w] = wpc[w]
  BY Zenon DEF WakeWaiters, PurgeWakesWaiters, Outside

(* EnqueueAppend puts a client into the queue that was in none.            *)
LEMMA QueueAppends ==
    ASSUME CountInv, QueueInv, NEW w \in Waiters, EnqueueAppend(w) PROVE QueueInv'
<1> DEFINE l == wl[w]
<1> TypeOK /\ l \in Listeners /\ wpc[w] = "enq"
  BY DEF CountInv, ReferencesInv, WaiterReferences, EnqueueAppend
<1> HIDE DEF l
<1>1. /\ waiting' = [waiting EXCEPT ![l] = Append(Purged(l), w)]
      /\ wpc' = [WakeWaiters(l) EXCEPT ![w] = "touch"]
      /\ wl' = wl /\ acquired' = acquired /\ hw' = hw
  BY Zenon DEF EnqueueAppend, l
<1>2. waiting[l] \in Seq(Waiters) /\ Purged(l) \in Seq(Waiters)
  BY PurgedFacts DEF TypeOK
<1>3. /\ \A n \in 1..Len(Purged(l)) : \E i \in 1..Len(waiting[l]) :
             Purged(l)[n] = waiting[l][i]
      /\ \A m, n \in 1..Len(Purged(l)) : Purged(l)[m] = Purged(l)[n] => m = n
  <2>1. \A i, j \in 1..Len(waiting[l]) : waiting[l][i] = waiting[l][j] => i = j
    BY DEF QueueInv
  <2> QED
    BY <1>2, <2>1, PurgedFacts, Zenon
<1>4. \A x \in Waiters : /\ wpc[x] \notin Outside => wpc'[x] \notin Outside
                         /\ x = w => wpc'[x] \notin Outside
  BY <1>1, WakeKeepsPlaces, Zenon DEF TypeOK, Outside, WakeWaiters
<1>5. wpc[w] \in Outside /\ ~acquired[w]
  BY Zenon DEF Outside, QueueInv
<1>6. /\ Len(waiting'[l]) = Len(Purged(l)) + 1
      /\ waiting'[l][Len(Purged(l)) + 1] = w
      /\ \A n \in 1..Len(Purged(l)) : waiting'[l][n] = Purged(l)[n]
      /\ \A k \in Listeners : k # l => waiting'[k] = waiting[k]
  BY <1>1, <1>2 DEF TypeOK
<1>7. \A n \in 1..Len(Purged(l)) : /\ Purged(l)[n] \in Waiters
                                   /\ wl[Purged(l)[n]] = l
                                   /\ ~acquired[Purged(l)[n]]
                                   /\ wpc[Purged(l)[n]] \notin Outside
                                   /\ Purged(l)[n] # w
  <2>1. \A i \in 1..Len(waiting[l]) : /\ waiting[l][i] \in Waiters
                                      /\ wl[waiting[l][i]] = l
                                      /\ ~acquired[waiting[l][i]]
                                      /\ wpc[waiting[l][i]] \notin Outside
    BY <1>2 DEF QueueInv
  <2> QED
    BY <1>3, <1>5, <2>1
<1>8. ASSUME NEW k \in Listeners, NEW i \in 1..Len(waiting'[k])
      PROVE  /\ wl'[waiting'[k][i]] = k
             /\ ~acquired'[waiting'[k][i]]
             /\ wpc'[waiting'[k][i]] \notin Outside
  <2>1. CASE k # l
    <3>1. waiting'[k] = waiting[k] /\ waiting[k][i] \in Waiters
      BY <1>6, <1>8, <2>1 DEF TypeOK
    <3>2. wl[waiting[k][i]] = k /\ ~acquired[waiting[k][i]] /\ wpc[waiting[k][i]] \notin Outside
      BY <1>8, <3>1, Zenon DEF QueueInv
    <3> QED
      BY <1>1, <1>4, <3>1, <3>2, Zenon
  <2>2. CASE k = l
    <3>1. i \in 1..Len(Purged(l)) \/ i = Len(Purged(l)) + 1
      BY <1>2, <1>6, <1>8, <2>2
    <3>2. CASE i \in 1..Len(Purged(l))
      <4>1. waiting'[k][i] = Purged(l)[i]
        BY <1>6, <2>2, <3>2, Zenon
      <4> QED
        BY <1>1, <1>4, <1>7, <2>2, <3>2, <4>1, Zenon
    <3>3. CASE i = Len(Purged(l)) + 1
      <4>1. waiting'[k][i] = w /\ wl[w] = l
        BY <1>6, <2>2, <3>3 DEF l
      <4> QED
        BY <1>1, <1>4, <1>5, <2>2, <4>1, Zenon
    <3> QED
      BY <3>1, <3>2, <3>3
  <2> QED
    BY <2>1, <2>2
<1>9. ASSUME NEW k \in Listeners, NEW i \in 1..Len(waiting'[k]), NEW j \in 1..Len(waiting'[k]),
             waiting'[k][i] = waiting'[k][j]
      PROVE  i = j
  <2>1. CASE k # l
    BY <1>6, <1>9, <2>1 DEF QueueInv
  <2>2. CASE k = l
    <3>1. /\ i \in 1..Len(Purged(l)) \/ i = Len(Purged(l)) + 1
          /\ j \in 1..Len(Purged(l)) \/ j = Len(Purged(l)) + 1
      BY <1>2, <1>6, <1>9, <2>2
    <3> QED
      BY <1>3, <1>6, <1>7, <1>9, <2>2, <3>1
  <2> QED
    BY <2>1, <2>2, Zenon
<1>10. \A x \in Waiters : acquired'[x] => wpc'[x] \notin Outside
  BY <1>1, <1>4 DEF QueueInv
<1> QED
  BY <1>1, <1>8, <1>9, <1>10 DEF QueueInv

(* acquireWaitingConn hands out the head of the queue.                     *)
LEMMA QueueTakes ==
    ASSUME CountInv, QueueInv, NEW h \in Incoming, AcquireTakes(h) PROVE QueueInv'
<1> DEFINE l == hl[h]
           q == Purged(l)
           w == Head(q)
<1> TypeOK /\ l \in Listeners /\ q # <<>>
  BY Zenon DEF CountInv, ReferencesInv, HandlerReferences, AcquireTakes
<1>1. /\ waiting' = [waiting EXCEPT ![l] = Tail(q)]
      /\ acquired' = [acquired EXCEPT ![w] = TRUE]
      /\ hw' = [hw EXCEPT ![h] = w]
      /\ wpc' = WakeWaiters(l)
      /\ wl' = wl
  BY Zenon DEF AcquireTakes, Popped
<1>2. waiting[l] \in Seq(Waiters) /\ q \in Seq(Waiters)
  BY PurgedFacts DEF TypeOK
<1>3. /\ \A n \in 1..Len(q) : \E i \in 1..Len(waiting[l]) : q[n] = waiting[l][i]
      /\ \A m, n \in 1..Len(q) : q[m] = q[n] => m = n
  <2>1. \A i, j \in 1..Len(waiting[l]) : waiting[l][i] = waiting[l][j] => i = j
    BY Zenon DEF QueueInv
  <2>2. \A n \in 1..Len(q) : \E i \in 1..Len(waiting[l]) : q[n] = waiting[l][i]
    BY <1>2, PurgedFacts, Zenon
  <2>3. \A m, n \in 1..Len(q) : q[m] = q[n] => m = n
    BY <1>2, <2>1, PurgedFacts, Zenon
  <2> QED
    BY <2>2, <2>3, Zenon
<1>4. \A n \in 1..Len(q) : /\ q[n] \in Waiters
                            /\ wl[q[n]] = l
                            /\ ~acquired[q[n]]
                            /\ wpc[q[n]] \notin Outside
  BY <1>2, <1>3 DEF QueueInv
<1>5. \A x \in Waiters : wpc[x] \notin Outside => wpc'[x] \notin Outside
  BY <1>1, WakeKeepsPlaces, Zenon DEF TypeOK
<1> HIDE DEF l, q
<1>6. 1 \in 1..Len(q) /\ w = q[1]
  BY <1>2
<1>7. /\ Len(Tail(q)) = Len(q) - 1
      /\ \A n \in 1..Len(Tail(q)) : n + 1 \in 1..Len(q) /\ Tail(q)[n] = q[n + 1]
  BY <1>2
<1> HIDE DEF w
<1>8. /\ w \in Waiters /\ wl[w] = l /\ ~acquired[w] /\ wpc[w] \notin Outside
      /\ \A n \in 1..Len(Tail(q)) : Tail(q)[n] # w
  <2>1. w \in Waiters /\ wl[w] = l /\ ~acquired[w] /\ wpc[w] \notin Outside
    BY <1>4, <1>6, Zenon
  <2>2. \A n \in 1..Len(Tail(q)) : Tail(q)[n] # w
    BY <1>2, <1>3, <1>6, <1>7
  <2> QED
    BY <2>1, <2>2
<1>9. ASSUME NEW k \in Listeners, NEW i \in 1..Len(waiting'[k])
      PROVE  /\ wl'[waiting'[k][i]] = k
             /\ ~acquired'[waiting'[k][i]]
             /\ wpc'[waiting'[k][i]] \notin Outside
  <2>1. PICK x \in Waiters : /\ x = waiting'[k][i] /\ wl[x] = k /\ ~acquired[x]
                             /\ wpc[x] \notin Outside /\ x # w
    <3>1. CASE k # l
      <4>1. waiting'[k] = waiting[k] /\ waiting[k][i] \in Waiters
        BY <1>1, <1>9, <3>1 DEF TypeOK
      <4>2. wl[waiting[k][i]] = k /\ ~acquired[waiting[k][i]] /\ wpc[waiting[k][i]] \notin Outside
        BY <1>9, <4>1, Zenon DEF QueueInv
      <4> QED
        BY <1>8, <3>1, <4>1, <4>2, Zenon
    <3>2. CASE k = l
      <4>1. waiting'[k] = Tail(q)
        BY <1>1, <3>2 DEF TypeOK
      <4>2. waiting'[k][i] = q[i + 1] /\ i + 1 \in 1..Len(q)
        BY <1>7, <1>9, <4>1
      <4> QED
        BY <1>4, <1>8, <1>9, <3>2, <4>1, <4>2, Zenon
    <3> QED
      BY <3>1, <3>2
  <2> QED
    BY <1>1, <1>5, <2>1, Zenon DEF TypeOK
<1>10. ASSUME NEW k \in Listeners, NEW i \in 1..Len(waiting'[k]), NEW j \in 1..Len(waiting'[k]),
              waiting'[k][i] = waiting'[k][j]
       PROVE  i = j
  <2>1. CASE k # l
    <3>1. waiting'[k] = waiting[k]
      BY <1>1, <2>1, Zenon DEF TypeOK
    <3>2. \A m, n \in 1..Len(waiting[k]) : waiting[k][m] = waiting[k][n] => m = n
      BY <1>10 DEF QueueInv
    <3> QED
      BY <1>10, <3>1, <3>2, Zenon
  <2>2. CASE k = l
    <3>1. waiting'[k] = Tail(q)
      BY <1>1, <2>2 DEF TypeOK
    <3>2. q[i + 1] = q[j + 1] /\ i + 1 \in 1..Len(q) /\ j + 1 \in 1..Len(q)
      BY <1>7, <1>10, <3>1
    <3>3. i + 1 = j + 1
      BY <1>3, <3>2, Zenon
    <3> QED
      BY <3>3
  <2> QED
    BY <2>1, <2>2
<1>11. \A x \in Waiters : acquired'[x] => wpc'[x] \notin Outside
  BY <1>1, <1>5, <1>8 DEF QueueInv, TypeOK
<1>12. \A g \in Incoming : hw'[g] # None => acquired'[hw'[g]]
  BY <1>1, <1>8 DEF QueueInv, TypeOK
<1>13. \A f, g \in Incoming : hw'[f] # None /\ hw'[f] = hw'[g] => f = g
  <2>1. \A g \in Incoming : hw[g] # w
    <3>1. w # None
      BY <1>8, ConstantsAssumption
    <3> QED
      BY <1>8, <3>1 DEF QueueInv
  <2> QED
    BY <1>1, <2>1 DEF QueueInv, TypeOK
<1> QED
  BY <1>9, <1>10, <1>11, <1>12, <1>13, Zenon DEF QueueInv

(* Every step but an append and a take at most purges queues.              *)
LEMMA LinesStep ==
    ASSUME CountInv, [Next]_vars
    PROVE  \/ KeepsLines
           \/ \E w \in Waiters : EnqueueAppend(w)
           \/ \E h \in Incoming : AcquireTakes(h)
<1>1. ASSUME NEW w \in Waiters, ClientMoves(w) PROVE KeepsLines
  BY <1>1, Zenon DEF ClientMoves, KeepsLines, KeepsPlaces, Outside
<1>2. ASSUME NEW h \in Incoming, HandlerMoves(h) PROVE KeepsLines
  BY <1>2, Zenon DEF HandlerMoves, KeepsLines, KeepsPlaces
<1>3. ASSUME NEW l \in Listeners, Purging(l) PROVE KeepsLines
  <2>1. \A k \in Listeners : waiting'[k] \in {waiting[k], Purged(k)}
    BY <1>3, Zenon DEF Purging, CountInv, TypeOK
  <2>2. KeepsPlaces
    BY <1>3 DEF Purging, Woken, KeepsPlaces, Outside
  <2> QED
    BY <1>3, <2>1, <2>2, Zenon DEF Purging, KeepsLines
<1>4. ASSUME NEW l \in Listeners, Broadcasting(l) PROVE KeepsLines
  <2>1. KeepsPlaces
    BY <1>4, Zenon DEF Broadcasting, Woken, KeepsPlaces, Outside
  <2> QED
    BY <1>4, <2>1, Zenon DEF Broadcasting, KeepsLines
<1>5. ASSUME Rests PROVE KeepsLines
  BY <1>5, Zenon DEF Rests, KeepsLines, KeepsPlaces
<1> QED
  BY <1>1, <1>2, <1>3, <1>4, <1>5, Kinds, Zenon

(* Every step keeps the queues and what was handed out of them in order.   *)
LEMMA QueueStep == CountInv /\ QueueInv /\ [Next]_vars => QueueInv'
  BY LinesStep, LinesKept, QueueAppends, QueueTakes, Zenon

(* Facts about the queues that every step leaves alone or shortens.        *)
LEMMA QueueTypes ==
    ASSUME CountInv, QueueInv
    PROVE  /\ \A l \in Listeners :
                  /\ waiting[l] \in Seq(Waiters)
                  /\ Len(waiting[l]) \in Nat
                  /\ \A i \in 1..Len(waiting[l]) : /\ waiting[l][i] \in Waiters
                                                   /\ wl[waiting[l][i]] = l
                                                   /\ wpc[waiting[l][i]] \notin Outside
           /\ \A w \in Waiters : wpc[w] \in {"enq", "enqSleep"} => wl[w] \in Listeners
           /\ \A h \in Incoming : hpc[h] \in {"acq", "acqSleep"} => hl[h] \in Listeners
<1>1. TypeOK /\ WaiterReferences /\ HandlerReferences
  BY DEF CountInv, ReferencesInv
<1>2. \A l \in Listeners : waiting[l] \in Seq(Waiters)
  BY <1>1 DEF TypeOK
<1>3. \A l \in Listeners : /\ Len(waiting[l]) \in Nat
                           /\ \A i \in 1..Len(waiting[l]) : waiting[l][i] \in Waiters
  <2>1. \A q \in Seq(Waiters) : Len(q) \in Nat /\ \A i \in 1..Len(q) : q[i] \in Waiters
    OBVIOUS
  <2> QED
    BY <1>2, <2>1, Zenon
<1>4. \A l \in Listeners : \A i \in 1..Len(waiting[l]) :
          wl[waiting[l][i]] = l /\ wpc[waiting[l][i]] \notin Outside
  BY Zenon DEF QueueInv
<1>5. /\ \A w \in Waiters : wpc[w] \in {"enq", "enqSleep"} => wl[w] \in Listeners
      /\ \A h \in Incoming : hpc[h] \in {"acq", "acqSleep"} => hl[h] \in Listeners
  BY <1>1, Zenon DEF WaiterReferences, HandlerReferences
<1> QED
  BY <1>2, <1>3, <1>4, <1>5, Zenon

(* The positions of a queue.                                               *)
LEMMA QueueDomains ==
    ASSUME CountInv, QueueInv
    PROVE  \A l \in Listeners : DOMAIN waiting[l] = 1..Len(waiting[l])
<1>1. \A l \in Listeners : waiting[l] \in Seq(Waiters)
  BY QueueTypes, Zenon
<1> QED
  BY <1>1

-----------------------------------------------------------------------------
(* ServedInv.                                                              *)

(* The listeners stay as they are, and no connection is accepted.          *)
KeepsListeners ==
    /\ UNCHANGED <<listeners, addr, quit, socket, loop, todo, shutting>>
    /\ \A h \in Incoming : hpc'[h] = "accepted" => hpc[h] = "accepted" /\ hl'[h] = hl[h]

(* A step that keeps the listeners as they are keeps ServedInv.            *)
LEMMA ListenersKept == ServedInv /\ KeepsListeners => ServedInv'
<1> SUFFICES ASSUME ServedInv, KeepsListeners PROVE ServedInv'
  OBVIOUS
<1>1. RegisteredIsServed'
  BY Zenon DEF ServedInv, KeepsListeners, RegisteredIsServed
<1>2. /\ UNCHANGED <<listeners, addr, quit, loop, todo, shutting>>
      /\ \A h \in Incoming : hpc'[h] = "accepted" => hpc[h] = "accepted" /\ hl'[h] = hl[h]
  BY Zenon DEF KeepsListeners
<1>3. \A k : Registered(k)' <=> Registered(k)
  BY <1>2, Zenon DEF Registered
<1>4. /\ (\A c \in Closers : \A l \in todo[c] : addr[l] # None /\ ~Registered(l))'
      /\ (\A c \in Closers : shutting[c] # None =>
              addr[shutting[c]] # None /\ ~Registered(shutting[c]))'
  BY <1>2, <1>3, Zenon DEF ServedInv
<1>5. /\ \A l \in Listeners : (loop'[l] = "exit" => ~Registered(l)') /\ (quit'[l] => addr'[l] # None)
      /\ \A h \in Incoming : hpc'[h] = "accepted" => loop'[hl'[h]] = "begin"
      /\ \A g, h \in Incoming :
             hpc'[g] = "accepted" /\ hpc'[h] = "accepted" /\ hl'[g] = hl'[h] => g = h
  BY <1>2, <1>3, ZenonT(60) DEF ServedInv
<1> QED
  BY <1>1, <1>4, <1>5, Zenon DEF ServedInv

(* Every step keeps the listeners that clients are handed in working order *)
(* and out of the hands of those who close them.                           *)
LEMMA ServedStep == CountInv /\ ServedInv /\ [Next]_vars => ServedInv'
<1> SUFFICES ASSUME CountInv, ServedInv, [Next]_vars
             PROVE  KeepsListeners \/ ServedInv'
  BY ListenersKept
<1> /\ TypeOK /\ WaiterReferences /\ HandlerReferences /\ Allocation
    /\ None \notin Listeners /\ None \notin Addrs
  BY ConstantsAssumption DEF CountInv, ReferencesInv
<1> USE DEF managerVars, listenerVars, waiterVars, handlerVars, closerVars
<1>1. ASSUME NEW h \in Incoming, hpc'[h] = "accepted"
      PROVE  \/ hpc[h] = "accepted" /\ hl'[h] = hl[h]
             \/ /\ hl'[h] \in Listeners
                /\ loop[hl'[h]] = "accept" /\ loop'[hl'[h]] = "begin"
  <2>1. ASSUME NEW w \in Waiters, ClientMoves(w) PROVE hpc[h] = "accepted" /\ hl'[h] = hl[h]
    BY <1>1, <2>1, Zenon DEF ClientMoves
  <2>2. ASSUME NEW g \in Incoming, HandlerMoves(g)
        PROVE  \/ hpc[h] = "accepted" /\ hl'[h] = hl[h]
               \/ /\ hl'[h] \in Listeners
                  /\ loop[hl'[h]] = "accept" /\ loop'[hl'[h]] = "begin"
    BY <1>1, <2>2, Zenon DEF HandlerMoves
  <2>3. ASSUME NEW l \in Listeners, Purging(l) \/ Broadcasting(l)
        PROVE  hpc[h] = "accepted" /\ hl'[h] = hl[h]
    BY <1>1, <2>3, Zenon DEF Purging, Broadcasting, Woken
  <2>4. ASSUME NEW w \in Waiters, EnqueueAppend(w) PROVE hpc[h] = "accepted" /\ hl'[h] = hl[h]
    BY <1>1, <2>4, WakeWoken, Zenon DEF EnqueueAppend, Woken
  <2>5. ASSUME NEW g \in Incoming, AcquireTakes(g) PROVE hpc[h] = "accepted" /\ hl'[h] = hl[h]
    <3>1. /\ WakeHandlers(hl[g]) \in [Incoming -> HandlerStates]
          /\ Woken(hpc[h], WakeHandlers(hl[g])[h], "acqSleep", "acq")
      BY WakeWoken, Zenon
    <3> QED
      BY <1>1, <2>5, <3>1 DEF AcquireTakes, Woken
  <2>6. ASSUME Rests PROVE hpc[h] = "accepted" /\ hl'[h] = hl[h]
    BY <1>1, <2>6, Zenon DEF Rests
  <2> QED
    BY <2>1, <2>2, <2>3, <2>4, <2>5, <2>6, Kinds, Zenon
<1>2. ASSUME NEW w \in Waiters, NEW a \in Addrs, NEW l \in Listeners, CreateListener(w, a, l)
      PROVE  ServedInv'
  <2>1. /\ listeners' = [listeners EXCEPT ![a] = l]
        /\ addr' = [addr EXCEPT ![l] = a]
        /\ socket' = [socket EXCEPT ![l] = TRUE]
        /\ loop' = [loop EXCEPT ![l] = "accept"]
        /\ UNCHANGED <<quit, todo, shutting, hpc, hl>>
        /\ listeners[a] = None /\ addr[l] = None
    BY <1>2, Zenon DEF CreateListener
  <2>2. ~quit[l] /\ (\A c \in Closers : l \notin todo[c] /\ shutting[c] # l)
        /\ (\A h \in Incoming : hl[h] # l)
    BY <2>1 DEF ServedInv, Allocation
  <2>3. RegisteredIsServed'
    BY <2>1, <2>2 DEF ServedInv, RegisteredIsServed, TypeOK
  <2>4. \A k \in Listeners : k # l /\ ~Registered(k) => ~Registered(k)'
    BY <2>1, Zenon DEF Registered, TypeOK
  <2>5. \A k \in Listeners : k # l => addr'[k] = addr[k] /\ loop'[k] = loop[k]
    BY <2>1 DEF TypeOK
  <2>6. /\ \A c \in Closers : todo[c] \in SUBSET Listeners
        /\ \A c \in Closers : shutting[c] # None => shutting[c] \in Listeners
        /\ \A h \in Incoming : hpc[h] = "accepted" => hl[h] \in Listeners
    BY DEF TypeOK, HandlerReferences
  <2>7. loop'[l] # "exit" /\ addr'[l] # None
    BY <2>1 DEF TypeOK
  <2>8. /\ \A c \in Closers : \A k \in todo'[c] : addr'[k] # None /\ ~Registered(k)'
        /\ \A c \in Closers : shutting'[c] # None =>
               addr'[shutting'[c]] # None /\ ~Registered(shutting[c])'
    BY <2>1, <2>2, <2>4, <2>5, <2>6, ZenonT(60) DEF ServedInv
  <2>9. /\ \A k \in Listeners : loop'[k] = "exit" => ~Registered(k)'
        /\ \A k \in Listeners : quit'[k] => addr'[k] # None
    BY <2>1, <2>2, <2>4, <2>5, <2>7, ZenonT(60) DEF ServedInv
  <2>10. /\ \A h \in Incoming : hpc'[h] = "accepted" => loop'[hl'[h]] = "begin"
         /\ \A g, h \in Incoming :
                hpc'[g] = "accepted" /\ hpc'[h] = "accepted" /\ hl'[g] = hl'[h] => g = h
    BY <2>1, <2>2, <2>5, <2>6, ZenonT(60) DEF ServedInv
  <2> QED
    BY <2>3, <2>8, <2>9, <2>10, ZenonT(60) DEF ServedInv
<1>3. ASSUME UNCHANGED <<listeners, addr, quit, socket, loop, todo, shutting>>
      PROVE  KeepsListeners
  BY <1>1, <1>3, Zenon DEF KeepsListeners
<1>4. ASSUME NEW w \in Waiters,
             \/ \E a \in Addrs : ReuseListener(w, a) \/ ListenFails(w, a)
             \/ WaiterStep(w)
      PROVE  KeepsListeners
  BY <1>3, <1>4, Zenon DEF ReuseListener, ListenFails, WaiterStep, EnqueueRejected,
     EnqueueAppend, EnqueueSleep, TouchParked, WaitReturns, WaitSeesAcquired,
     WaitTimerFires, TimeoutChecks, TimeoutFinishes, TimeoutPurges
<1>5. ASSUME NEW h \in Incoming,
             \/ AcquireTakes(h) \/ AcquireGivesUp(h) \/ AcquireSleeps(h) \/ Forward(h)
             \/ FinishForwarding(h) \/ Handshake(h) \/ TimerRings(h) \/ DeadlinePasses(h)
             \/ PipeEnds(h) \/ EndIncoming(h)
      PROVE  KeepsListeners
  BY <1>3, <1>5, Zenon DEF AcquireTakes, AcquireGivesUp, AcquireSleeps, Forward,
     FinishForwarding, Handshake, TimerRings, DeadlinePasses, PipeEnds, EndIncoming
<1>6. ASSUME NEW l \in Listeners, NEW h \in Incoming, Accept(l, h) PROVE ServedInv'
  BY <1>6 DEF Accept, ServedInv, RegisteredIsServed, Registered, HandlerReferences, TypeOK
<1>7. ASSUME NEW l \in Listeners, AcceptFails(l) PROVE ServedInv'
  BY <1>7 DEF AcceptFails, ServedInv, RegisteredIsServed, Registered, HandlerReferences, TypeOK
<1>8. ASSUME NEW h \in Incoming, beginIncoming(h) PROVE ServedInv'
  BY <1>8 DEF beginIncoming, ServedInv, RegisteredIsServed, Registered, HandlerReferences, TypeOK
<1>9. ASSUME NEW l \in Listeners, LoopUnmaps(l) PROVE ServedInv'
  BY <1>9 DEF LoopUnmaps, ServedInv, RegisteredIsServed, Registered, HandlerReferences, TypeOK
<1>10. ASSUME NEW l \in Listeners, LoopCloses(l) PROVE ServedInv'
  BY <1>10 DEF LoopCloses, ServedInv, RegisteredIsServed, Registered, HandlerReferences, TypeOK
<1>11. ASSUME NEW c \in Closers, CloserShuts(c) PROVE ServedInv'
  BY <1>11 DEF CloserShuts, ServedInv, RegisteredIsServed, Registered, HandlerReferences, TypeOK
<1>12. ASSUME NEW l \in Listeners, LoopQuits(l) PROVE ServedInv'
  <2>1. /\ UNCHANGED <<listeners, addr, socket, hl, todo, shutting>>
        /\ quit' = [quit EXCEPT ![l] = TRUE]
        /\ loop' = [loop EXCEPT ![l] = "unmap"]
        /\ hpc' = WakeHandlers(l)
        /\ loop[l] = "failed"
    BY <1>12, Zenon DEF LoopQuits, QuitAndWake
  <2>2. addr[l] # None
    BY <2>1, Zenon DEF Allocation
  <2>3. RegisteredIsServed'
    BY <2>1 DEF ServedInv, RegisteredIsServed, TypeOK
  <2>4. \A k : Registered(k)' <=> Registered(k)
    BY <2>1, Zenon DEF Registered
  <2>5. \A h \in Incoming : hpc'[h] = "accepted" => hpc[h] = "accepted"
    BY <1>1, <2>1, Zenon DEF TypeOK
  <2>6. \A h \in Incoming : hpc'[h] = "accepted" => loop'[hl'[h]] = "begin"
    <3> SUFFICES ASSUME NEW h \in Incoming, hpc[h] = "accepted" PROVE loop'[hl[h]] = "begin"
      BY <2>1, <2>5, Zenon
    <3>1. loop[hl[h]] = "begin" /\ hl[h] \in Listeners
      BY Zenon DEF ServedInv, HandlerReferences
    <3> QED
      BY <2>1, <3>1 DEF TypeOK
  <2>7. \A k \in Listeners : (quit'[k] => addr'[k] # None) /\ (loop'[k] = "exit" => ~Registered(k)')
    BY <2>1, <2>2, <2>4 DEF ServedInv, TypeOK
  <2>8. /\ (\A d \in Closers : \A k \in todo[d] : addr[k] # None /\ ~Registered(k))'
        /\ (\A d \in Closers : shutting[d] # None =>
                addr[shutting[d]] # None /\ ~Registered(shutting[d]))'
    BY <2>1, <2>4, Zenon DEF ServedInv
  <2>9. \A g, h \in Incoming :
            hpc'[g] = "accepted" /\ hpc'[h] = "accepted" /\ hl'[g] = hl'[h] => g = h
    BY <2>1, <2>5, Zenon DEF ServedInv
  <2> QED
    BY <2>3, <2>6, <2>7, <2>8, <2>9, Zenon DEF ServedInv
<1>13. ASSUME NEW c \in Closers, NEW l \in Listeners, CloserQuits(c, l) PROVE ServedInv'
  <2>1. /\ UNCHANGED <<listeners, addr, socket, loop, hl>>
        /\ quit' = [quit EXCEPT ![l] = TRUE]
        /\ todo' = [todo EXCEPT ![c] = @ \ {l}]
        /\ shutting' = [shutting EXCEPT ![c] = l]
        /\ hpc' = WakeHandlers(l)
        /\ l \in todo[c]
    BY <1>13, Zenon DEF CloserQuits, QuitAndWake
  <2>2. addr[l] # None /\ ~Registered(l)
    BY <2>1, Zenon DEF ServedInv
  <2>3. RegisteredIsServed'
    BY <2>1, <2>2 DEF ServedInv, RegisteredIsServed, Registered, TypeOK
  <2>4. \A k : Registered(k)' <=> Registered(k)
    BY <2>1, Zenon DEF Registered
  <2>5. (\A d \in Closers : \A k \in todo[d] : addr[k] # None /\ ~Registered(k))'
    BY <2>1, <2>4, Zenon DEF ServedInv, TypeOK
  <2>6. \A h \in Incoming : hpc'[h] = "accepted" => hpc[h] = "accepted"
    BY <1>1, <2>1, Zenon
  <2>7. \A k \in Listeners : (quit'[k] => addr'[k] # None) /\ (loop'[k] = "exit" => ~Registered(k)')
    BY <2>1, <2>2, <2>4, Zenon DEF ServedInv, TypeOK
  <2>8. (\A d \in Closers : shutting[d] # None =>
             addr[shutting[d]] # None /\ ~Registered(shutting[d]))'
    BY <2>1, <2>2 DEF ServedInv, Registered, TypeOK
  <2> QED
    BY <2>1, <2>3, <2>5, <2>6, <2>7, <2>8, Zenon DEF ServedInv
<1>14. ASSUME NEW l \in Listeners, Elapse(l) PROVE KeepsListeners
  BY <1>3, <1>14, Zenon DEF Elapse
<1>15. CASE reapIdleListenersOnce
  <2>1. /\ UNCHANGED <<addr, quit, socket, loop, shutting, hpc, hl>>
        /\ listeners' = [a \in Addrs |-> IF listeners[a] \in Stale THEN None ELSE listeners[a]]
        /\ todo' = [todo EXCEPT !["reaper"] = Stale]
    BY <1>15, Zenon DEF reapIdleListenersOnce
  <2>2. \A k \in Stale : k \in Listeners /\ Registered(k) /\ addr[k] # None /\ addr[k] \in Addrs
    BY Zenon DEF Stale, Registered, TypeOK
  <2>3. \A k \in Stale : ~Registered(k)'
    BY <2>1, <2>2, Zenon DEF Registered
  <2>4. \A k \in Listeners : ~Registered(k) => ~Registered(k)'
    BY <2>1, Zenon DEF Registered, TypeOK
  <2>5. RegisteredIsServed'
    BY <2>1, Zenon DEF ServedInv, RegisteredIsServed, TypeOK
  <2>6. \A c \in Closers : todo'[c] = todo[c] \/ todo'[c] = Stale
    BY <2>1, Zenon DEF TypeOK
  <2>7. /\ \A c \in Closers : todo[c] \in SUBSET Listeners
        /\ \A c \in Closers : shutting[c] # None => shutting[c] \in Listeners
    BY Zenon DEF TypeOK
  <2> QED
    BY <2>1, <2>2, <2>3, <2>4, <2>5, <2>6, <2>7, Zenon DEF ServedInv
<1>16. CASE Close
  BY <1>16 DEF Close, ServedInv, RegisteredIsServed, Registered, TypeOK, Closers
<1>17. CASE UNCHANGED vars
  BY <1>3, <1>17, Zenon DEF vars
<1> QED
  BY <1>2, <1>4, <1>5, <1>6, <1>7, <1>8, <1>9, <1>10, <1>11, <1>12, <1>13, <1>14,
     <1>15, <1>16, <1>17, Zenon
  DEF Next, Arrive, LoopStep, HandlerStep, CloserStep

-----------------------------------------------------------------------------
(* WakeInv.                                                                *)

(* Nobody falls asleep, and those who still sleep do so on a listener that *)
(* has not just quit; the queues and what is done in them stay.            *)
Quiet ==
    /\ UNCHANGED <<waiting, done>>
    /\ \A l \in Listeners : quit[l] => quit'[l]
    /\ \A w \in Waiters : wpc'[w] = "enqSleep" =>
           wpc[w] = "enqSleep" /\ wl'[w] = wl[w] /\ (quit'[wl[w]] => quit[wl[w]])
    /\ \A h \in Incoming : hpc'[h] = "acqSleep" =>
           hpc[h] = "acqSleep" /\ hl'[h] = hl[h] /\ (quit'[hl[h]] => quit[hl[h]])
    /\ \A w \in Waiters : wpc[w] = "purge" => wpc'[w] = "purge"
    /\ KeepsPlaces

(* A quiet step keeps sleepers where they are.                             *)
LEMMA WakeQuiet ==
    ASSUME CountInv, QueueInv, WakeInv, Quiet PROVE WakeInv'
<1>1. ASSUME NEW w \in Waiters, wpc'[w] = "enqSleep"
      PROVE  ~quit'[wl'[w]] /\ Len(waiting'[wl'[w]]) = WaitCap
  <2>1. waiting' = waiting /\ wl'[w] = wl[w] /\ wpc[w] = "enqSleep" /\ (quit'[wl[w]] => quit[wl[w]])
    BY <1>1, Zenon DEF Quiet
  <2>2. ~quit[wl[w]] /\ Len(waiting[wl[w]]) = WaitCap
    BY <2>1, Zenon DEF WakeInv
  <2> QED
    BY <2>1, <2>2, Zenon
<1>2. ASSUME NEW h \in Incoming, hpc'[h] = "acqSleep"
      PROVE  ~quit'[hl'[h]] /\ waiting'[hl'[h]] = <<>>
  <2>1. waiting' = waiting /\ hl'[h] = hl[h] /\ hpc[h] = "acqSleep" /\ (quit'[hl[h]] => quit[hl[h]])
    BY <1>2, Zenon DEF Quiet
  <2>2. ~quit[hl[h]] /\ waiting[hl[h]] = <<>>
    BY <2>1, Zenon DEF WakeInv
  <2> QED
    BY <2>1, <2>2, Zenon
<1>3. \A l \in Listeners : Len(waiting'[l]) <= WaitCap
  BY Zenon DEF Quiet, WakeInv
<1>4. \A l \in Listeners : \A i \in 1..Len(waiting'[l]) :
          done'[waiting'[l][i]] => quit'[l] \/ wpc'[waiting'[l][i]] = "purge"
  BY QueueTypes, Zenon DEF Quiet, WakeInv
<1>5. \A w \in Waiters : done'[w] => wpc'[w] \notin Outside
  BY Zenon DEF Quiet, KeepsPlaces, WakeInv
<1> QED
  BY <1>1, <1>2, <1>3, <1>4, <1>5, Zenon DEF WakeInv

(* A parked connection becomes done: on a timeout, whose purge follows, or *)
(* when it is in no queue, or in that of a listener that has quit.         *)
Finishes(x) ==
    /\ UNCHANGED <<waiting, quit, wl, hl>>
    /\ done' = [done EXCEPT ![x] = TRUE]
    /\ \A w \in Waiters : wpc'[w] = wpc[w] \/ (w = x /\ wpc'[w] \in {"purge", "returned"})
    /\ \A h \in Incoming : hpc'[h] = "acqSleep" => hpc[h] = "acqSleep"
    /\ wpc[x] \notin Outside
    /\ wpc[x] = "purge" => wpc'[x] = "purge"
    /\ wpc'[x] = "purge" \/ acquired[x] \/ done[x] \/ quit[wl[x]]

(* Finishing one waiter disturbs no sleeper.                               *)
LEMMA WakeFinishes ==
    ASSUME CountInv, QueueInv, WakeInv, NEW x \in Waiters, Finishes(x) PROVE WakeInv'
<1>0. TypeOK /\ KeepsPlaces
  BY ZenonT(60) DEF CountInv, KeepsPlaces, Finishes, Outside
<1>1. \A w \in Waiters : wpc'[w] = "enqSleep" =>
          ~quit'[wl'[w]] /\ Len(waiting'[wl'[w]]) = WaitCap
  BY DEF Finishes, WakeInv
<1>2. \A h \in Incoming : hpc'[h] = "acqSleep" => ~quit'[hl'[h]] /\ waiting'[hl'[h]] = <<>>
  BY Zenon DEF Finishes, WakeInv
<1>3. \A l \in Listeners : Len(waiting'[l]) <= WaitCap
  BY Zenon DEF Finishes, WakeInv
<1>4. ASSUME NEW l \in Listeners, NEW i \in 1..Len(waiting'[l]), done'[waiting'[l][i]]
      PROVE  quit'[l] \/ wpc'[waiting'[l][i]] = "purge"
  <2>1. /\ waiting' = waiting /\ quit' = quit
        /\ i \in 1..Len(waiting[l])
        /\ waiting[l][i] \in Waiters /\ wl[waiting[l][i]] = l
        /\ ~acquired[waiting[l][i]]
    BY <1>4, QueueTypes, ZenonT(60) DEF Finishes, QueueInv
  <2>2. CASE waiting[l][i] = x
    <3>1. done[x] => quit[l] \/ wpc[x] = "purge"
      BY <1>4, <2>1, <2>2, Zenon DEF WakeInv
    <3> QED
      BY <2>1, <2>2, <3>1, Zenon DEF Finishes
  <2>3. CASE waiting[l][i] # x
    <3>1. done[waiting[l][i]] /\ wpc'[waiting[l][i]] = wpc[waiting[l][i]]
      BY <1>0, <1>4, <2>1, <2>3, Zenon DEF Finishes, TypeOK
    <3> QED
      BY <1>4, <2>1, <3>1, Zenon DEF WakeInv
  <2> QED
    BY <2>2, <2>3
<1>5. \A w \in Waiters : done'[w] => wpc'[w] \notin Outside
  BY <1>0 DEF Finishes, KeepsPlaces, WakeInv, TypeOK
<1> QED
  BY <1>1, <1>2, <1>3, <1>4, <1>5, Zenon DEF WakeInv

(* A purge of l's queue.  Those who sleep on l afterwards slept before and *)
(* nothing was purged, or fell asleep on what the purge left.              *)
Purges(l) ==
    /\ waiting' = [waiting EXCEPT ![l] = Purged(l)]
    /\ UNCHANGED <<quit, wl, hl>>
    /\ \A w \in Waiters : wpc'[w] = "enqSleep" =>
           \/ wpc[w] = "enqSleep" /\ (wl[w] = l => Purged(l) = waiting[l])
           \/ wl[w] = l /\ ~quit[l] /\ Len(Purged(l)) >= WaitCap
    /\ \A h \in Incoming : hpc'[h] = "acqSleep" =>
           \/ hpc[h] = "acqSleep" /\ (hl[h] = l => Purged(l) = waiting[l])
           \/ hl[h] = l /\ ~quit[l] /\ Purged(l) = <<>>
    /\ \A w \in Waiters : wpc[w] = "purge" => wpc'[w] = "purge" \/ wl[w] = l
    /\ \A w \in Waiters : done'[w] => done[w] \/ (wpc[w] \in Outside /\ wpc'[w] \notin Outside)
    /\ KeepsPlaces

(* A purge wakes those it makes room for, and only lets sleep who must.    *)
LEMMA WakePurges ==
    ASSUME CountInv, QueueInv, WakeInv, NEW l \in Listeners, Purges(l) PROVE WakeInv'
<1>0. /\ WaitCap \in Nat /\ TypeOK
      /\ waiting'[l] = Purged(l)
      /\ \A k \in Listeners : k # l => waiting'[k] = waiting[k]
  BY ConstantsAssumption DEF CountInv, TypeOK, Purges
<1>1. /\ Purged(l) \in Seq(Waiters) /\ Len(Purged(l)) \in Nat
      /\ Len(Purged(l)) <= Len(waiting[l])
      /\ \A n \in 1..Len(Purged(l)) : \E i \in 1..Len(waiting[l]) :
             Purged(l)[n] = waiting[l][i] /\ ~done[waiting[l][i]]
  <2>1. waiting[l] \in Seq(Waiters)
    BY QueueTypes
  <2>2. Purged(l) \in Seq(Waiters)
    BY <2>1, PurgedFacts, Zenon
  <2>3. Len(Purged(l)) \in Nat
    BY <2>2
  <2>4. /\ Len(Purged(l)) <= Len(waiting[l])
        /\ \A n \in 1..Len(Purged(l)) : \E i \in 1..Len(waiting[l]) :
               Purged(l)[n] = waiting[l][i] /\ ~done[waiting[l][i]]
    BY <2>1, PurgedFacts, Zenon
  <2> QED
    BY <2>2, <2>3, <2>4, Zenon
<1>2. Len(waiting[l]) \in Nat /\ Len(waiting[l]) <= WaitCap
  BY QueueTypes, ZenonT(60) DEF WakeInv
<1>3. ASSUME NEW w \in Waiters, wpc'[w] = "enqSleep"
      PROVE  ~quit'[wl'[w]] /\ Len(waiting'[wl'[w]]) = WaitCap
  <2>1. CASE wpc[w] = "enqSleep" /\ (wl[w] = l => Purged(l) = waiting[l])
    <3>1. wl[w] \in Listeners /\ ~quit[wl[w]] /\ Len(waiting[wl[w]]) = WaitCap
      BY <2>1, QueueTypes DEF WakeInv
    <3> QED
      BY <1>0, <2>1, <3>1 DEF Purges
  <2>2. CASE wl[w] = l /\ ~quit[l] /\ Len(Purged(l)) >= WaitCap
    <3>1. Len(Purged(l)) = WaitCap
      BY <1>0, <1>1, <1>2, <2>2
    <3> QED
      BY <1>0, <2>2, <3>1, ZenonT(60) DEF Purges
  <2> QED
    BY <1>3, <2>1, <2>2 DEF Purges
<1>4. ASSUME NEW h \in Incoming, hpc'[h] = "acqSleep"
      PROVE  ~quit'[hl'[h]] /\ waiting'[hl'[h]] = <<>>
  <2>1. CASE hpc[h] = "acqSleep" /\ (hl[h] = l => Purged(l) = waiting[l])
    <3>1. hl[h] \in Listeners /\ ~quit[hl[h]] /\ waiting[hl[h]] = <<>>
      BY <2>1, QueueTypes DEF WakeInv
    <3> QED
      BY <1>0, <2>1, <3>1 DEF Purges
  <2>2. CASE hl[h] = l /\ ~quit[l] /\ Purged(l) = <<>>
    BY <1>0, <2>2 DEF Purges
  <2> QED
    BY <1>4, <2>1, <2>2 DEF Purges
<1>5. \A k \in Listeners : Len(waiting'[k]) <= WaitCap
  BY <1>0, <1>1, <1>2 DEF WakeInv
<1>6. ASSUME NEW k \in Listeners, NEW i \in 1..Len(waiting'[k]), done'[waiting'[k][i]]
      PROVE  quit'[k] \/ wpc'[waiting'[k][i]] = "purge"
  <2>1. \A j \in 1..Len(waiting[k]) : /\ waiting[k][j] \in Waiters
                                      /\ wl[waiting[k][j]] = k
                                      /\ wpc[waiting[k][j]] \notin Outside
    BY QueueTypes
  <2>2. \A j \in 1..Len(waiting[k]) : done'[waiting[k][j]] => done[waiting[k][j]]
    BY <2>1, Zenon DEF Purges
  <2>3. CASE k # l
    <3>1. waiting'[k] = waiting[k] /\ i \in 1..Len(waiting[k])
      BY <1>0, <1>6, <2>3
    <3>2. quit[k] \/ wpc[waiting[k][i]] = "purge"
      BY <1>6, <2>2, <3>1, Zenon DEF WakeInv
    <3> QED
      BY <2>1, <2>3, <3>1, <3>2, Zenon DEF Purges
  <2>4. CASE k = l
    <3>1. waiting'[k] = Purged(l)
      BY <1>0, <2>4
    <3>2. PICK j \in 1..Len(waiting[l]) : waiting'[k][i] = waiting[l][j] /\ ~done[waiting[l][j]]
      BY <1>1, <1>6, <3>1
    <3> QED
      BY <1>6, <2>2, <2>4, <3>2, Zenon
  <2> QED
    BY <2>3, <2>4
<1>7. \A w \in Waiters : done'[w] => wpc'[w] \notin Outside
  BY Zenon DEF Purges, KeepsPlaces, WakeInv
<1> QED
  BY <1>3, <1>4, <1>5, <1>6, <1>7, Zenon DEF WakeInv

(* The queue of l changes and everybody who slept on it is awake.          *)
Rouses(l) ==
    /\ \A k \in Listeners : k # l => waiting'[k] = waiting[k]
    /\ Len(waiting'[l]) <= WaitCap
    /\ \A i \in 1..Len(waiting'[l]) : ~done[waiting'[l][i]]
    /\ UNCHANGED <<quit, wl, hl, done>>
    /\ \A w \in Waiters : wpc'[w] = "enqSleep" => wpc[w] = "enqSleep" /\ wl[w] # l
    /\ \A h \in Incoming : hpc'[h] = "acqSleep" => hpc[h] = "acqSleep" /\ hl[h] # l
    /\ \A w \in Waiters : wpc[w] = "purge" => wpc'[w] = "purge"
    /\ KeepsPlaces

(* Waking everyone on a queue leaves nobody asleep before a change.        *)
LEMMA WakeRouses ==
    ASSUME CountInv, QueueInv, WakeInv, NEW l \in Listeners, Rouses(l) PROVE WakeInv'
<1>1. \A w \in Waiters : wpc'[w] = "enqSleep" =>
          ~quit'[wl'[w]] /\ Len(waiting'[wl'[w]]) = WaitCap
  BY QueueTypes DEF Rouses, WakeInv
<1>2. \A h \in Incoming : hpc'[h] = "acqSleep" => ~quit'[hl'[h]] /\ waiting'[hl'[h]] = <<>>
  BY QueueTypes DEF Rouses, WakeInv
<1>3. \A k \in Listeners : Len(waiting'[k]) <= WaitCap
  BY DEF Rouses, WakeInv
<1>4. ASSUME NEW k \in Listeners, NEW i \in 1..Len(waiting'[k]), done'[waiting'[k][i]]
      PROVE  quit'[k] \/ wpc'[waiting'[k][i]] = "purge"
  <2>1. k # l
    BY <1>4 DEF Rouses
  <2>2. waiting'[k] = waiting[k] /\ i \in 1..Len(waiting[k]) /\ waiting[k][i] \in Waiters
    BY <1>4, <2>1, QueueTypes DEF Rouses
  <2>3. quit[k] \/ wpc[waiting[k][i]] = "purge"
    BY <1>4, <2>2 DEF WakeInv, Rouses
  <2> QED
    BY <2>2, <2>3, Zenon DEF Rouses
<1>5. \A w \in Waiters : done'[w] => wpc'[w] \notin Outside
  BY Zenon DEF Rouses, KeepsPlaces, WakeInv
<1> QED
  BY <1>1, <1>2, <1>3, <1>4, <1>5, Zenon DEF WakeInv

(* EnqueueAppend wakes every handler asleep on the queue it appends to.    *)
LEMMA WakeAppends ==
    ASSUME CountInv, QueueInv, WakeInv, NEW w \in Waiters, EnqueueAppend(w) PROVE WakeInv'
<1> DEFINE l == wl[w]
           q == Purged(l)
<1> TypeOK /\ WaitCap \in Nat /\ l \in Listeners /\ wpc[w] = "enq"
  BY ConstantsAssumption DEF CountInv, ReferencesInv, WaiterReferences, EnqueueAppend
<1>1. /\ waiting' = [waiting EXCEPT ![l] = Append(q, w)]
      /\ Len(q) < WaitCap
      /\ wpc' = [WakeWaiters(l) EXCEPT ![w] = "touch"]
      /\ hpc' = WakeHandlers(l)
      /\ UNCHANGED <<quit, wl, hl, done>>
  BY DEF EnqueueAppend
<1>2. waiting[l] \in Seq(Waiters)
  BY QueueTypes
<1>3. q \in Seq(Waiters) /\ \A n \in 1..Len(q) : ~done[q[n]]
  <2>1. q \in Seq(Waiters)
    BY <1>2, PurgedFacts, Zenon
  <2>2. \A n \in 1..Len(q) : \E i \in 1..Len(waiting[l]) : q[n] = waiting[l][i] /\ ~done[waiting[l][i]]
    BY <1>2, PurgedFacts, Zenon
  <2> QED
    BY <2>1, <2>2, Zenon
<1>4. ~done[w]
  BY DEF WakeInv, Outside
<1>5. \A x \in Waiters : WakeWaiters(l)[x] =
          IF wpc[x] = "enqSleep" /\ wl[x] = l THEN "enq" ELSE wpc[x]
  BY WakeFacts, Zenon
<1>6. \A h \in Incoming : WakeHandlers(l)[h] =
          IF hpc[h] = "acqSleep" /\ hl[h] = l THEN "acq" ELSE hpc[h]
  BY WakeFacts, Zenon
<1>7. WakeWaiters(l) \in [Waiters -> WaiterStates]
  BY WakeFacts, Zenon
<1> HIDE DEF l, q
<1>8. /\ \A k \in Listeners : k # l => waiting'[k] = waiting[k]
      /\ waiting'[l] = Append(q, w)
  BY <1>1 DEF TypeOK
<1>9. Len(waiting'[l]) <= WaitCap /\ \A i \in 1..Len(waiting'[l]) : ~done[waiting'[l][i]]
  <2> DEFINE r == Append(q, w)
  <2>1. /\ Len(q) \in Nat
        /\ Len(r) = Len(q) + 1
        /\ \A i \in 1..Len(q) : r[i] = q[i]
        /\ r[Len(q) + 1] = w
    BY <1>3
  <2> HIDE DEF r
  <2>2. waiting'[l] = r
    BY <1>8 DEF r
  <2>3. Len(r) <= WaitCap
    <3>1. WaitCap \in Nat /\ Len(q) < WaitCap
      BY <1>1, Zenon
    <3> QED
      BY <3>1, <2>1
  <2>4. ASSUME NEW i \in 1..Len(r) PROVE ~done[r[i]]
    <3>1. i \in 1..Len(q) \/ i = Len(q) + 1
      BY <2>1
    <3> QED
      BY <3>1, <2>1, <1>3, <1>4, Zenon
  <2> QED
    BY <2>2, <2>3, <2>4, Zenon
<1>10. \A x \in Waiters : wpc'[x] = IF x = w THEN "touch" ELSE WakeWaiters(l)[x]
  BY <1>1, <1>7, Zenon
<1>11. /\ \A x \in Waiters : wpc'[x] = "enqSleep" => wpc[x] = "enqSleep" /\ wl[x] # l
       /\ \A x \in Waiters : wpc[x] = "purge" => wpc'[x] = "purge"
       /\ \A x \in Waiters : wpc[x] \notin Outside => wpc'[x] \notin Outside
  BY <1>5, <1>10 DEF Outside
<1>12. \A h \in Incoming : hpc'[h] = "acqSleep" => hpc[h] = "acqSleep" /\ hl[h] # l
  BY <1>1, <1>6
<1>13. Rouses(l)
  BY <1>1, <1>8, <1>9, <1>11, <1>12, Zenon DEF Rouses, KeepsPlaces
<1> QED
  BY <1>13, WakeRouses

(* AcquireTakes wakes every client asleep on the queue it takes from.      *)
LEMMA WakeTakes ==
    ASSUME CountInv, QueueInv, WakeInv, NEW h \in Incoming, AcquireTakes(h) PROVE WakeInv'
<1> DEFINE l == hl[h]
           q == Purged(l)
<1> TypeOK /\ WaitCap \in Nat /\ l \in Listeners /\ q # <<>>
  BY ConstantsAssumption DEF CountInv, ReferencesInv, HandlerReferences, AcquireTakes
<1>1. /\ waiting' = [waiting EXCEPT ![l] = Tail(q)]
      /\ wpc' = WakeWaiters(l)
      /\ hpc' = [WakeHandlers(l) EXCEPT ![h] = "forward"]
      /\ UNCHANGED <<quit, wl, hl, done>>
  BY Zenon DEF AcquireTakes, Popped
<1>2. waiting[l] \in Seq(Waiters) /\ Len(waiting[l]) \in Nat /\ Len(waiting[l]) <= WaitCap
  BY QueueTypes, Zenon DEF WakeInv
<1>3. /\ q \in Seq(Waiters) /\ Len(q) <= Len(waiting[l])
      /\ \A n \in 1..Len(q) : ~done[q[n]]
  <2>1. q \in Seq(Waiters) /\ Len(q) <= Len(waiting[l])
    BY <1>2, PurgedFacts, Zenon
  <2>2. \A n \in 1..Len(q) : \E i \in 1..Len(waiting[l]) : q[n] = waiting[l][i] /\ ~done[waiting[l][i]]
    BY <1>2, PurgedFacts, Zenon
  <2> QED
    BY <2>1, <2>2, Zenon
<1>5. \A x \in Waiters : WakeWaiters(l)[x] =
          IF wpc[x] = "enqSleep" /\ wl[x] = l THEN "enq" ELSE wpc[x]
  BY WakeFacts, Zenon
<1>6. \A g \in Incoming : WakeHandlers(l)[g] =
          IF hpc[g] = "acqSleep" /\ hl[g] = l THEN "acq" ELSE hpc[g]
  BY WakeFacts, Zenon
<1>7. WakeHandlers(l) \in [Incoming -> HandlerStates]
  BY WakeFacts, Zenon
<1> HIDE DEF l, q
<1>8. /\ \A k \in Listeners : k # l => waiting'[k] = waiting[k]
      /\ waiting'[l] = Tail(q)
  BY <1>1 DEF TypeOK
<1>9. Len(waiting'[l]) <= WaitCap /\ \A i \in 1..Len(waiting'[l]) : ~done[waiting'[l][i]]
  BY <1>2, <1>3, <1>8
<1>10. \A g \in Incoming : hpc'[g] = IF g = h THEN "forward" ELSE WakeHandlers(l)[g]
  BY <1>1, <1>7, Zenon
<1>11. /\ \A x \in Waiters : wpc'[x] = "enqSleep" => wpc[x] = "enqSleep" /\ wl[x] # l
       /\ \A x \in Waiters : wpc[x] = "purge" => wpc'[x] = "purge"
       /\ \A x \in Waiters : wpc[x] \notin Outside => wpc'[x] \notin Outside
  BY <1>1, <1>5, Zenon DEF Outside
<1>12. \A g \in Incoming : hpc'[g] = "acqSleep" => hpc[g] = "acqSleep" /\ hl[g] # l
  BY <1>6, <1>10
<1>13. Rouses(l)
  BY <1>1, <1>8, <1>9, <1>11, <1>12, Zenon DEF Rouses, KeepsPlaces
<1> QED
  BY <1>13, WakeRouses, ZenonT(60)

(* Every step keeps sleepers where there is nothing for them to do.        *)
LEMMA WakeStep == CountInv /\ QueueInv /\ WakeInv /\ [Next]_vars => WakeInv'
<1> SUFFICES ASSUME CountInv, QueueInv, WakeInv, [Next]_vars
             PROVE  \/ Quiet \/ WakeInv'
                    \/ (\E x \in Waiters : Finishes(x)) \/ (\E l \in Listeners : Purges(l))
  BY WakeQuiet, WakeFinishes, WakePurges, Zenon
<1>1. ASSUME NEW w \in Waiters, ClientMoves(w) PROVE Quiet \/ Finishes(w)
  <2>1. CASE done' = done
    BY <1>1, <2>1, Zenon DEF ClientMoves, Quiet, KeepsPlaces, Outside
  <2>2. CASE done' # done
    BY <1>1, <2>2, Zenon DEF ClientMoves, Finishes, Outside
  <2> QED
    BY <2>1, <2>2
<1>2. ASSUME NEW h \in Incoming, HandlerMoves(h) PROVE Quiet \/ \E x \in Waiters : Finishes(x)
  <2>1. CASE done' = done
    BY <1>2, <2>1, Zenon DEF HandlerMoves, Quiet, KeepsPlaces
  <2>2. CASE done' # done
    <3>1. hw[h] \in Waiters /\ hw[h] # None
      BY <1>2, <2>2, ConstantsAssumption, Zenon
      DEF HandlerMoves, CountInv, ReferencesInv, HandlerReferences, Holding
    <3>2. acquired[hw[h]] /\ wpc[hw[h]] \notin Outside
      BY <3>1, Zenon DEF QueueInv
    <3> QED
      BY <1>2, <2>2, <3>1, <3>2, Zenon DEF HandlerMoves, Finishes
  <2> QED
    BY <2>1, <2>2
<1>3. ASSUME NEW l \in Listeners, Purging(l) PROVE Purges(l)
  <2>1. /\ \A x \in Waiters : wpc'[x] = "enqSleep" =>
               \/ wpc[x] = "enqSleep" /\ (wl[x] = l => Purged(l) = waiting[l])
               \/ wl[x] = l /\ ~quit[l] /\ Len(Purged(l)) >= WaitCap
        /\ \A g \in Incoming : hpc'[g] = "acqSleep" =>
               \/ hpc[g] = "acqSleep" /\ (hl[g] = l => Purged(l) = waiting[l])
               \/ hl[g] = l /\ ~quit[l] /\ Purged(l) = <<>>
    BY <1>3, Zenon DEF Purging, Woken
  <2>2. /\ \A x \in Waiters : wpc[x] = "purge" => wpc'[x] = "purge" \/ wl[x] = l
        /\ \A x \in Waiters : done'[x] => done[x] \/ (wpc[x] \in Outside /\ wpc'[x] \notin Outside)
        /\ KeepsPlaces
    BY <1>3, Zenon DEF Purging, Woken, KeepsPlaces, Outside
  <2> QED
    BY <1>3, <2>1, <2>2, Zenon DEF Purging, Purges
<1>4. ASSUME NEW l \in Listeners, Broadcasting(l) PROVE Quiet
  <2>1. /\ \A k \in Listeners : quit[k] => quit'[k]
        /\ \A k \in Listeners : k # l => quit'[k] = quit[k]
    BY <1>4, Zenon DEF Broadcasting, CountInv, TypeOK
  <2>2. /\ \A w \in Waiters : wpc'[w] = "enqSleep" =>
               wpc[w] = "enqSleep" /\ wl[w] \in Listeners /\ wl[w] # l
        /\ \A h \in Incoming : hpc'[h] = "acqSleep" =>
               hpc[h] = "acqSleep" /\ hl[h] \in Listeners /\ hl[h] # l
    BY <1>4, QueueTypes, Zenon DEF Broadcasting, Woken
  <2>3. (\A w \in Waiters : wpc[w] = "purge" => wpc'[w] = "purge") /\ KeepsPlaces
    BY <1>4, Zenon DEF Broadcasting, Woken, KeepsPlaces, Outside
  <2> QED
    BY <1>4, <2>1, <2>2, <2>3, Zenon DEF Broadcasting, Quiet
<1>5. ASSUME Rests PROVE Quiet
  BY <1>5, Zenon DEF Rests, Quiet, KeepsPlaces
<1> QED
  BY <1>1, <1>2, <1>3, <1>4, <1>5, Kinds, WakeAppends, WakeTakes, Zenon

-----------------------------------------------------------------------------
(* UseInv.                                                                 *)

Past == Holding \cup {"end", "closed"}

(* No handler starts to use a client, and none loses the one it has.       *)
KeepsHands ==
    /\ hw' = hw
    /\ \A h \in Incoming : hpc'[h] \in InUse => hpc[h] \in InUse /\ hl'[h] = hl[h]
    /\ \A h \in Incoming : hpc[h] \in Past => hpc'[h] \in Past

(* A client is usable after this step.                                     *)
UsableNext(w) ==
    IF wpc'[w] \in {"purge", "returned"} THEN ~open'[w] /\ IdleTimeout
                                       ELSE open'[w] /\ ~done'[w]

(* The handler that holds w is done with it after this step.               *)
Frees(w) == \E h \in Incoming : hw[h] = w /\ hpc'[h] \notin InUse

(* Clients in or past the queue of a listener that has not quit stay       *)
(* usable, except one that its own handler lets go of.                     *)
KeepsUse ==
    /\ \A l \in Listeners : quit[l] => quit'[l]
    /\ \A l \in Listeners : waiting'[l] \in {waiting[l], Purged(l)}
    /\ \A w \in Waiters : wpc'[w] \in Outside => wpc[w] \in Outside /\ open'[w] = open[w]
    /\ \A w \in Waiters : wpc'[w] \in {"expired", "close", "purge"} => IdleTimeout
    /\ \A w \in Waiters : wpc[w] \notin Outside => wl'[w] = wl[w]
    /\ \A w \in Waiters :
           wpc[w] \notin Outside /\ ~quit[wl[w]] /\ Usable(w) => UsableNext(w) \/ Frees(w)
    /\ KeepsHands

(* A handler that uses a client is the only one to have it, and on the     *)
(* listener the client is parked at.                                       *)
LEMMA HandFacts ==
    ASSUME CountInv, QueueInv, UseInv, NEW h \in Incoming, hpc[h] \in InUse
    PROVE  /\ hw[h] \in Waiters /\ hw[h] # None /\ acquired[hw[h]]
           /\ hl[h] \in Listeners
           /\ wl[hw[h]] = hl[h] /\ (~quit[hl[h]] => Usable(hw[h]))
           /\ wpc[hw[h]] \notin Outside
           /\ \A g \in Incoming : hw[g] = hw[h] => g = h
<1>1. hw[h] \in Waiters /\ hl[h] \in Listeners /\ hw[h] # None
  BY ConstantsAssumption DEF CountInv, ReferencesInv, HandlerReferences, InUse, Holding
<1>2. wl[hw[h]] = hl[h] /\ (~quit[hl[h]] => Usable(hw[h]))
  BY Zenon DEF UseInv
<1> QED
  BY <1>1, <1>2, Zenon DEF QueueInv

(* A step that keeps clients usable keeps UseInv.                          *)
LEMMA UseKept ==
    ASSUME CountInv, QueueInv, UseInv, KeepsUse PROVE UseInv'
<1>1. \A w \in Waiters : wpc'[w] \in Outside => open'[w]
  BY Zenon DEF UseInv, KeepsUse
<1>2. ASSUME NEW l \in Listeners, NEW i \in 1..Len(waiting'[l]), ~quit'[l]
      PROVE  UsableNext(waiting'[l][i])
  <2>1. waiting[l] \in Seq(Waiters)
    BY QueueTypes, Zenon
  <2>2. \A n \in 1..Len(Purged(l)) : \E j \in 1..Len(waiting[l]) : Purged(l)[n] = waiting[l][j]
    BY <2>1, PurgedFacts, Zenon
  <2>3. PICK j \in 1..Len(waiting[l]) : waiting'[l][i] = waiting[l][j]
    BY <1>2, <2>2, Zenon DEF KeepsUse
  <2> DEFINE x == waiting[l][j]
  <2>4. x \in Waiters /\ wl[x] = l /\ wpc[x] \notin Outside
    BY <2>3, QueueTypes, Zenon
  <2>5. ~acquired[x]
    BY <2>3, Zenon DEF QueueInv
  <2>6. ~quit[l] /\ Usable(x)
    BY <1>2, <2>3, Zenon DEF KeepsUse, UseInv
  <2>7. x # None
    BY <2>4, ConstantsAssumption
  <2>8. ~Frees(x)
    BY <2>5, <2>7, Zenon DEF Frees, QueueInv
  <2>9. UsableNext(x)
    BY <2>4, <2>6, <2>8, Zenon DEF KeepsUse
  <2> QED
    BY <2>3, <2>9, Zenon
<1>3. ASSUME NEW h \in Incoming, hpc'[h] \in InUse
      PROVE  wl'[hw'[h]] = hl'[h] /\ (~quit'[hl'[h]] => UsableNext(hw'[h]))
  <2>1. hpc[h] \in InUse /\ hl'[h] = hl[h] /\ hw'[h] = hw[h]
    BY <1>3, Zenon DEF KeepsUse, KeepsHands
  <2> DEFINE x == hw[h]
  <2>2. /\ x \in Waiters /\ wl[x] = hl[h] /\ (~quit[hl[h]] => Usable(x))
        /\ hl[h] \in Listeners /\ wpc[x] \notin Outside
        /\ \A g \in Incoming : hw[g] = x => g = h
    BY <2>1, HandFacts, Zenon
  <2>3. ~Frees(x)
    BY <1>3, <2>2, Zenon DEF Frees
  <2>4. wl'[x] = wl[x] /\ (~quit[hl[h]] => UsableNext(x))
    BY <2>2, <2>3, Zenon DEF KeepsUse
  <2>5. ~quit'[hl[h]] => ~quit[hl[h]]
    BY <2>2, Zenon DEF KeepsUse
  <2> QED
    BY <2>1, <2>2, <2>4, <2>5, Zenon
<1>4. \A h \in Incoming : hw'[h] # None => hpc'[h] \in Holding \cup {"end", "closed"}
  BY Zenon DEF UseInv, KeepsUse, KeepsHands, Past
<1>5. \A w \in Waiters : wpc'[w] \in {"expired", "close", "purge"} => IdleTimeout
  BY Zenon DEF KeepsUse
<1> QED
  BY <1>1, <1>2, <1>3, <1>4, <1>5, Zenon DEF UseInv, Usable, UsableNext

(* enqueueWaitingConn parks a client that is open and not done.            *)
LEMMA UseAppends ==
    ASSUME CountInv, QueueInv, WakeInv, UseInv, NEW w \in Waiters, EnqueueAppend(w)
    PROVE  UseInv'
<1> DEFINE l == wl[w]
           q == Purged(l)
<1> TypeOK /\ l \in Listeners /\ wpc[w] = "enq"
  BY Zenon DEF CountInv, ReferencesInv, WaiterReferences, EnqueueAppend
<1>1. /\ waiting' = [waiting EXCEPT ![l] = Append(q, w)]
      /\ wpc' = [WakeWaiters(l) EXCEPT ![w] = "touch"]
      /\ hpc' = WakeHandlers(l)
      /\ UNCHANGED <<quit, wl, hl, hw, open, done>>
  BY DEF EnqueueAppend
<1>2. waiting[l] \in Seq(Waiters)
  BY QueueTypes
<1>3. q \in Seq(Waiters)
  BY <1>2, PurgedFacts, Zenon
<1>4. \A n \in 1..Len(q) : \E i \in 1..Len(waiting[l]) : q[n] = waiting[l][i]
  BY <1>2, PurgedFacts, Zenon
<1>5. open[w] /\ ~done[w]
  BY DEF WakeInv, UseInv, Outside
<1>6. /\ WakeWaiters(l) \in [Waiters -> WaiterStates]
      /\ \A x \in Waiters : Woken(wpc[x], WakeWaiters(l)[x], "enqSleep", "enq")
      /\ \A h \in Incoming : Woken(hpc[h], WakeHandlers(l)[h], "acqSleep", "acq")
  BY WakeWoken, Zenon
<1> HIDE DEF l, q
<1>7. \A x \in Waiters : \/ x = w /\ wpc'[x] = "touch"
                         \/ Woken(wpc[x], wpc'[x], "enqSleep", "enq")
  BY <1>1, <1>6, Zenon
<1>8. \A h \in Incoming : Woken(hpc[h], hpc'[h], "acqSleep", "acq")
  BY <1>1, <1>6, Zenon
<1>9. \A x \in Waiters : Usable(x) => UsableNext(x)
  <2>1. wpc[w] \notin {"purge", "returned"}
    OBVIOUS
  <2>2. \A x \in Waiters : wpc[x] \in {"purge", "returned"} <=> wpc'[x] \in {"purge", "returned"}
    BY <1>7, <2>1 DEF Woken
  <2> QED
    BY <1>1, <2>2, Zenon DEF Usable, UsableNext
<1>10. UsableNext(w)
  BY <1>1, <1>5, <1>6, Zenon DEF UsableNext
<1>11. ASSUME NEW k \in Listeners, NEW i \in 1..Len(waiting'[k]), ~quit'[k]
       PROVE  UsableNext(waiting'[k][i])
  <2>1. \A j \in 1..Len(waiting[k]) : waiting[k][j] \in Waiters /\ Usable(waiting[k][j])
    BY <1>1, <1>11, QueueTypes, Zenon DEF UseInv
  <2>2. CASE k # l
    <3>1. waiting'[k] = waiting[k]
      BY <1>1, <2>2 DEF TypeOK
    <3> QED
      BY <1>9, <1>11, <2>1, <3>1, Zenon
  <2>3. CASE k = l
    <3>1. waiting'[k] = Append(q, w)
      BY <1>1, <2>3 DEF TypeOK
    <3>2. /\ i \in 1..Len(q) \/ i = Len(q) + 1
          /\ i \in 1..Len(q) => waiting'[k][i] = q[i]
          /\ i = Len(q) + 1 => waiting'[k][i] = w
      BY <1>3, <1>11, <3>1
    <3> QED
      BY <1>4, <1>9, <1>10, <2>1, <2>3, <3>2, Zenon
  <2> QED
    BY <2>2, <2>3
<1>12. ASSUME NEW h \in Incoming, hpc'[h] \in InUse
       PROVE  wl'[hw'[h]] = hl'[h] /\ (~quit'[hl'[h]] => UsableNext(hw'[h]))
  <2>1. hpc[h] \in InUse
    BY <1>8, <1>12 DEF Woken, InUse
  <2>2. hw[h] \in Waiters /\ wl[hw[h]] = hl[h] /\ (~quit[hl[h]] => Usable(hw[h]))
    BY <2>1, HandFacts, Zenon
  <2> QED
    BY <1>1, <1>9, <2>2, Zenon
<1>13. /\ \A x \in Waiters : wpc'[x] \in Outside => open'[x]
       /\ \A x \in Waiters : wpc'[x] \in {"expired", "close", "purge"} => IdleTimeout
  <2>1. \A x \in Waiters : /\ wpc'[x] \in Outside => wpc[x] \in Outside
                           /\ wpc'[x] \in {"expired", "close", "purge"} => wpc'[x] = wpc[x]
    BY <1>7 DEF Woken, Outside
  <2> QED
    BY <1>1, <2>1, Zenon DEF UseInv
<1>14. \A h \in Incoming : hw'[h] # None => hpc'[h] \in Holding \cup {"end", "closed"}
  BY <1>1, <1>8 DEF UseInv, Woken, Holding
<1> QED
  BY <1>11, <1>12, <1>13, <1>14, ZenonT(30) DEF UseInv, Usable, UsableNext

(* acquireWaitingConn takes a client that is usable from the queue of the  *)
(* handler's own listener.                                                 *)
LEMMA UseTakes ==
    ASSUME CountInv, QueueInv, UseInv, NEW h \in Incoming, AcquireTakes(h)
    PROVE  UseInv'
<1> DEFINE l == hl[h]
           q == Purged(l)
           w == Head(q)
<1> TypeOK /\ l \in Listeners /\ q # <<>> /\ hpc[h] = "acq"
  BY Zenon DEF CountInv, ReferencesInv, HandlerReferences, AcquireTakes
<1>1. /\ waiting' = [waiting EXCEPT ![l] = Tail(q)]
      /\ hw' = [hw EXCEPT ![h] = w]
      /\ wpc' = WakeWaiters(l)
      /\ hpc' = [WakeHandlers(l) EXCEPT ![h] = "forward"]
      /\ UNCHANGED <<quit, wl, hl, open, done>>
  BY Zenon DEF AcquireTakes, Popped
<1>2. waiting[l] \in Seq(Waiters)
  BY QueueTypes, Zenon
<1>3. q \in Seq(Waiters)
  BY <1>2, PurgedFacts, Zenon
<1>4. \A n \in 1..Len(q) : \E i \in 1..Len(waiting[l]) : q[n] = waiting[l][i]
  BY <1>2, PurgedFacts, Zenon
<1>5. /\ WakeHandlers(l) \in [Incoming -> HandlerStates]
      /\ \A x \in Waiters : Woken(wpc[x], WakeWaiters(l)[x], "enqSleep", "enq")
      /\ \A g \in Incoming : Woken(hpc[g], WakeHandlers(l)[g], "acqSleep", "acq")
  BY WakeWoken, Zenon
<1> HIDE DEF l, q
<1>6. 1 \in 1..Len(q) /\ w = q[1]
  BY <1>3
<1>7. \A n \in 1..Len(Tail(q)) : n + 1 \in 1..Len(q) /\ Tail(q)[n] = q[n + 1]
  BY <1>3
<1> HIDE DEF w
<1>8. \A x \in Waiters : Woken(wpc[x], wpc'[x], "enqSleep", "enq")
  BY <1>1, <1>5, Zenon
<1>9. \A g \in Incoming : \/ g = h /\ hpc'[g] = "forward"
                          \/ g # h /\ Woken(hpc[g], hpc'[g], "acqSleep", "acq")
  BY <1>1, <1>5, Zenon
<1>10. \A x \in Waiters : Usable(x) => UsableNext(x)
  <2>1. \A x \in Waiters : wpc[x] \in {"purge", "returned"} <=> wpc'[x] \in {"purge", "returned"}
    BY <1>8 DEF Woken
  <2> QED
    BY <1>1, <2>1, Zenon DEF Usable, UsableNext
<1>11. ASSUME NEW n \in 1..Len(q)
       PROVE  q[n] \in Waiters /\ wl[q[n]] = l /\ (~quit[l] => UsableNext(q[n]))
  <2>1. PICK i \in 1..Len(waiting[l]) : q[n] = waiting[l][i]
    BY <1>4, <1>11
  <2>2. waiting[l][i] \in Waiters /\ wl[waiting[l][i]] = l
    BY <2>1, QueueTypes, Zenon
  <2>3. ~quit[l] => Usable(waiting[l][i])
    BY <2>1, Zenon DEF UseInv
  <2> QED
    BY <1>10, <2>1, <2>2, <2>3, Zenon
<1>12. ASSUME NEW k \in Listeners, NEW i \in 1..Len(waiting'[k]), ~quit'[k]
       PROVE  UsableNext(waiting'[k][i])
  <2>1. CASE k # l
    <3>1. waiting'[k] = waiting[k]
      BY <1>1, <2>1 DEF TypeOK
    <3>2. \A j \in 1..Len(waiting[k]) : waiting[k][j] \in Waiters /\ Usable(waiting[k][j])
      BY <1>1, <1>12, QueueTypes, Zenon DEF UseInv
    <3> QED
      BY <1>10, <1>12, <3>1, <3>2, Zenon
  <2>2. CASE k = l
    <3>1. waiting'[k] = Tail(q)
      BY <1>1, <2>2 DEF TypeOK
    <3>2. waiting'[k][i] = q[i + 1] /\ i + 1 \in 1..Len(q)
      BY <1>7, <1>12, <3>1
    <3> QED
      BY <1>1, <1>11, <1>12, <2>2, <3>2, Zenon
  <2> QED
    BY <2>1, <2>2
<1>13. ASSUME NEW g \in Incoming, hpc'[g] \in InUse
       PROVE  wl'[hw'[g]] = hl'[g] /\ (~quit'[hl'[g]] => UsableNext(hw'[g]))
  <2>1. CASE g = h
    <3>1. hw'[g] = w
      BY <1>1, <2>1 DEF TypeOK
    <3>2. wl[w] = l /\ (~quit[l] => UsableNext(w))
      BY <1>6, <1>11, Zenon
    <3> QED
      BY <1>1, <2>1, <3>1, <3>2, Zenon DEF l
  <2>2. CASE g # h
    <3>1. hpc[g] \in InUse /\ hw'[g] = hw[g]
      BY <1>1, <1>9, <1>13, <2>2 DEF Woken, InUse, TypeOK
    <3>2. hw[g] \in Waiters /\ wl[hw[g]] = hl[g] /\ (~quit[hl[g]] => Usable(hw[g]))
      BY <3>1, HandFacts, Zenon
    <3> QED
      BY <1>1, <1>10, <3>1, <3>2, Zenon
  <2> QED
    BY <2>1, <2>2, Zenon
<1>14. /\ \A x \in Waiters : wpc'[x] \in Outside => open'[x]
       /\ \A x \in Waiters : wpc'[x] \in {"expired", "close", "purge"} => IdleTimeout
  <2>1. \A x \in Waiters : /\ wpc'[x] \in Outside => wpc[x] \in Outside
                           /\ wpc'[x] \in {"expired", "close", "purge"} => wpc'[x] = wpc[x]
    BY <1>8 DEF Woken, Outside
  <2> QED
    BY <1>1, <2>1, Zenon DEF UseInv
<1>15. \A g \in Incoming : hw'[g] # None => hpc'[g] \in Holding \cup {"end", "closed"}
  BY <1>1, <1>9, Zenon DEF UseInv, Woken, Holding, TypeOK
<1> QED
  BY <1>12, <1>13, <1>14, <1>15, Zenon DEF UseInv, Usable, UsableNext

(* Every step keeps the clients that are queued or in use usable.          *)
LEMMA UseStep == CountInv /\ QueueInv /\ WakeInv /\ UseInv /\ [Next]_vars => UseInv'
<1> SUFFICES ASSUME CountInv, QueueInv, WakeInv, UseInv, [Next]_vars
             PROVE  KeepsUse \/ UseInv'
  BY UseKept, Zenon
<1>1. ASSUME NEW w \in Waiters, ClientMoves(w) PROVE KeepsUse
  <2>1. KeepsHands
    BY <1>1, Zenon DEF ClientMoves, KeepsHands
  <2>2. \A x \in Waiters : x # w /\ Usable(x) => UsableNext(x)
    BY <1>1, Zenon DEF ClientMoves, Usable, UsableNext
  <2>3. /\ wpc'[w] \in {"expired", "close", "purge"} => IdleTimeout
        /\ wpc'[w] \in Outside => wpc[w] \in Outside /\ open'[w] = open[w]
        /\ wpc[w] \notin Outside => wl'[w] = wl[w]
    BY <1>1, Zenon DEF ClientMoves, UseInv, Outside
  <2>4. wpc[w] \notin Outside /\ ~quit[wl[w]] /\ Usable(w) => UsableNext(w)
    BY <1>1, <2>3, Zenon DEF ClientMoves, Usable, UsableNext, Outside
  <2> QED
    BY <1>1, <2>1, <2>2, <2>3, <2>4, Zenon DEF ClientMoves, KeepsUse, UseInv
<1>2. ASSUME NEW h \in Incoming, HandlerMoves(h) PROVE KeepsUse
  <2>1. KeepsHands
    BY <1>2, Zenon DEF HandlerMoves, KeepsHands, InUse, Past, Holding
  <2>2. CASE UNCHANGED <<open, done>>
    BY <1>2, <2>1, <2>2, Zenon DEF HandlerMoves, KeepsUse, Usable, UsableNext, UseInv
  <2>3. CASE ~UNCHANGED <<open, done>>
    <3>1. hpc[h] \in {"pipe", "finish"} /\ hpc'[h] \in {"finish", "end"}
      BY <1>2, <2>3, Zenon DEF HandlerMoves
    <3>2. hw[h] \in Waiters /\ hw[h] # None
      BY <3>1, ConstantsAssumption, Zenon
      DEF CountInv, ReferencesInv, HandlerReferences, Holding
    <3>3. wpc[hw[h]] \notin Outside
      BY <3>2, Zenon DEF QueueInv
    <3>4. Frees(hw[h])
      BY <3>1, Zenon DEF Frees, InUse
    <3>5. \A x \in Waiters : x # hw[h] => open'[x] = open[x] /\ done'[x] = done[x]
      BY <1>2, <3>2, Zenon DEF HandlerMoves, CountInv, TypeOK
    <3>6. \A x \in Waiters : Usable(x) => UsableNext(x) \/ Frees(x)
      BY <1>2, <3>4, <3>5, Zenon DEF HandlerMoves, Usable, UsableNext
    <3> QED
      BY <1>2, <2>1, <3>3, <3>5, <3>6, Zenon DEF HandlerMoves, KeepsUse, UseInv
  <2> QED
    BY <2>2, <2>3
<1>3. ASSUME NEW l \in Listeners, Purging(l) PROVE KeepsUse
  <2>1. KeepsHands
    BY <1>3, Zenon DEF Purging, Woken, KeepsHands, InUse, Past, Holding
  <2>2. \A k \in Listeners : waiting'[k] \in {waiting[k], Purged(k)}
    BY <1>3, ZenonT(60) DEF Purging, CountInv, TypeOK
  <2>3. \A x \in Waiters :
            /\ wpc'[x] \in Outside => wpc[x] \in Outside /\ open'[x] = open[x]
            /\ wpc'[x] \in {"expired", "close", "purge"} => wpc'[x] = wpc[x]
    BY <1>3, Zenon DEF Purging, Woken, Outside
  <2>4. \A x \in Waiters : wpc[x] \notin Outside /\ Usable(x) => UsableNext(x)
    BY <1>3, Zenon DEF Purging, Woken, Outside, Usable, UsableNext
  <2> QED
    BY <1>3, <2>1, <2>2, <2>3, <2>4, Zenon DEF Purging, KeepsUse, UseInv
<1>4. ASSUME NEW l \in Listeners, Broadcasting(l) PROVE KeepsUse
  <2>1. KeepsHands
    BY <1>4, Zenon DEF Broadcasting, Woken, KeepsHands, InUse, Past, Holding
  <2>2. \A k \in Listeners : quit[k] => quit'[k]
    BY <1>4, Zenon DEF Broadcasting, CountInv, TypeOK
  <2>3. \A x \in Waiters :
            /\ wpc'[x] \in Outside => wpc[x] \in Outside
            /\ wpc'[x] \in {"expired", "close", "purge"} => wpc'[x] = wpc[x]
            /\ Usable(x) => UsableNext(x)
    BY <1>4, Zenon DEF Broadcasting, Woken, Outside, Usable, UsableNext
  <2> QED
    BY <1>4, <2>1, <2>2, <2>3, Zenon DEF Broadcasting, KeepsUse, UseInv
<1>5. ASSUME Rests PROVE KeepsUse
  BY <1>5, Zenon DEF Rests, KeepsUse, KeepsHands, Usable, UsableNext, UseInv
<1> QED
  BY <1>1, <1>2, <1>3, <1>4, <1>5, Kinds, UseAppends, UseTakes, Zenon

-----------------------------------------------------------------------------
(* Types, counts and the waiters that are done.                            *)

(* Every step of the manager keeps its state well typed; that EndIncoming  *)
(* leaves a count that is not negative takes counting.                     *)
LEMMA Typing ==
    ASSUME CountInv, [Next]_vars
    PROVE  TypeOK' \/ \E h \in Incoming : EndIncoming(h)
<1>w. ASSUME NEW w \in Waiters,
             EnqueueRejected(w) \/ EnqueueAppend(w) \/ EnqueueSleep(w) \/ TimeoutPurges(w)
      PROVE  /\ wl[w] \in Listeners
             /\ Purged(wl[w]) \in Seq(Waiters)
             /\ Append(Purged(wl[w]), w) \in Seq(Waiters)
  <2>1. wpc[w] = "enq" \/ wpc[w] = "purge"
    BY <1>w, Zenon DEF EnqueueRejected, EnqueueAppend, EnqueueSleep, TimeoutPurges
  <2>2. wl[w] \in Listeners
    BY <2>1 DEF CountInv, ReferencesInv, WaiterReferences
  <2>3. Purged(wl[w]) \in Seq(Waiters)
    BY <2>2, PurgedFacts, Zenon
  <2> QED
    BY <2>2, <2>3
<1>h. ASSUME NEW h \in Incoming,
             \/ beginIncoming(h) \/ Forward(h)
             \/ AcquireTakes(h) \/ AcquireGivesUp(h) \/ AcquireSleeps(h)
      PROVE  hl[h] \in Listeners
  <2>1. hpc[h] = "accepted" \/ hpc[h] = "forward" \/ hpc[h] = "acq"
    BY <1>h, Zenon DEF beginIncoming, Forward, AcquireTakes, AcquireGivesUp, AcquireSleeps
  <2> QED
    BY <2>1 DEF CountInv, ReferencesInv, HandlerReferences
<1>p. ASSUME NEW h \in Incoming, PipeEnds(h) \/ FinishForwarding(h)
      PROVE  hw[h] \in Waiters
  <2>1. hpc[h] = "pipe" \/ hpc[h] = "finish"
    BY <1>p, Zenon DEF PipeEnds, FinishForwarding
  <2> QED
    BY <2>1 DEF CountInv, ReferencesInv, HandlerReferences, Holding
<1>t. ASSUME NEW h \in Incoming, AcquireTakes(h)
      PROVE  Head(Purged(hl[h])) \in Waiters /\ Tail(Purged(hl[h])) \in Seq(Waiters)
  <2>1. Purged(hl[h]) \in Seq(Waiters)
    BY <1>h, <1>t, PurgedFacts, Zenon
  <2>2. Purged(hl[h]) # <<>>
    BY <1>t, Zenon DEF AcquireTakes
  <2> QED
    BY <2>1, <2>2
<1> TypeOK
  BY ZenonT(60) DEF CountInv
<1> USE DEF TypeOK, LoopStates, WaiterStates, HandlerStates
<1> USE DEF managerVars, listenerVars, waiterVars, handlerVars, closerVars
<1>1. ASSUME NEW w \in Waiters, NEW a \in Addrs, ReuseListener(w, a)
      PROVE  TypeOK'
  BY <1>1, ZenonT(60) DEF ReuseListener
<1>2. ASSUME NEW w \in Waiters, NEW a \in Addrs, NEW l \in Listeners,
             CreateListener(w, a, l)
      PROVE  TypeOK'
  BY <1>2, ZenonT(60) DEF CreateListener
<1>3. ASSUME NEW w \in Waiters, NEW a \in Addrs, ListenFails(w, a)
      PROVE  TypeOK'
  BY <1>3, ZenonT(60) DEF ListenFails
<1>4. ASSUME NEW w \in Waiters, EnqueueRejected(w)
      PROVE  TypeOK'
  <2>1. waiting' \in [Listeners -> Seq(Waiters)]
    BY <1>w, <1>4, Zenon DEF EnqueueRejected
  <2>2. wpc' \in [Waiters -> WaiterStates] /\ hpc' \in [Incoming -> HandlerStates]
    BY <1>4, PurgeWakesFacts, ZenonT(60) DEF EnqueueRejected
  <2> QED
    BY <1>4, <2>1, <2>2 DEF EnqueueRejected
<1>5. ASSUME NEW w \in Waiters, EnqueueAppend(w)
      PROVE  TypeOK'
  <2>1. waiting' \in [Listeners -> Seq(Waiters)]
    BY <1>w, <1>5, Zenon DEF EnqueueAppend
  <2>2. wpc' \in [Waiters -> WaiterStates] /\ hpc' \in [Incoming -> HandlerStates]
    BY <1>5, WakeFacts DEF EnqueueAppend
  <2> QED
    BY <1>5, <2>1, <2>2 DEF EnqueueAppend
<1>6. ASSUME NEW w \in Waiters, EnqueueSleep(w)
      PROVE  TypeOK'
  BY <1>w, <1>6, PurgeWakesFacts, Zenon DEF EnqueueSleep
<1>7. ASSUME NEW w \in Waiters, TouchParked(w)
      PROVE  TypeOK'
  BY <1>7, Zenon DEF TouchParked, Touched, Registered
<1>8. ASSUME NEW w \in Waiters, WaitReturns(w)
      PROVE  TypeOK'
  BY <1>8, ZenonT(60) DEF WaitReturns
<1>9. ASSUME NEW w \in Waiters, WaitSeesAcquired(w)
      PROVE  TypeOK'
  BY <1>9, ZenonT(60) DEF WaitSeesAcquired
<1>10. ASSUME NEW w \in Waiters, WaitTimerFires(w)
      PROVE  TypeOK'
  BY <1>10, ZenonT(60) DEF WaitTimerFires
<1>11. ASSUME NEW w \in Waiters, TimeoutChecks(w)
      PROVE  TypeOK'
  BY <1>11, ZenonT(60) DEF TimeoutChecks
<1>12. ASSUME NEW w \in Waiters, TimeoutFinishes(w)
      PROVE  TypeOK'
  BY <1>12 DEF TimeoutFinishes
<1>13. ASSUME NEW w \in Waiters, TimeoutPurges(w)
      PROVE  TypeOK'
  BY <1>w, <1>13, PurgeWakesFacts, Zenon DEF TimeoutPurges
<1>14. ASSUME NEW l \in Listeners, NEW h \in Incoming, Accept(l, h)
      PROVE  TypeOK'
  BY <1>14, ZenonT(60) DEF Accept
<1>15. ASSUME NEW l \in Listeners, AcceptFails(l)
      PROVE  TypeOK'
  BY <1>15, ZenonT(60) DEF AcceptFails
<1>16. ASSUME NEW l \in Listeners, LoopQuits(l)
      PROVE  TypeOK'
  BY <1>16, WakeFacts, ZenonT(60) DEF LoopQuits, QuitAndWake
<1>17. ASSUME NEW l \in Listeners, LoopUnmaps(l)
      PROVE  TypeOK'
  BY <1>17, ZenonT(60) DEF LoopUnmaps, Registered
<1>18. ASSUME NEW l \in Listeners, LoopCloses(l)
      PROVE  TypeOK'
  BY <1>18, ZenonT(60) DEF LoopCloses
<1>19. ASSUME NEW l \in Listeners, Elapse(l)
      PROVE  TypeOK'
  BY <1>19, ZenonT(60) DEF Elapse
<1>20. ASSUME NEW h \in Incoming, beginIncoming(h)
      PROVE  TypeOK'
  <2>1. hl[h] \in Listeners
    BY <1>h, <1>20, Zenon
  <2> QED
    BY <1>20, <2>1 DEF beginIncoming, Touched
<1>21. ASSUME NEW h \in Incoming, Handshake(h)
      PROVE  TypeOK'
  <2>1. PICK next \in {"acq", "end"} : hpc' = [hpc EXCEPT ![h] = next]
    BY <1>21, ZenonT(60) DEF Handshake
  <2>2. hpc' \in [Incoming -> HandlerStates]
    BY <2>1, ZenonT(60)
  <2> QED
    BY <1>21, <2>2, ZenonT(60) DEF Handshake
<1>22. ASSUME NEW h \in Incoming, TimerRings(h)
      PROVE  TypeOK'
  BY <1>22, WakeFacts, ZenonT(60) DEF TimerRings
<1>23. ASSUME NEW h \in Incoming, DeadlinePasses(h)
      PROVE  TypeOK'
  BY <1>23, ZenonT(60) DEF DeadlinePasses
<1>24. ASSUME NEW h \in Incoming, AcquireTakes(h)
      PROVE  TypeOK'
  <2>1. hl[h] \in Listeners
    BY <1>h, <1>24, Zenon
  <2>2. Head(Purged(hl[h])) \in Waiters /\ Tail(Purged(hl[h])) \in Seq(Waiters)
    BY <1>t, <1>24, Zenon
  <2> QED
    BY <1>24, <2>1, <2>2, WakeFacts, ZenonT(60) DEF AcquireTakes, Popped
<1>25. ASSUME NEW h \in Incoming, AcquireGivesUp(h)
      PROVE  TypeOK'
  <2>1. hl[h] \in Listeners
    BY <1>h, <1>25, Zenon
  <2>2. /\ PurgeWakesWaiters(hl[h]) \in [Waiters -> WaiterStates]
        /\ PurgeWakesHandlers(hl[h]) \in [Incoming -> HandlerStates]
    BY PurgeWakesFacts, Zenon
  <2> QED
    BY <1>25, <2>1, <2>2 DEF AcquireGivesUp
<1>26. ASSUME NEW h \in Incoming, AcquireSleeps(h)
      PROVE  TypeOK'
  <2>1. hl[h] \in Listeners
    BY <1>h, <1>26, Zenon
  <2>2. /\ PurgeWakesWaiters(hl[h]) \in [Waiters -> WaiterStates]
        /\ PurgeWakesHandlers(hl[h]) \in [Incoming -> HandlerStates]
    BY PurgeWakesFacts, Zenon
  <2> QED
    BY <1>26, <2>1, <2>2 DEF AcquireSleeps
<1>27. ASSUME NEW h \in Incoming, Forward(h)
      PROVE  TypeOK'
  <2>1. hl[h] \in Listeners
    BY <1>h, <1>27, Zenon
  <2>2. idle' \in [Listeners -> BOOLEAN]
    BY <1>27, <2>1, ZenonT(60) DEF Forward, Touched
  <2>3. hpc' \in [Incoming -> HandlerStates]
    BY <1>27, ZenonT(60) DEF Forward
  <2> QED
    BY <1>27, <2>2, <2>3, ZenonT(60) DEF Forward
<1>28. ASSUME NEW h \in Incoming, PipeEnds(h)
      PROVE  TypeOK'
  <2>1. hw[h] \in Waiters /\ open[hw[h]] \in BOOLEAN
    BY <1>p, <1>28, Zenon
  <2>2. PICK o \in BOOLEAN : open' = [open EXCEPT ![hw[h]] = o]
    BY <1>28, <2>1, Zenon DEF PipeEnds
  <2>3. open' \in [Waiters -> BOOLEAN]
    BY <2>2, Zenon
  <2> QED
    BY <1>28, <2>3 DEF PipeEnds
<1>29. ASSUME NEW h \in Incoming, FinishForwarding(h)
      PROVE  TypeOK'
  <2>1. hw[h] \in Waiters
    BY <1>p, <1>29, Zenon
  <2> QED
    BY <1>29, <2>1 DEF FinishForwarding
<1>30. ASSUME NEW c \in Closers, NEW l \in Listeners, CloserQuits(c, l)
      PROVE  TypeOK'
  BY <1>30, WakeFacts, ZenonT(60) DEF CloserQuits, QuitAndWake
<1>31. ASSUME NEW c \in Closers, CloserShuts(c)
      PROVE  TypeOK'
  BY <1>31, ZenonT(60) DEF CloserShuts
<1>32. ASSUME reapIdleListenersOnce
      PROVE  TypeOK'
  BY <1>32, ZenonT(60) DEF reapIdleListenersOnce, Stale, Closers
<1>33. ASSUME Close
      PROVE  TypeOK'
  BY <1>33, ZenonT(60) DEF Close, Closers
<1>34. ASSUME UNCHANGED vars PROVE TypeOK'
  BY <1>34 DEF vars
<1> QED
  BY <1>1, <1>2, <1>3, <1>4, <1>5, <1>6, <1>7, <1>8, <1>9, <1>10, <1>11, Zenon,
     <1>12, <1>13, <1>14, <1>15, <1>16, <1>17, <1>18, <1>19, <1>20,
     <1>21, <1>22, <1>23, <1>24, <1>25, <1>26, <1>27, <1>28, <1>29,
     <1>30, <1>31, <1>32, <1>33, <1>34
  DEF Next, Arrive, WaiterStep, LoopStep, HandlerStep, CloserStep

(* A step that leaves the counts alone: no handler begins or ends, and no  *)
(* listener becomes registered.                                            *)
KeepsHandlers ==
    /\ active' = active
    /\ \A l \in Listeners : Registered(l)' => Registered(l)
    /\ \A h \in Incoming : \A l \in Listeners :
           (hl'[h] = l /\ hpc'[h] \in Begun) <=> (hl[h] = l /\ hpc[h] \in Begun)

(* Every other step leaves them alone.                                     *)
LEMMA HandlersKept ==
    ASSUME CountInv, [Next]_vars
    PROVE  \/ KeepsHandlers
           \/ \E w \in Waiters, a \in Addrs, l \in Listeners : CreateListener(w, a, l)
           \/ \E h \in Incoming : beginIncoming(h) \/ EndIncoming(h)
<1> USE DEF CountInv, KeepsHandlers, Registered, Begun
<1> USE DEF managerVars, listenerVars, waiterVars, handlerVars, closerVars
<1>1. ASSUME NEW w \in Waiters, NEW a \in Addrs, ReuseListener(w, a)
      PROVE  KeepsHandlers
  BY <1>1, ZenonT(60) DEF ReuseListener, TypeOK
<1>2. ASSUME NEW w \in Waiters, NEW a \in Addrs, ListenFails(w, a)
      PROVE  KeepsHandlers
  BY <1>2, ZenonT(60) DEF ListenFails, TypeOK
<1>3. ASSUME NEW w \in Waiters, EnqueueRejected(w)
      PROVE  KeepsHandlers
  <2>1. /\ PurgeWakesHandlers(wl[w]) \in [Incoming -> HandlerStates]
        /\ \A g \in Incoming : Woken(hpc[g], PurgeWakesHandlers(wl[w])[g], "acqSleep", "acq")
    BY PurgeWakesWoken, Zenon
  <2> QED
    BY <1>3, <2>1 DEF EnqueueRejected, Woken
<1>4. ASSUME NEW w \in Waiters, EnqueueAppend(w)
      PROVE  KeepsHandlers
  <2>1. /\ WakeHandlers(wl[w]) \in [Incoming -> HandlerStates]
        /\ \A g \in Incoming : Woken(hpc[g], WakeHandlers(wl[w])[g], "acqSleep", "acq")
    BY WakeWoken, Zenon
  <2> QED
    BY <1>4, <2>1, ZenonT(60) DEF EnqueueAppend, Woken
<1>5. ASSUME NEW w \in Waiters, EnqueueSleep(w)
      PROVE  KeepsHandlers
  <2>1. /\ PurgeWakesHandlers(wl[w]) \in [Incoming -> HandlerStates]
        /\ \A g \in Incoming : Woken(hpc[g], PurgeWakesHandlers(wl[w])[g], "acqSleep", "acq")
    BY PurgeWakesWoken, Zenon
  <2> QED
    BY <1>5, <2>1, ZenonT(60) DEF EnqueueSleep, Woken
<1>6. ASSUME NEW w \in Waiters, TouchParked(w)
      PROVE  KeepsHandlers
  BY <1>6 DEF TouchParked, TypeOK
<1>7. ASSUME NEW w \in Waiters, WaitReturns(w)
      PROVE  KeepsHandlers
  BY <1>7 DEF WaitReturns, TypeOK
<1>8. ASSUME NEW w \in Waiters, WaitSeesAcquired(w)
      PROVE  KeepsHandlers
  BY <1>8 DEF WaitSeesAcquired, TypeOK
<1>9. ASSUME NEW w \in Waiters, WaitTimerFires(w)
      PROVE  KeepsHandlers
  BY <1>9 DEF WaitTimerFires, TypeOK
<1>10. ASSUME NEW w \in Waiters, TimeoutChecks(w)
      PROVE  KeepsHandlers
  BY <1>10 DEF TimeoutChecks, TypeOK
<1>11. ASSUME NEW w \in Waiters, TimeoutFinishes(w)
      PROVE  KeepsHandlers
  BY <1>11 DEF TimeoutFinishes, TypeOK
<1>12. ASSUME NEW w \in Waiters, TimeoutPurges(w)
      PROVE  KeepsHandlers
  <2>1. /\ PurgeWakesHandlers(wl[w]) \in [Incoming -> HandlerStates]
        /\ \A g \in Incoming : Woken(hpc[g], PurgeWakesHandlers(wl[w])[g], "acqSleep", "acq")
    BY PurgeWakesWoken, Zenon
  <2> QED
    BY <1>12, <2>1, Zenon DEF TimeoutPurges, Woken
<1>13. ASSUME NEW l \in Listeners, NEW h \in Incoming, Accept(l, h)
      PROVE  KeepsHandlers
  BY <1>13 DEF Accept, TypeOK
<1>14. ASSUME NEW l \in Listeners, AcceptFails(l)
      PROVE  KeepsHandlers
  BY <1>14 DEF AcceptFails, TypeOK
<1>15. ASSUME NEW l \in Listeners, LoopQuits(l)
      PROVE  KeepsHandlers
  <2>1. /\ WakeHandlers(l) \in [Incoming -> HandlerStates]
        /\ \A g \in Incoming : Woken(hpc[g], WakeHandlers(l)[g], "acqSleep", "acq")
    BY WakeWoken, Zenon
  <2> QED
    BY <1>15, <2>1 DEF LoopQuits, QuitAndWake, Woken
<1>16. ASSUME NEW l \in Listeners, LoopUnmaps(l)
      PROVE  KeepsHandlers
  BY <1>16, ConstantsAssumption DEF LoopUnmaps, TypeOK
<1>17. ASSUME NEW l \in Listeners, LoopCloses(l)
      PROVE  KeepsHandlers
  BY <1>17 DEF LoopCloses, TypeOK
<1>18. ASSUME NEW l \in Listeners, Elapse(l)
      PROVE  KeepsHandlers
  BY <1>18 DEF Elapse, TypeOK
<1>19. ASSUME NEW h \in Incoming, Handshake(h)
      PROVE  KeepsHandlers
  BY <1>19 DEF Handshake, TypeOK
<1>20. ASSUME NEW h \in Incoming, TimerRings(h)
      PROVE  KeepsHandlers
  <2>1. /\ WakeHandlers(hl[h]) \in [Incoming -> HandlerStates]
        /\ \A g \in Incoming : Woken(hpc[g], WakeHandlers(hl[h])[g], "acqSleep", "acq")
    BY WakeWoken, Zenon
  <2> QED
    BY <1>20, <2>1, Zenon DEF TimerRings, Woken
<1>21. ASSUME NEW h \in Incoming, DeadlinePasses(h)
      PROVE  KeepsHandlers
  BY <1>21 DEF DeadlinePasses, TypeOK
<1>22. ASSUME NEW h \in Incoming, AcquireTakes(h)
      PROVE  KeepsHandlers
  <2>1. /\ WakeHandlers(hl[h]) \in [Incoming -> HandlerStates]
        /\ \A g \in Incoming : Woken(hpc[g], WakeHandlers(hl[h])[g], "acqSleep", "acq")
    BY WakeWoken, Zenon
  <2> QED
    BY <1>22, <2>1, Zenon DEF AcquireTakes, Woken
<1>23. ASSUME NEW h \in Incoming, AcquireGivesUp(h)
      PROVE  KeepsHandlers
  <2>1. /\ PurgeWakesHandlers(hl[h]) \in [Incoming -> HandlerStates]
        /\ \A g \in Incoming : Woken(hpc[g], PurgeWakesHandlers(hl[h])[g], "acqSleep", "acq")
    BY PurgeWakesWoken, Zenon
  <2> QED
    BY <1>23, <2>1, ZenonT(30) DEF AcquireGivesUp, Woken
<1>24. ASSUME NEW h \in Incoming, AcquireSleeps(h)
      PROVE  KeepsHandlers
  <2>1. /\ PurgeWakesHandlers(hl[h]) \in [Incoming -> HandlerStates]
        /\ \A g \in Incoming : Woken(hpc[g], PurgeWakesHandlers(hl[h])[g], "acqSleep", "acq")
    BY PurgeWakesWoken, Zenon
  <2> QED
    BY <1>24, <2>1, Zenon DEF AcquireSleeps, Woken
<1>25. ASSUME NEW h \in Incoming, Forward(h)
      PROVE  KeepsHandlers
  BY <1>25 DEF Forward, TypeOK
<1>26. ASSUME NEW h \in Incoming, PipeEnds(h)
      PROVE  KeepsHandlers
  BY <1>26, ZenonT(60) DEF PipeEnds, TypeOK
<1>27. ASSUME NEW h \in Incoming, FinishForwarding(h)
      PROVE  KeepsHandlers
  BY <1>27 DEF FinishForwarding, TypeOK
<1>28. ASSUME NEW c \in Closers, NEW l \in Listeners, CloserQuits(c, l)
      PROVE  KeepsHandlers
  <2>1. /\ WakeHandlers(l) \in [Incoming -> HandlerStates]
        /\ \A g \in Incoming : Woken(hpc[g], WakeHandlers(l)[g], "acqSleep", "acq")
    BY WakeWoken, Zenon
  <2> QED
    BY <1>28, <2>1, Zenon DEF CloserQuits, QuitAndWake, Woken
<1>29. ASSUME NEW c \in Closers, CloserShuts(c)
      PROVE  KeepsHandlers
  BY <1>29, ZenonT(60) DEF CloserShuts, TypeOK
<1>30. ASSUME reapIdleListenersOnce
      PROVE  KeepsHandlers
  BY <1>30, ConstantsAssumption DEF reapIdleListenersOnce, Stale, TypeOK
<1>31. ASSUME Close
      PROVE  KeepsHandlers
  <2>1. \A l \in Listeners : ~Registered(l)'
    BY <1>31, ConstantsAssumption DEF Close, TypeOK
  <2>2. active' = active /\ hl' = hl /\ hpc' = hpc
    BY <1>31, Zenon DEF Close
  <2> QED
    BY <2>1, <2>2, Zenon
<1>32. ASSUME UNCHANGED vars PROVE KeepsHandlers
  BY <1>32, Zenon DEF vars
<1> HIDE DEF KeepsHandlers, Registered, Begun
<1> QED
  BY <1>1, <1>2, <1>3, <1>4, <1>5, <1>6, <1>7, <1>8, <1>9, <1>10, <1>11, Zenon,
     <1>12, <1>13, <1>14, <1>15, <1>16, <1>17, <1>18, <1>19, <1>20,
     <1>21, <1>22, <1>23, <1>24, <1>25, <1>26, <1>27, <1>28, <1>29,
     <1>30, <1>31, <1>32
  DEF Next, Arrive, WaiterStep, LoopStep, HandlerStep, CloserStep

(* What a step can say of the waiters that are done.                       *)
KeepsDone ==
    \/ done' = done
    \/ \E w \in Waiters : EnqueueRejected(w) \/ WaitReturns(w) \/ TimeoutFinishes(w)
    \/ \E h \in Incoming : FinishForwarding(h)

(* Only the end of a waiter's call, and of its pipe, marks it done.        *)
LEMMA DoneStep ==
    ASSUME [Next]_vars PROVE KeepsDone
<1> USE DEF managerVars, listenerVars, waiterVars, handlerVars, closerVars
<1>1. ASSUME NEW w \in Waiters, Arrive(w) PROVE KeepsDone
  BY <1>1, Zenon DEF Arrive, ReuseListener, CreateListener, ListenFails, KeepsDone
<1>2. ASSUME NEW w \in Waiters, WaiterStep(w) PROVE KeepsDone
  BY <1>2, Zenon DEF WaiterStep, EnqueueAppend, EnqueueSleep, TouchParked, WaitSeesAcquired,
                     WaitTimerFires, TimeoutChecks, TimeoutPurges, KeepsDone
<1>3. ASSUME NEW l \in Listeners,
             (\E h \in Incoming : Accept(l, h)) \/ AcceptFails(l) \/ LoopStep(l) \/ Elapse(l)
      PROVE  KeepsDone
  BY <1>3, Zenon DEF Accept, AcceptFails, LoopStep, LoopQuits, LoopUnmaps, LoopCloses, Elapse, KeepsDone
<1>4. ASSUME NEW h \in Incoming, HandlerStep(h) PROVE KeepsDone
  BY <1>4, Zenon DEF HandlerStep, beginIncoming, AcquireTakes, Popped, AcquireGivesUp, AcquireSleeps,
                     Forward, EndIncoming, KeepsDone
<1>5. ASSUME NEW h \in Incoming, Handshake(h) \/ TimerRings(h) \/ DeadlinePasses(h) \/ PipeEnds(h)
      PROVE  KeepsDone
  BY <1>5, Zenon DEF Handshake, TimerRings, DeadlinePasses, PipeEnds, KeepsDone
<1>6. ASSUME (\E c \in Closers : CloserStep(c)) \/ reapIdleListenersOnce \/ Close \/ UNCHANGED vars
      PROVE  KeepsDone
  BY <1>6, Zenon DEF CloserStep, CloserQuits, CloserShuts, reapIdleListenersOnce, Close, vars, KeepsDone
<1> QED
  BY <1>1, <1>2, <1>3, <1>4, <1>5, <1>6, Zenon DEF Next

(* Who takes listeners out of the map to close them.                       *)
LEMMA TodoStep ==
    ASSUME [Next]_vars
    PROVE  \/ UNCHANGED todo
           \/ reapIdleListenersOnce
           \/ Close
           \/ \E c \in Closers, l \in Listeners : CloserQuits(c, l)
<1>1. ASSUME NEW w \in Waiters, Arrive(w) \/ WaiterStep(w)
      PROVE  UNCHANGED todo
  BY <1>1, Zenon DEF Arrive, WaiterStep, closerVars, ReuseListener, CreateListener,
     ListenFails, EnqueueRejected, EnqueueAppend, EnqueueSleep, TouchParked,
     WaitReturns, WaitSeesAcquired, WaitTimerFires, TimeoutChecks,
     TimeoutFinishes, TimeoutPurges
<1>2. ASSUME NEW l \in Listeners,
             \/ \E h \in Incoming : Accept(l, h)
             \/ AcceptFails(l) \/ LoopStep(l) \/ Elapse(l)
      PROVE  UNCHANGED todo
  BY <1>2, Zenon DEF LoopStep, closerVars, Accept, AcceptFails, LoopQuits, LoopUnmaps,
     LoopCloses, Elapse
<1>3. ASSUME NEW h \in Incoming,
             \/ HandlerStep(h) \/ Handshake(h) \/ TimerRings(h)
             \/ DeadlinePasses(h) \/ PipeEnds(h)
      PROVE  UNCHANGED todo
  BY <1>3, Zenon DEF HandlerStep, closerVars, beginIncoming, Handshake, TimerRings,
     DeadlinePasses, AcquireTakes, AcquireGivesUp, AcquireSleeps, Forward,
     PipeEnds, FinishForwarding, EndIncoming
<1>4. ASSUME NEW c \in Closers, CloserShuts(c)
      PROVE  UNCHANGED todo
  BY <1>4 DEF CloserShuts
<1>5. ASSUME UNCHANGED vars
      PROVE  UNCHANGED todo
  BY <1>5 DEF vars, closerVars
<1> QED
  BY <1>1, <1>2, <1>3, <1>4, <1>5, Zenon DEF Next, CloserStep

(* Who is in a queue or in a handler's hands is nowhere else.              *)
LEMMA QueueExclusive == CountInv /\ QueueInv => ExclusiveUse
<1> SUFFICES ASSUME CountInv, QueueInv
             PROVE  ExclusiveUse
  OBVIOUS
<1>1. \A l \in Listeners : DOMAIN waiting[l] = 1..Len(waiting[l])
  BY QueueDomains, Zenon
<1>2. ASSUME NEW l \in Listeners, NEW k \in Listeners, NEW i \in DOMAIN waiting[l],
             NEW j \in DOMAIN waiting[k], waiting[l][i] = waiting[k][j]
      PROVE  l = k
  <2>1. i \in 1..Len(waiting[l]) /\ j \in 1..Len(waiting[k])
    BY <1>1, ZenonT(60)
  <2>2. wl[waiting[l][i]] = l /\ wl[waiting[k][j]] = k
    BY <2>1, ZenonT(60) DEF QueueInv
  <2> QED
    BY <1>2, <2>2, ZenonT(60)
<1>3. ASSUME NEW h \in Incoming, hw[h] # None, NEW l \in Listeners,
             NEW i \in DOMAIN waiting[l]
      PROVE  waiting[l][i] # hw[h]
  <2>0. i \in 1..Len(waiting[l])
    BY <1>1, Zenon
  <2>1. ~acquired[waiting[l][i]] /\ acquired[hw[h]]
    BY <1>3, <2>0, ZenonT(60) DEF QueueInv
  <2> QED
    BY <2>1, Zenon
<1>4. ASSUME NEW l \in Listeners, NEW i \in DOMAIN waiting[l], NEW j \in DOMAIN waiting[l],
             waiting[l][i] = waiting[l][j]
      PROVE  i = j
  <2>1. i \in 1..Len(waiting[l]) /\ j \in 1..Len(waiting[l])
    BY <1>1, Zenon
  <2> QED
    BY <1>4, <2>1, Zenon DEF QueueInv
<1>5. \A g, h \in Incoming : hw[h] # None /\ hw[g] = hw[h] => g = h
  BY Zenon DEF QueueInv
<1> QED
  BY <1>2, <1>3, <1>4, <1>5, Zenon DEF ExclusiveUse

(* WakeInv is about sleepers and queues, NoLostWakeup about the sleepers.  *)
LEMMA WakeSuffices == CountInv /\ QueueInv /\ WakeInv => NoLostWakeup
<1> SUFFICES ASSUME CountInv, QueueInv, WakeInv
             PROVE  NoLostWakeup
  OBVIOUS
<1>1. \A l \in Listeners : DOMAIN waiting[l] = 1..Len(waiting[l])
  BY QueueDomains, Zenon
<1>2. \A w \in Waiters : wpc[w] = "enqSleep" => wl[w] \in Listeners
  BY QueueTypes
<1> QED
  BY <1>1, <1>2, ZenonT(60) DEF WakeInv, NoLostWakeup

(* What a step can say of the connections that are open.                   *)
KeepsOpen ==
    \/ open' = open
    \/ \E w \in Waiters, a \in Addrs : ListenFails(w, a)
    \/ \E w \in Waiters : \/ EnqueueRejected(w) \/ WaitReturns(w)
                         \/ TimeoutFinishes(w) \/ TimeoutPurges(w)
    \/ \E h \in Incoming : PipeEnds(h)

(* Only a client's own HandleClient and the end of a pipe close one.       *)
LEMMA OpenStep ==
    ASSUME [Next]_vars PROVE KeepsOpen
<1> USE DEF managerVars, listenerVars, waiterVars, handlerVars, closerVars
<1>1. ASSUME NEW w \in Waiters, Arrive(w) PROVE KeepsOpen
  BY <1>1, Zenon DEF Arrive, ReuseListener, CreateListener, KeepsOpen
<1>2. ASSUME NEW w \in Waiters, WaiterStep(w) PROVE KeepsOpen
  BY <1>2, Zenon DEF WaiterStep, EnqueueAppend, EnqueueSleep, TouchParked, WaitSeesAcquired,
                     WaitTimerFires, TimeoutChecks, KeepsOpen
<1>3. ASSUME NEW l \in Listeners,
             (\E h \in Incoming : Accept(l, h)) \/ AcceptFails(l) \/ LoopStep(l) \/ Elapse(l)
      PROVE  KeepsOpen
  BY <1>3, Zenon DEF Accept, AcceptFails, LoopStep, LoopQuits, LoopUnmaps, LoopCloses, Elapse, KeepsOpen
<1>4. ASSUME NEW h \in Incoming, HandlerStep(h) PROVE KeepsOpen
  BY <1>4, Zenon DEF HandlerStep, beginIncoming, AcquireTakes, AcquireGivesUp, AcquireSleeps,
                     Forward, FinishForwarding, EndIncoming, KeepsOpen
<1>5. ASSUME NEW h \in Incoming, Handshake(h) \/ TimerRings(h) \/ DeadlinePasses(h) \/ PipeEnds(h)
      PROVE  KeepsOpen
  BY <1>5, Zenon DEF Handshake, TimerRings, DeadlinePasses, KeepsOpen
<1>6. ASSUME (\E c \in Closers : CloserStep(c)) \/ reapIdleListenersOnce \/ Close \/ UNCHANGED vars
      PROVE  KeepsOpen
  BY <1>6, Zenon DEF CloserStep, CloserQuits, CloserShuts, reapIdleListenersOnce, Close, vars, KeepsOpen
<1> QED
  BY <1>1, <1>2, <1>3, <1>4, <1>5, <1>6, Zenon DEF Next

(* A connection that a pipe uses is closed by the client's own timeout.    *)
LEMMA TimeoutCloses ==
    ASSUME CountInv, QueueInv, UseInv, [Next]_vars, NEW h \in Incoming,
           hpc[h] = "pipe", hpc'[h] = "pipe", ~quit[hl[h]]
    PROVE  open'[hw[h]] = open[hw[h]] \/ wpc[hw[h]] = "close" \/ ~open[hw[h]]
<1>0. TypeOK
  BY DEF CountInv
<1>1. hpc[h] \in InUse
  BY DEF InUse
<1>2. PICK x \in Waiters : x = hw[h]
  BY <1>1, HandFacts, Zenon
<1>3. /\ wl[x] = hl[h] /\ Usable(x) /\ wpc[x] \notin Outside
      /\ \A g \in Incoming : hw[g] = x => g = h
  BY <1>1, <1>2, HandFacts, Zenon
<1> SUFFICES open'[x] = open[x] \/ wpc[x] = "close" \/ ~open[x]
  BY <1>2, Zenon
<1> USE DEF managerVars, listenerVars, waiterVars, handlerVars, closerVars
<1>4. ASSUME NEW w \in Waiters, NEW a \in Addrs, ListenFails(w, a)
      PROVE  open'[x] = open[x]
  BY <1>0, <1>3, <1>4, Zenon DEF ListenFails, TypeOK, Outside
<1>5. ASSUME NEW w \in Waiters, EnqueueRejected(w)
      PROVE  open'[x] = open[x]
  BY <1>0, <1>3, <1>5, Zenon DEF EnqueueRejected, TypeOK, Outside
<1>6. ASSUME NEW w \in Waiters, WaitReturns(w)
      PROVE  open'[x] = open[x]
  BY <1>0, <1>2, <1>3, <1>6, Zenon DEF WaitReturns, TypeOK, Usable
<1>7. ASSUME NEW w \in Waiters, TimeoutFinishes(w)
      PROVE  open'[x] = open[x] \/ wpc[x] = "close"
  BY <1>0, <1>7 DEF TimeoutFinishes, TypeOK
<1>8. ASSUME NEW w \in Waiters, TimeoutPurges(w)
      PROVE  open'[x] = open[x] \/ ~open[x]
  BY <1>0, <1>3, <1>8, Zenon DEF TimeoutPurges, TypeOK, Usable
<1>9. ASSUME NEW g \in Incoming, PipeEnds(g)
      PROVE  open'[x] = open[x]
  BY <1>0, <1>3, <1>9 DEF PipeEnds, TypeOK
<1> QED
  BY <1>4, <1>5, <1>6, <1>7, <1>8, <1>9, OpenStep, Zenon DEF KeepsOpen

=============================================================================
