-------------------------- MODULE ReverseUdpProofs --------------------------
(***************************************************************************)
(* Proofs about the sessions of a reverse UDP listener, for every set of   *)
(* peers, any number of sessions and any buffer size.                      *)
(***************************************************************************)
EXTENDS ReverseUdp, TLAPS

(* The map is empty and no session exists.                                 *)
LEMMA InitInv == Init => InductiveInvariant
  BY ConstantsAssumption
     DEF Init, InductiveInvariant, TypeOK, Allocation, EofMeansClosed,
         DrainedAtEof, Accepting, EntryIsOwn,
         ClosedStaysDisarmed, OpenCanExpire, CloseStates

(* The critical sections of runUdpListener.                                *)
LEMMA LoopInv ==
  ASSUME InductiveInvariant,
         \/ \E p \in Peers : ReceiveMapped(p) \/ \E s \in Sessions : ReceiveNew(p, s)
         \/ push
         \/ ReadFromUDPFails
  PROVE  InductiveInvariant'
  <1> USE ConstantsAssumption
      DEF InductiveInvariant, TypeOK, Allocation, EofMeansClosed,
          DrainedAtEof, Accepting, EntryIsOwn,
          ClosedStaysDisarmed, OpenCanExpire, CloseStates,
          sessionVars, timerVars, handlerVars
  <1>1. ASSUME NEW p \in Peers, ReceiveMapped(p)
        PROVE  InductiveInvariant'
    BY <1>1 DEF ReceiveMapped
  <1>2. ASSUME NEW p \in Peers, NEW s \in Sessions, ReceiveNew(p, s)
        PROVE  InductiveInvariant'
    BY <1>2 DEF ReceiveNew, Unmapped, NewIdleTimeoutConn
  <1>3. CASE push
    BY <1>3 DEF push, Accepts
  <1>4. CASE ReadFromUDPFails
    BY <1>4 DEF ReadFromUDPFails
  <1>5. QED
    BY <1>1, <1>2, <1>3, <1>4

(* The timer, its callback and the three sections of Close.                *)
LEMMA CloseInv ==
  ASSUME InductiveInvariant, NEW s \in Sessions, TimerFires(s) \/ CloseStep(s)
  PROVE  InductiveInvariant'
  <1> USE ConstantsAssumption
      DEF InductiveInvariant, TypeOK, Allocation, EofMeansClosed,
          DrainedAtEof, Accepting, EntryIsOwn,
          ClosedStaysDisarmed, OpenCanExpire, CloseStates,
          loopVars, sessionVars, timerVars, handlerVars
  <1>1. CASE TimerFires(s)
    BY <1>1 DEF TimerFires
  <1>2. CASE TimerCloses(s)
    BY <1>2 DEF TimerCloses, Marked, Stopped
  <1>3. CASE CloseSession(s)
    BY <1>3 DEF CloseSession
  <1>4. CASE onClose(s)
    BY <1>4 DEF onClose
  <1>5. QED
    BY <1>1, <1>2, <1>3, <1>4 DEF CloseStep

(* handleIncoming and the two goroutines of its Pipe.                      *)
LEMMA HandlerInv ==
  ASSUME InductiveInvariant, NEW s \in Sessions,
         \/ Acquires(s) \/ AcquireFails(s) \/ UpStep(s) \/ UpWrites(s)
         \/ DownReads(s) \/ DownTouches(s) \/ DownEnds(s) \/ PipeReturns(s)
  PROVE  InductiveInvariant'
  <1> USE ConstantsAssumption
      DEF InductiveInvariant, TypeOK, Allocation, EofMeansClosed,
          DrainedAtEof, Accepting, EntryIsOwn,
          ClosedStaysDisarmed, OpenCanExpire, CloseStates,
          loopVars, sessionVars, timerVars
  <1>1. CASE Acquires(s)
    BY <1>1 DEF Acquires
  <1>2. CASE AcquireFails(s)
    BY <1>2 DEF AcquireFails, Marked, Stopped
  <1>3. CASE UpReads(s)
    BY <1>3 DEF UpReads
  <1>4. CASE UpTouches(s)
    <2>1. CASE armed' = armed
      BY <1>4, <2>1 DEF UpTouches
    <2>2. CASE armed' = Touched(s)
      BY <1>4, <2>2 DEF UpTouches, Touched
    <2>3. QED
      BY <1>4, <2>1, <2>2 DEF UpTouches
  <1>5. CASE DownReads(s)
    BY <1>5 DEF DownReads
  <1>6. CASE DownTouches(s)
    <2>1. CASE armed' = armed
      BY <1>6, <2>1 DEF DownTouches
    <2>2. CASE armed' = Touched(s)
      BY <1>6, <2>2 DEF DownTouches, Touched
    <2>3. QED
      BY <1>6, <2>1, <2>2 DEF DownTouches
  <1>7. CASE DownEnds(s)
    BY <1>7 DEF DownEnds, Marked, Stopped
  <1>8. CASE PipeReturns(s)
    BY <1>8 DEF PipeReturns
  <1>9. CASE UpWrites(s)
    BY <1>9 DEF UpWrites
  <1>10. QED
    BY <1>1, <1>2, <1>3, <1>4, <1>5, <1>6, <1>7, <1>8, <1>9 DEF UpStep

(* InductiveInvariant holds throughout.                                    *)
LEMMA Invariance == Spec => []InductiveInvariant
  <1>1. InductiveInvariant /\ [Next]_vars => InductiveInvariant'
    <2> SUFFICES ASSUME InductiveInvariant, [Next]_vars
                 PROVE  InductiveInvariant'
      OBVIOUS
    <2>1. CASE UNCHANGED vars
      BY <2>1 DEF InductiveInvariant, TypeOK, Allocation, EofMeansClosed,
                  DrainedAtEof, EntryIsOwn,
                  ClosedStaysDisarmed, OpenCanExpire, vars, loopVars,
                  sessionVars, timerVars, handlerVars
    <2>2. QED
      BY <2>1, LoopInv, CloseInv, HandlerInv DEF Next
  <1>2. QED
    BY InitInv, <1>1, PTL DEF Spec

(* Every reachable state is well typed: no buffer overflows.               *)
THEOREM TypeCorrect == Spec => []TypeOK
  <1>1. InductiveInvariant => TypeOK
    BY DEF InductiveInvariant
  <1>2. QED
    BY Invariance, <1>1, PTL

(* A peer has one session at most that onClose has yet to remove, and      *)
(* onClose only ever deletes its own session's entry.                      *)
THEOREM EntriesExact == Spec => []EntryIsOwn
  <1>1. InductiveInvariant => EntryIsOwn
    BY DEF InductiveInvariant
  <1>2. QED
    BY Invariance, <1>1, PTL

(* An open session's timer runs or has fired, so no session is forgotten:  *)
(* NewIdleTimeoutConn arms it, and only Close stops it.                    *)
THEOREM TimersRun == Spec => []OpenCanExpire
  <1>1. InductiveInvariant => OpenCanExpire
    BY DEF InductiveInvariant
  <1>2. QED
    BY Invariance, <1>1, PTL

(* A closed session's timer does not run, although the goroutines may call *)
(* touch after Close: both hold c.mu, and touch looks at closed first.     *)
THEOREM ClosedIsDisarmed == Spec => []ClosedStaysDisarmed
  <1>1. InductiveInvariant => ClosedStaysDisarmed
    BY DEF InductiveInvariant
  <1>2. QED
    BY Invariance, <1>1, PTL

(* No datagram is accepted once the reader has seen EOF, although the      *)
(* session was looked up before mu was released: EOF means that the        *)
(* channel was closed, under the lock under which push looks at closed.    *)
THEOREM NothingAfterEof == Spec => []DrainedAtEof
  <1>1. InductiveInvariant => DrainedAtEof
    BY DEF InductiveInvariant
  <1>2. QED
    BY Invariance, <1>1, PTL

=============================================================================
