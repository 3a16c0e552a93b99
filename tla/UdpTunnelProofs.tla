-------------------------- MODULE UdpTunnelProofs --------------------------
(***************************************************************************)
(* Proofs about the UDP sessions of the client, for every number of        *)
(* source addresses, destinations and sessions and for both of the         *)
(* functions UdpTunnel models.                                             *)
(***************************************************************************)
EXTENDS UdpTunnel, TLAPS

(* The two maps start empty and no session exists.                         *)
LEMMA InitInv == Init => InductiveInvariant
  BY UdpAssumption DEF Init, InductiveInvariant, TypeOK, Dialed, MapsAgree,
                       NoDeadSessionMapped

(* Every critical section of mu keeps types, references and maps.          *)
LEMMA StepInv == InductiveInvariant /\ [Next]_vars => InductiveInvariant'
  <1> SUFFICES ASSUME InductiveInvariant, [Next]_vars
               PROVE  InductiveInvariant'
    OBVIOUS
  <1> USE UdpAssumption
      DEF InductiveInvariant, TypeOK, Dialed, MapsAgree, NoDeadSessionMapped,
          maps, sessionVars, loopVars
  <1>1. ASSUME NEW p \in Peers, NEW d \in Targets, Receive(p, d)
        PROVE  InductiveInvariant'
    BY <1>1 DEF Receive, Reset
  <1>2. ASSUME NEW s \in Sessions, Dial(s)
        PROVE  InductiveInvariant'
    BY <1>2 DEF Dial
  <1>3. CASE Write
    BY <1>3 DEF Write
  <1>4. CASE WriteFails
    BY <1>4 DEF WriteFails
  <1>5. CASE Drop
    BY <1>5 DEF Drop, Forget
  <1>6. CASE DropCloses
    BY <1>6 DEF DropCloses
  <1>7. ASSUME NEW s \in Sessions, Fire(s)
        PROVE  InductiveInvariant'
    BY <1>7 DEF Fire
  <1>8. ASSUME NEW s \in Sessions, Expire(s)
        PROVE  InductiveInvariant'
    BY <1>8 DEF Expire
  <1>9. ASSUME NEW s \in Sessions, ExpireCloses(s)
        PROVE  InductiveInvariant'
    BY <1>9 DEF ExpireCloses
  <1>10. ASSUME NEW s \in Sessions, ExpireTProxy(s)
         PROVE  InductiveInvariant'
    BY <1>10 DEF ExpireTProxy
  <1>11. ASSUME NEW s \in Sessions, Read(s)
         PROVE  InductiveInvariant'
    BY <1>11 DEF Read
  <1>12. ASSUME NEW s \in Sessions, Reply(s)
         PROVE  InductiveInvariant'
    BY <1>12 DEF Reply, Reset
  <1>13. ASSUME NEW s \in Sessions, ReadFails(s)
         PROVE  InductiveInvariant'
    BY <1>13 DEF ReadFails
  <1>14. ASSUME NEW s \in Sessions, Leave(s)
         PROVE  InductiveInvariant'
    BY <1>14 DEF Leave, Forget
  <1>15. ASSUME NEW s \in Sessions, LeaveCloses(s)
         PROVE  InductiveInvariant'
    BY <1>15 DEF LeaveCloses
  <1>16. CASE UNCHANGED vars
    BY <1>16 DEF vars
  <1>17. ASSUME NEW p \in Peers, NEW d \in Targets, DialBegins(p, d)
         PROVE  InductiveInvariant'
    BY <1>17 DEF DialBegins
  <1>18. CASE DialFails
    BY <1>18 DEF DialFails
  <1>19. QED
    BY <1>1, <1>2, <1>3, <1>4, <1>5, <1>6, <1>7, <1>8, <1>9, <1>10, <1>11,
       <1>12, <1>13, <1>14, <1>15, <1>16, <1>17, <1>18
       DEF Next, Incoming, DialReturns, LoopStep, TimerStep, ReaderStep

(* InductiveInvariant holds throughout.                                    *)
LEMMA Invariance == Spec => []InductiveInvariant
  BY InitInv, StepInv, PTL DEF Spec

(* Every reachable state is well typed; in particular the receive loop     *)
(* never writes to a nil stream after clients[srcAddr] was looked up.      *)
THEOREM TypeCorrect == Spec => []TypeOK
  <1>1. InductiveInvariant => TypeOK
    BY DEF InductiveInvariant
  <1>2. QED
    BY Invariance, <1>1, PTL

(* clients and timers have the same entries whenever mu is free, although  *)
(* three goroutines delete from them.                                      *)
THEOREM MapsConsistent == Spec => []MapsAgree
  <1>1. InductiveInvariant => MapsAgree
    BY DEF InductiveInvariant
  <1>2. QED
    BY Invariance, <1>1, PTL

(* The stream clients has for a source was dialed for it and its reader    *)
(* goroutine has yet to remove it, so no entry outlives its session.       *)
THEOREM MappedAlive == Spec => []NoDeadSessionMapped
  <1>1. InductiveInvariant => NoDeadSessionMapped
    BY DEF InductiveInvariant
  <1>2. QED
    BY Invariance, <1>1, PTL

=============================================================================
