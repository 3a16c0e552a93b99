------------------------ MODULE ConnectionPoolProofs ------------------------
(***************************************************************************)
(* Proofs about the connection pool, for every capacity, every number of   *)
(* callers of Get and every finite set of connections.                     *)
(***************************************************************************)
EXTENDS ConnectionPool, FiniteSetTheorems, TLAPS

(* The channel holds finitely many connections.                            *)
LEMMA ChannelCount ==
    ASSUME TypeOK
    PROVE  IsFiniteSet(conns) /\ Cardinality(conns) \in Nat
  <1>1. IsFiniteSet(conns)
    BY PoolAssumption, FS_Subset DEF TypeOK
  <1>2. QED
    BY <1>1, FS_CardinalityType

(* Taking from the channel, by Get or by Close.                            *)
LEMMA TakingCount ==
    ASSUME TypeOK, NEW c
    PROVE  /\ Cardinality(conns \ {c}) \in Nat
           /\ Cardinality(conns \ {c}) <= Cardinality(conns)
  <1>1. IsFiniteSet(conns) /\ Cardinality(conns) \in Nat
    BY ChannelCount
  <1>2. IsFiniteSet(conns \ {c})
    BY <1>1, FS_RemoveElement
  <1>3. Cardinality(conns \ {c}) \in Nat
    BY <1>2, FS_CardinalityType
  <1>4. Cardinality(conns \ {c}) =
            IF c \in conns THEN Cardinality(conns) - 1 ELSE Cardinality(conns)
    BY <1>1, FS_RemoveElement
  <1>5. QED
    BY <1>1, <1>3, <1>4

(* Sending to the channel, by maintain.                                    *)
LEMMA SendingCount ==
    ASSUME TypeOK, NEW c
    PROVE  /\ Cardinality(conns \cup {c}) \in Nat
           /\ Cardinality(conns \cup {c}) <= Cardinality(conns) + 1
  <1>1. IsFiniteSet(conns) /\ Cardinality(conns) \in Nat
    BY ChannelCount
  <1>2. Cardinality(conns \cup {c}) =
            IF c \in conns THEN Cardinality(conns) ELSE Cardinality(conns) + 1
    BY <1>1, FS_AddElement
  <1>3. QED
    BY <1>1, <1>2

(* Nothing is open at first.                                               *)
LEMMA InitInv == Init => InductiveInvariant
  <1> SUFFICES ASSUME Init PROVE InductiveInvariant
    OBVIOUS
  <1>1. Cardinality(conns) = 0
    BY FS_EmptySet DEF Init
  <1>2. TypeOK
    <2>1. Cardinality(conns) <= MinIdle
      BY <1>1, PoolAssumption
    <2>2. conns \subseteq Conns /\ open \subseteq Conns
      BY DEF Init
    <2>3. QED
      BY <2>1, <2>2 DEF Init, TypeOK
  <1>3. OneHolder
    BY DEF Init, OneHolder, Holding
  <1>4. DialedFits /\ DrainsLast
    BY DEF Init, DialedFits, DrainsLast
  <1>5. QED
    BY <1>2, <1>3, <1>4 DEF InductiveInvariant

(* Every step of maintain, Get and Close keeps types, holders and order.   *)
LEMMA StepInv == InductiveInvariant /\ [Next]_vars => InductiveInvariant'
  <1> SUFFICES ASSUME InductiveInvariant, [Next]_vars
               PROVE  InductiveInvariant'
    OBVIOUS
  <1>c. Cardinality(conns) \in Nat
    BY ChannelCount DEF InductiveInvariant
  <1> USE PoolAssumption, <1>c
      DEF InductiveInvariant, TypeOK, OneHolder, Holding, DialedFits, DrainsLast,
          getVars, maintainVars
  <1>1. ASSUME NEW from, NEW to, MaintainGoes(from, to),
               from \in {"tick", "fill", "dial", "pause"},
               to \in {"tick", "fill", "pause", "done"}
        PROVE  InductiveInvariant'
    BY <1>1 DEF MaintainGoes
  <1>2. CASE FillMore
    BY <1>2 DEF FillMore, MaintainGoes
  <1>3. ASSUME NEW c \in Conns, MaintainDials(c)
        PROVE  InductiveInvariant'
    BY <1>3 DEF MaintainDials
  <1>4. CASE Offer
    <2>1. Cardinality(conns') <= Cardinality(conns) + 1 /\ Cardinality(conns') \in Nat
      BY <1>4, SendingCount DEF Offer
    <2>2. QED
      BY <1>4, <2>1 DEF Offer
  <1>5. CASE OfferCloses
    BY <1>5 DEF OfferCloses
  <1>6. ASSUME NEW g \in Getters, NEW from, NEW to, GetGoes(g, from, to),
               \/ /\ from \in {"out", "select", "empty", "dial"}
                  /\ to \in {"out", "select", "empty", "dial"}
               \/ from \in {"taken", "dialed"} /\ to = "using"
        PROVE  InductiveInvariant'
    BY <1>6 DEF GetGoes
  <1>7. ASSUME NEW g \in Getters, NEW c \in Conns, GetTakes(g, c)
        PROVE  InductiveInvariant'
    <2>1. Cardinality(conns') <= Cardinality(conns) /\ Cardinality(conns') \in Nat
      BY <1>7, TakingCount DEF GetTakes
    <2>2. QED
      BY <1>7, <2>1 DEF GetTakes
  <1>8. ASSUME NEW g \in Getters, NEW c \in Conns, GetDials(g, c)
        PROVE  InductiveInvariant'
    BY <1>8 DEF GetDials
  <1>9. ASSUME NEW g \in Getters, Holding(g), GivesBack(g)
        PROVE  InductiveInvariant'
    BY <1>9 DEF GivesBack
  <1>10. CASE CloseBegins
    BY <1>10 DEF CloseBegins
  <1>11. CASE CloseCancels
    BY <1>11 DEF CloseCancels
  <1>12. CASE CloseWaits
    BY <1>12 DEF CloseWaits
  <1>13. ASSUME NEW c \in Conns, CloseDrains(c)
         PROVE  InductiveInvariant'
    <2>1. Cardinality(conns') <= Cardinality(conns) /\ Cardinality(conns') \in Nat
      BY <1>13, TakingCount DEF CloseDrains
    <2>2. QED
      BY <1>13, <2>1 DEF CloseDrains
  <1>14. CASE CloseReturns
    BY <1>14 DEF CloseReturns
  <1>15. CASE UNCHANGED vars
    BY <1>15 DEF vars
  <1>16. CASE MaintainStep
    BY <1>1, <1>2, <1>3, <1>4, <1>5, <1>16
       DEF MaintainStep, Tick, TickCancelled, FillEnough, FillCancelled,
           MaintainDialFails, PauseEnds, PauseCancelled
  <1>17. ASSUME NEW g \in Getters, GetBegins(g) \/ GetStep(g) \/ CallerCloses(g)
         PROVE  InductiveInvariant'
    BY <1>6, <1>7, <1>8, <1>9, <1>17
       DEF GetBegins, GetStep, CallerCloses, GetFindsEmpty, GetEmptyClosed,
           GetEmptyOpen, GetDialFails, GetReturns, GetRefuses
  <1>18. QED
    BY <1>10, <1>11, <1>12, <1>13, <1>14, <1>15, <1>16, <1>17 DEF Next, CloseStep

(* InductiveInvariant holds throughout.                                    *)
LEMMA Invariance == Spec => []InductiveInvariant
  BY InitInv, StepInv, PTL DEF Spec

(* Every reachable state is well typed: the channel never exceeds its      *)
(* capacity.                                                               *)
THEOREM TypeCorrect == Spec => []TypeOK
  <1>1. InductiveInvariant => TypeOK
    BY DEF InductiveInvariant
  <1>2. QED
    BY Invariance, <1>1, PTL

(* No interleaving of maintain, Get and Close leaks a connection, hands it *)
(* out twice or closes it under its user.                                  *)
THEOREM Ownership == Spec => []OneHolder
  <1>1. InductiveInvariant => OneHolder
    BY DEF InductiveInvariant
  <1>2. QED
    BY Invariance, <1>1, PTL

(* Close leaves nothing behind, because it drains after wg.Wait.           *)
THEOREM CloseComplete == Spec => []ClosedPoolIsEmpty
  <1>1. InductiveInvariant => ClosedPoolIsEmpty
    BY DEF InductiveInvariant, TypeOK, DrainsLast, ClosedPoolIsEmpty
  <1>2. QED
    BY Invariance, <1>1, PTL

(* The branch of maintain for a full pool is not reached.                  *)
THEOREM RoomForDialed == Spec => []DialedFits
  <1>1. InductiveInvariant => DialedFits
    BY DEF InductiveInvariant
  <1>2. QED
    BY Invariance, <1>1, PTL

=============================================================================
