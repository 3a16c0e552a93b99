---------------------------- MODULE TunnelProofs ----------------------------
(***************************************************************************)
(* Proofs about Tunnel, for every set of schemes, transports and targets   *)
(* and every number and size of pieces of data: the inductive invariant,   *)
(* the properties that follow from it, and that Tunnel implements Duplex.  *)
(***************************************************************************)
EXTENDS TunnelOrderProofs

-----------------------------------------------------------------------------
(* The initial states.                                                     *)
LEMMA InitInv == Init => InductiveInvariant
<1> SUFFICES ASSUME Init PROVE InductiveInvariant
  OBVIOUS
<1> USE TunnelAssumption DEF Init, Ends, Peer
<1>1. TypeOK
  BY DEF TypeOK
<1>2. Phases
  BY DEF Phases, Reverse
<1>3. InOrder
  <2> SUFFICES ASSUME NEW e \in Ends PROVE InOrderFrom(e)
    BY DEF InOrder
  <2>1. wire[e] = <<>> /\ got[Peer(e)] = <<>> /\ Passed(e) = 0 /\ up[e] = "off"
    BY DEF Passed
  <2>2. Len(got[Peer(e)]) = 0
    BY <2>1
  <2>3. Consecutive(<<>>, 0, 0) /\ Reaches(<<>>, 0, 0) /\ DataOn(<<>>) = {}
    BY Empty
  <2> QED  BY <2>1, <2>2, <2>3 DEF InOrderFrom
<1>4. FrameInv
  BY DEF FrameInv, FrameComesFirst
<1>5. NothingLeftOpen
  BY DEF NothingLeftOpen
<1>6. DeliveryInv
  <2>1. \A e \in Ends : wire[e] = <<>> /\ DOMAIN <<>> = {}
    OBVIOUS
  <2>2. \A e \in Ends : ByesFrom(e) /\ EndingOf(e)
    BY <2>1 DEF ByesFrom, EndingOf, Closes, Tidy
  <2> QED  BY <2>2 DEF DeliveryInv, Sides, Reverse
<1>7. PassingInv
  <2>1. \A e \in Ends : /\ got[e] = <<>> /\ DOMAIN got[e] = {} /\ Len(got[e]) = 0
                        /\ written[e] = 0 /\ InHand(e) = 0
    BY DEF InHand
  <2> QED  BY <2>1 DEF PassingInv
<1> QED  BY <1>1, <1>2, <1>3, <1>4, <1>5, <1>6, <1>7 DEF InductiveInvariant

-----------------------------------------------------------------------------
(* The phases of the two sides and the types, action by action.            *)

(* The types of what the copying goroutines, the pinger and the network    *)
(* change.                                                                 *)
CopyTypes ==
    /\ local \in [Ends -> {"none", "open", "closed"}]
    /\ up \in [Ends -> {"off", "read", "write", "bye", "end"}]
    /\ down \in [Ends -> {"off", "read", "write", "pong", "end"}]
    /\ pinger \in {"off", "on", "write"}
    /\ tr \in [Ends -> {"none", "open", "noread", "closed"}]
    /\ link \in [Ends -> {"up", "silent", "reset"}]

(* When a step changes nothing else, these are all that has to be shown.   *)
LEMMA TypesKept ==
    ASSUME TypeOK, CopyTypes', UNCHANGED <<setup, cpc, spc, app, copied>>
    PROVE  TypeOK'
BY Zenon DEF TypeOK, CopyTypes, setup, app, copied

(* The client gives the tunnel up, wherever its goroutine is.              *)
LEMMA AbandonPhases ==
    ASSUME TypeOK, Phases, NothingLeftOpen, Abandon,
           UNCHANGED <<setup, spc, app, copied, up, down, pinger, link>>
    PROVE  TypeOK' /\ Phases' /\ NothingLeftOpen'
<1> USE DEF setup, app, copied, Reverse
<1>1. /\ tr' = [tr EXCEPT !["client"] = "closed"] /\ wire' \in [Ends -> Seq(Message)]
      /\ cpc' \in {"done", "again"}
      /\ local' = LocalClosed("client")
  BY HangupFacts, Zenon DEF Abandon, Leave, Ends
<1>2. /\ tr'["client"] = "closed" /\ tr'["server"] = tr["server"]
      /\ local'["server"] = local["server"]
      /\ local'["client"] = "open" => scheme = "stdio"
      /\ tr' \in [Ends -> {"none", "open", "noread", "closed"}]
      /\ local' \in [Ends -> {"none", "open", "closed"}]
  BY <1>1 DEF TypeOK, LocalClosed, Ends
<1>3. TypeOK'
  BY <1>1, <1>2, Zenon DEF TypeOK
<1>4. Phases'
  BY <1>1, <1>2, Zenon DEF Phases
<1>5. NothingLeftOpen'
  BY <1>1, <1>2, Zenon DEF NothingLeftOpen
<1> QED  BY <1>3, <1>4, <1>5, Zenon

(* The server gives the tunnel up before it has copied.                    *)
LEMMA GivesUpPhases ==
    ASSUME TypeOK, Phases, NothingLeftOpen, spc \in {"dial", "parked"}, ServerGivesUp
    PROVE  TypeOK' /\ Phases' /\ NothingLeftOpen'
<1> USE DEF setup, app, copied, Reverse
<1>1. /\ tr' = [tr EXCEPT !["server"] = "closed"] /\ wire' \in [Ends -> Seq(Message)]
      /\ spc' = "done"
      /\ UNCHANGED <<setup, cpc, local, app, copied, up, down, pinger, link>>
  BY HangupFacts, Zenon DEF ServerGivesUp, Ends
<1>2. /\ tr'["server"] = "closed" /\ tr'["client"] = tr["client"]
      /\ tr' \in [Ends -> {"none", "open", "noread", "closed"}]
  BY <1>1 DEF TypeOK, Ends
<1>3. TypeOK'
  BY <1>1, <1>2, Zenon DEF TypeOK
<1>4. Phases'
  BY <1>1, <1>2, Zenon DEF Phases
<1>5. NothingLeftOpen'
  BY <1>1, <1>2, Zenon DEF NothingLeftOpen, Phases
<1> QED  BY <1>3, <1>4, <1>5, Zenon

(* Actions of the setup that leave the transport alone or close it.        *)
LEMMA SetupPhases ==
    ASSUME TypeOK, Phases, NothingLeftOpen,
           \/ Accept \/ Handshake \/ Dial \/ DialFails \/ Accepted \/ NotAccepted
           \/ NoFrame \/ DialsLocal \/ LocalFails
           \/ Rejects \/ Serves \/ DialsTarget \/ TargetFails \/ FrameFails \/ ParkedTooLong
    PROVE  TypeOK' /\ Phases' /\ NothingLeftOpen'
<1> USE TunnelAssumption DEF TypeOK, Phases, NothingLeftOpen, Ends, Peer, Reverse,
        setup, app, copied, net, Leave, LocalClosed, StartCopying
<1>1. CASE Accept
  BY <1>1 DEF Accept
<1>2. CASE Handshake
  BY <1>2 DEF Handshake
<1>3. CASE Dial
  BY <1>3 DEF Dial
<1>4. CASE DialFails
  BY <1>4, AbandonPhases, Zenon DEF DialFails
<1>5. CASE Accepted
  <2>1. TypeOK'
    BY <1>5 DEF Accepted
  <2>2. Phases'
    <3>1. CASE Reverse
      BY <1>5, <3>1, SMTT(30) DEF Accepted
    <3>2. CASE ~Reverse
      BY <1>5, <3>2, SMTT(30) DEF Accepted
    <3> QED  BY <3>1, <3>2, Zenon
  <2>3. NothingLeftOpen'
    BY <1>5 DEF Accepted
  <2> QED  BY <2>1, <2>2, <2>3, ZenonT(60)
<1>6. CASE NotAccepted
  BY <1>6, AbandonPhases, Zenon DEF NotAccepted
<1>7. CASE NoFrame
  BY <1>7, AbandonPhases, Zenon DEF NoFrame
<1>8. CASE DialsLocal
  BY <1>8 DEF DialsLocal
<1>9. CASE LocalFails
  BY <1>9, AbandonPhases, Zenon DEF LocalFails
<1>10. CASE Rejects
  BY <1>10 DEF Rejects
<1>11. CASE Serves
  BY <1>11 DEF Serves
<1>12. CASE DialsTarget
  BY <1>12, ZenonT(60) DEF DialsTarget
<1>13. CASE TargetFails
  BY <1>13, GivesUpPhases, Zenon DEF TargetFails
<1>14. CASE FrameFails
  BY <1>14, GivesUpPhases, Zenon DEF FrameFails
<1>15. CASE ParkedTooLong
  BY <1>15, GivesUpPhases, Zenon DEF ParkedTooLong
<1> HIDE DEF TypeOK, Phases, NothingLeftOpen
<1> QED  BY <1>1, <1>2, <1>3, <1>4, <1>5, <1>6, <1>7, <1>8, <1>9, <1>10, <1>11, <1>12, <1>13, <1>14, <1>15, Zenon

(* Actions that copy, ping and return, and those of the network and of the *)
(* applications.                                                           *)
LEMMA CopyPhases ==
    ASSUME TypeOK, Phases, NothingLeftOpen, InOrder, FrameInv,
           \/ ReadsFrame \/ \E t \in Targets : IncomingConnection(t)
           \/ \E e \in Ends : AppSends(e) \/ AppEnds(e) \/ UpStep(e) \/ DownStep(e) \/ Delivers(e)
           \/ Ticks \/ Pings \/ PingerStops \/ ClientReturns \/ ServerReturns
           \/ \E how \in {"silent", "reset"} : NetworkFails(how)
    PROVE  TypeOK' /\ Phases' /\ NothingLeftOpen'
<1>h. ASSUME NEW e \in Ends, Hangup(e)
      PROVE  tr' = [tr EXCEPT ![e] = "closed"] /\ wire' \in [Ends -> Seq(Message)]
  BY <1>h, HangupFacts
<1>c. ASSUME NEW e \in Ends, CloseStream(e)
      PROVE  /\ wire' \in [Ends -> Seq(Message)]
             /\ \E x \in {"none", "noread", "closed"} :
                   /\ tr' = [tr EXCEPT ![e] = x]
                   /\ tr[e] = "none" => x \in {"none", "closed"}
                   /\ tr[e] = "closed" => x = "closed"
  <2>1. CASE Hangup(e)
    BY <1>h, <2>1
  <2>2. CASE tr' = [tr EXCEPT ![e] = IF @ = "open" THEN "noread" ELSE @] /\ wire' = wire
    BY <2>2, Zenon DEF TypeOK, Phases
  <2> QED  BY <1>c, <2>1, <2>2, CloseFacts
<1>x. ASSUME NEW e \in Ends, CloseStream(e)
      PROVE  tr' \in [Ends -> {"none", "open", "noread", "closed"}]
  BY <1>c, <1>x, Zenon DEF TypeOK
<1>w. ASSUME NEW e \in Ends, NEW m \in Message, CanWrite(e), Write(e, m)
      PROVE  /\ tr' = tr
             /\ link' \in [Ends -> {"up", "silent", "reset"}]
             /\ wire' \in [Ends -> Seq(Message)]
  BY <1>w, WriteFacts
<1>r. ASSUME NEW e \in Ends, CanRead(e), wire' = Consumed(e)
      PROVE  wire' \in [Ends -> Seq(Message)]
  BY <1>r DEF CanRead, Consumed, Phases, Ends, Peer
<1>f. ASSUME ReadsFrame PROVE dialed' = want /\ want \in Targets
  BY <1>f, SMT DEF ReadsFrame, CanRead, Received, FrameInv, FrameComesFirst, TypeOK, Phases,
                   Peer, Frame
<1>l. /\ sent \in [Ends -> Nat] /\ taken \in [Ends -> Nat]
      /\ \A e \in Ends : /\ Limit[e] \in 0 .. Len(Size)
                         /\ taken[e] <= sent[e] /\ sent[e] <= Limit[e]
  BY TunnelAssumption DEF TypeOK
<1>y. /\ tr \in [Ends -> {"none", "open", "noread", "closed"}]
      /\ link \in [Ends -> {"up", "silent", "reset"}]
      /\ up \in [Ends -> {"off", "read", "write", "bye", "end"}]
      /\ down \in [Ends -> {"off", "read", "write", "pong", "end"}]
      /\ local \in [Ends -> {"none", "open", "closed"}]
      /\ pinger \in {"off", "on", "write"}
      /\ \A e \in Ends : LocalClosed(e) \in [Ends -> {"none", "open", "closed"}]
  BY DEF TypeOK, LocalClosed
<1>s. ASSUME NEW e \in Ends, UpStops(e)
      PROVE  /\ local' \in [Ends -> {"none", "open", "closed"}]
             /\ tr' \in [Ends -> {"none", "open", "noread", "closed"}]
             /\ up' \in [Ends -> {"off", "read", "write", "bye", "end"}]
  <2>1. CloseStream(e) \/ tr' = tr
    BY <1>s, Zenon DEF UpStops
  <2>2. local' = LocalClosed(e) \/ local' = local
    BY <1>s, Zenon DEF UpStops
  <2>3. up' = [up EXCEPT ![e] = "end"] \/ up' = [up EXCEPT ![e] = "bye"]
    BY <1>s, Zenon DEF UpStops
  <2>4. tr' \in [Ends -> {"none", "open", "noread", "closed"}]
    BY <2>1, <1>x, <1>y, Zenon
  <2>5. local' \in [Ends -> {"none", "open", "closed"}]
    BY <2>2, <1>y, Zenon
  <2>6. up' \in [Ends -> {"off", "read", "write", "bye", "end"}]
    BY <2>3, <1>y, Zenon
  <2> QED  BY <2>4, <2>5, <2>6, Zenon
<1>d. ASSUME NEW e \in Ends, up[e] = "write" PROVE taken[e] \in 1 .. Len(Size)
  <2>1. taken[e] > 0
    BY <1>d DEF InOrder, InOrderFrom
  <2> QED  BY <1>l, <2>1, TunnelAssumption
<1> USE DEF setup, app, copied, net
<1>1. CASE ReadsFrame
  <2>1. TypeOK'
    BY <1>1, <1>f DEF TypeOK, ReadsFrame
  <2>2. Phases'
    BY <1>1, <1>r DEF TypeOK, Phases, Ends, Reverse, ReadsFrame
  <2>3. NothingLeftOpen'
    BY <1>1, <1>r DEF TypeOK, Phases, NothingLeftOpen, Ends, Reverse, ReadsFrame
  <2> QED  BY <2>1, <2>2, <2>3
<1>2. ASSUME NEW t \in Targets, IncomingConnection(t)
      PROVE  TypeOK' /\ Phases' /\ NothingLeftOpen'
  <2>0. Frame(t) \in Message
    BY Messages
  <2>0a. /\ tr' = tr /\ link' \in [Ends -> {"up", "silent", "reset"}]
         /\ want' \in Targets \cup {None}
    BY <1>2, <1>w, <2>0 DEF TypeOK, IncomingConnection, Ends
  <2>1. TypeOK'
    BY <1>2, <2>0a, Zenon DEF TypeOK, IncomingConnection, StartCopying
  <2>2. Phases'
    BY <1>2, <1>w, <2>0, ZenonT(60) DEF TypeOK, Phases, Ends, Reverse, IncomingConnection, StartCopying
  <2>3. NothingLeftOpen'
    BY <1>2, <1>w, <2>0 DEF TypeOK, Phases, NothingLeftOpen, Ends, Reverse, IncomingConnection, StartCopying
  <2> QED  BY <2>1, <2>2, <2>3
<1>3. ASSUME NEW e \in Ends, AppSends(e)
      PROVE  TypeOK' /\ Phases' /\ NothingLeftOpen'
  <2>0. /\ sent' \in [Ends -> Nat]
        /\ \A f \in Ends : taken[f] <= sent'[f] /\ sent'[f] <= Limit[f]
    BY <1>3, <1>l DEF AppSends
  <2>1. TypeOK'
    BY <1>3, <2>0 DEF TypeOK, AppSends
  <2>2. Phases'
    BY <1>3 DEF TypeOK, Phases, Ends, Reverse, AppSends
  <2>3. NothingLeftOpen'
    BY <1>3 DEF TypeOK, Phases, NothingLeftOpen, Ends, Reverse, AppSends
  <2> QED  BY <2>1, <2>2, <2>3
<1>4. ASSUME NEW e \in Ends, AppEnds(e)
      PROVE  TypeOK' /\ Phases' /\ NothingLeftOpen'
  <2>1. TypeOK'
    BY <1>4 DEF TypeOK, AppEnds
  <2>2. Phases'
    BY <1>4 DEF TypeOK, Phases, Ends, Reverse, AppEnds
  <2>3. NothingLeftOpen'
    BY <1>4 DEF TypeOK, Phases, NothingLeftOpen, Ends, Reverse, AppEnds
  <2> QED  BY <2>1, <2>2, <2>3
<1>5. ASSUME NEW e \in Ends, UpReads(e)
      PROVE  TypeOK' /\ Phases' /\ NothingLeftOpen'
  <2>0. taken' \in [Ends -> Nat] /\ \A f \in Ends : taken'[f] <= sent[f]
    BY <1>5, <1>l DEF UpReads
  <2>0a. \A f \in Ends : f # e => taken'[f] = taken[f] /\ up'[f] = up[f]
    BY <1>5, <1>l DEF UpReads, TypeOK
  <2>1. TypeOK'
    BY <1>5, <2>0 DEF TypeOK, UpReads
  <2>2. Phases'
    BY <1>5, <2>0a, ZenonT(60) DEF TypeOK, Phases, Ends, Reverse, UpReads
  <2>3. NothingLeftOpen'
    BY <1>5, ZenonT(60) DEF TypeOK, Phases, NothingLeftOpen, Ends, Reverse, UpReads
  <2> QED  BY <2>1, <2>2, <2>3
<1>6. ASSUME NEW e \in Ends, UpReadEnds(e)
      PROVE  TypeOK' /\ Phases' /\ NothingLeftOpen'
  <2>0. /\ local' \in [Ends -> {"none", "open", "closed"}]
        /\ tr' \in [Ends -> {"none", "open", "noread", "closed"}]
        /\ up' \in [Ends -> {"off", "read", "write", "bye", "end"}]
    BY <1>6, <1>s, Zenon DEF UpReadEnds
  <2>1. TypeOK'
    <3>1. CopyTypes'
      BY <1>6, <1>y, <2>0, Zenon DEF UpReadEnds, CopyTypes
    <3>2. UNCHANGED <<setup, cpc, spc, app, copied>>
      BY <1>6, Zenon DEF UpReadEnds
    <3> QED  BY <3>1, <3>2, TypesKept, Zenon
  <2>2. Phases'
    BY <1>6, <1>c DEF TypeOK, Phases, Ends, Reverse, UpReadEnds, UpStops, LocalClosed
  <2>3. NothingLeftOpen'
    BY <1>6, <1>c DEF TypeOK, Phases, NothingLeftOpen, Ends, Reverse, UpReadEnds, UpStops, LocalClosed
  <2> QED  BY <2>1, <2>2, <2>3
<1>7. ASSUME NEW e \in Ends, UpWrites(e)
      PROVE  TypeOK' /\ Phases' /\ NothingLeftOpen'
  <2>0. Data(taken[e]) \in Message
    BY <1>7, <1>d, Messages DEF UpWrites
  <2>1. TypeOK'
    <3>1. CopyTypes'
      BY <1>7, <1>y, <1>w, <2>0, Zenon DEF UpWrites, CopyTypes
    <3>2. UNCHANGED <<setup, cpc, spc, app, copied>>
      BY <1>7, Zenon DEF UpWrites
    <3> QED  BY <3>1, <3>2, TypesKept, Zenon
  <2>2. Phases'
    BY <1>7, <1>w, <2>0, ZenonT(60) DEF TypeOK, Phases, Ends, Reverse, UpWrites
  <2>3. NothingLeftOpen'
    BY <1>7, <1>w, <2>0 DEF TypeOK, Phases, NothingLeftOpen, Ends, Reverse, UpWrites
  <2> QED  BY <2>1, <2>2, <2>3
<1>8. ASSUME NEW e \in Ends, UpWriteFails(e)
      PROVE  TypeOK' /\ Phases' /\ NothingLeftOpen'
  <2>0. /\ local' \in [Ends -> {"none", "open", "closed"}]
        /\ tr' \in [Ends -> {"none", "open", "noread", "closed"}]
        /\ up' \in [Ends -> {"off", "read", "write", "bye", "end"}]
    BY <1>8, <1>s, Zenon DEF UpWriteFails
  <2>1. TypeOK'
    <3>1. CopyTypes'
      BY <1>8, <1>y, <2>0, Zenon DEF UpWriteFails, CopyTypes
    <3>2. UNCHANGED <<setup, cpc, spc, app, copied>>
      BY <1>8, Zenon DEF UpWriteFails
    <3> QED  BY <3>1, <3>2, TypesKept, Zenon
  <2>2. Phases'
    BY <1>8, <1>c DEF TypeOK, Phases, Ends, Reverse, UpWriteFails, UpStops, LocalClosed
  <2>3. NothingLeftOpen'
    BY <1>8, <1>c, ZenonT(60) DEF TypeOK, Phases, NothingLeftOpen, Ends, Reverse, UpWriteFails, UpStops, LocalClosed
  <2> QED  BY <2>1, <2>2, <2>3
<1>9. ASSUME NEW e \in Ends, UpSaysBye(e)
      PROVE  TypeOK' /\ Phases' /\ NothingLeftOpen'
  <2>0. Control("close") \in Message
    BY Messages
  <2>1. TypeOK'
    <3>1. CopyTypes'
      BY <1>9, <1>y, <1>w, <2>0, Zenon DEF UpSaysBye, CopyTypes
    <3>2. UNCHANGED <<setup, cpc, spc, app, copied>>
      BY <1>9, Zenon DEF UpSaysBye
    <3> QED  BY <3>1, <3>2, TypesKept, Zenon
  <2>2. Phases'
    BY <1>9, <1>w, <2>0, ZenonT(60) DEF TypeOK, Phases, Ends, Reverse, UpSaysBye
  <2>3. NothingLeftOpen'
    BY <1>9, <1>w, <2>0, ZenonT(60) DEF TypeOK, Phases, NothingLeftOpen, Ends, Reverse, UpSaysBye
  <2> QED  BY <2>1, <2>2, <2>3
<1>10. ASSUME NEW e \in Ends, ReadsData(e)
      PROVE  TypeOK' /\ Phases' /\ NothingLeftOpen'
  <2>0. Payload(Received(e)) \in Chunks
    BY <1>10, DataFacts, TunnelAssumption DEF Chunks, ReadsData
  <2>1. TypeOK'
    BY <1>10, <2>0 DEF TypeOK, ReadsData
  <2>2. Phases'
    BY <1>10, <1>r, ZenonT(60) DEF TypeOK, Phases, Ends, Reverse, ReadsData
  <2>3. NothingLeftOpen'
    BY <1>10, <1>r, ZenonT(60) DEF TypeOK, Phases, NothingLeftOpen, Ends, Reverse, ReadsData
  <2> QED  BY <2>1, <2>2, <2>3
<1>11. ASSUME NEW e \in Ends, ReadsControl(e)
      PROVE  TypeOK' /\ Phases' /\ NothingLeftOpen'
  <2>1. TypeOK'
    <3>1. CopyTypes'
      BY <1>11, <1>y, Zenon DEF ReadsControl, CopyTypes
    <3>2. UNCHANGED <<setup, cpc, spc, app, copied>>
      BY <1>11, Zenon DEF ReadsControl
    <3> QED  BY <3>1, <3>2, TypesKept, Zenon
  <2>2. Phases'
    BY <1>11, <1>r, ZenonT(60) DEF TypeOK, Phases, Ends, Reverse, ReadsControl
  <2>3. NothingLeftOpen'
    BY <1>11, <1>r DEF TypeOK, Phases, NothingLeftOpen, Ends, Reverse, ReadsControl
  <2> QED  BY <2>1, <2>2, <2>3
<1>12. ASSUME NEW e \in Ends, Pongs(e)
      PROVE  TypeOK' /\ Phases' /\ NothingLeftOpen'
  <2>0. Control("pong") \in Message
    BY Messages
  <2>1. TypeOK'
    <3>1. CopyTypes'
      BY <1>12, <1>y, <1>w, <2>0, Zenon DEF Pongs, CopyTypes
    <3>2. UNCHANGED <<setup, cpc, spc, app, copied>>
      BY <1>12, Zenon DEF Pongs
    <3> QED  BY <3>1, <3>2, TypesKept, Zenon
  <2>2. Phases'
    BY <1>12, <1>w, <2>0, ZenonT(60) DEF TypeOK, Phases, Ends, Reverse, Pongs
  <2>3. NothingLeftOpen'
    BY <1>12, <1>w, <2>0, ZenonT(60) DEF TypeOK, Phases, NothingLeftOpen, Ends, Reverse, Pongs
  <2> QED  BY <2>1, <2>2, <2>3
<1>13. ASSUME NEW e \in Ends, DownEnds(e)
      PROVE  TypeOK' /\ Phases' /\ NothingLeftOpen'
  <2>0. /\ local' \in [Ends -> {"none", "open", "closed"}]
        /\ tr' \in [Ends -> {"none", "open", "noread", "closed"}]
        /\ down' \in [Ends -> {"off", "read", "write", "pong", "end"}]
    BY <1>13, <1>y, <1>x DEF DownEnds
  <2>1. TypeOK'
    <3>1. CopyTypes'
      BY <1>13, <1>y, <2>0, Zenon DEF DownEnds, CopyTypes
    <3>2. UNCHANGED <<setup, cpc, spc, app, copied>>
      BY <1>13, Zenon DEF DownEnds
    <3> QED  BY <3>1, <3>2, TypesKept, Zenon
  <2>2. Phases'
    BY <1>13, <1>c, ZenonT(60) DEF TypeOK, Phases, Ends, Reverse, DownEnds, DownFails, LocalClosed
  <2>3. NothingLeftOpen'
    BY <1>13, <1>c, ZenonT(60) DEF TypeOK, Phases, NothingLeftOpen, Ends, Reverse, DownEnds, LocalClosed
  <2> QED  BY <2>1, <2>2, <2>3
<1>14. CASE Ticks
  <2>1. TypeOK'
    <3>1. CopyTypes'
      BY <1>14, <1>y, Zenon DEF Ticks, CopyTypes
    <3>2. UNCHANGED <<setup, cpc, spc, app, copied>>
      BY <1>14, Zenon DEF Ticks
    <3> QED  BY <3>1, <3>2, TypesKept, Zenon
  <2>2. Phases'
    BY <1>14, ZenonT(60) DEF TypeOK, Phases, Ends, Reverse, Ticks
  <2>3. NothingLeftOpen'
    BY <1>14 DEF TypeOK, Phases, NothingLeftOpen, Ends, Reverse, Ticks
  <2> QED  BY <2>1, <2>2, <2>3
<1>15. CASE Pings
  <2>0. Control("ping") \in Message /\ "client" \in Ends
    BY Messages DEF Ends
  <2>0a. /\ tr' \in [Ends -> {"none", "open", "noread", "closed"}]
         /\ link' \in [Ends -> {"up", "silent", "reset"}]
    BY <1>15, <1>y, <1>w, <1>h, <2>0, Zenon DEF Pings
  <2>1. TypeOK'
    <3>1. CopyTypes'
      BY <1>15, <1>y, <2>0a, Zenon DEF Pings, CopyTypes
    <3>2. UNCHANGED <<setup, cpc, spc, app, copied>>
      BY <1>15, Zenon DEF Pings
    <3> QED  BY <3>1, <3>2, TypesKept, Zenon
  <2>2. Phases'
    BY <1>15, <1>w, <1>h, <2>0, ZenonT(60) DEF TypeOK, Phases, Ends, Reverse, Pings
  <2>3. NothingLeftOpen'
    BY <1>15, <1>w, <1>h, <2>0, ZenonT(60) DEF TypeOK, Phases, NothingLeftOpen, Ends, Reverse, Pings
  <2> QED  BY <2>1, <2>2, <2>3
<1>16. CASE ClientReturns
  BY <1>16, AbandonPhases, Zenon DEF ClientReturns
<1>17. CASE ServerReturns
  <2>1. TypeOK'
    BY <1>17, <1>h, ZenonT(60) DEF TypeOK, ServerReturns, LocalClosed, Ends
  <2>2. Phases'
    BY <1>17, <1>h, ZenonT(60) DEF TypeOK, Phases, Ends, Reverse, ServerReturns, LocalClosed
  <2>3. NothingLeftOpen'
    BY <1>17, <1>h DEF TypeOK, Phases, NothingLeftOpen, Ends, Reverse, ServerReturns, LocalClosed
  <2> QED  BY <2>1, <2>2, <2>3
<1>18. ASSUME NEW how \in {"silent", "reset"}, NetworkFails(how)
      PROVE  TypeOK' /\ Phases' /\ NothingLeftOpen'
  <2>1. TypeOK'
    <3>1. CopyTypes'
      BY <1>18, <1>y, Zenon DEF NetworkFails, CopyTypes
    <3>2. UNCHANGED <<setup, cpc, spc, app, copied>>
      BY <1>18, Zenon DEF NetworkFails
    <3> QED  BY <3>1, <3>2, TypesKept, Zenon
  <2>2. Phases'
    BY <1>18 DEF TypeOK, Phases, Ends, Reverse, NetworkFails
  <2>3. NothingLeftOpen'
    BY <1>18 DEF TypeOK, Phases, NothingLeftOpen, Ends, Reverse, NetworkFails
  <2> QED  BY <2>1, <2>2, <2>3
<1>19. ASSUME NEW e \in Ends, Delivers(e)
      PROVE  TypeOK' /\ Phases' /\ NothingLeftOpen'
  <2>1. TypeOK'
    BY <1>19 DEF TypeOK, Delivers
  <2>2. Phases'
    BY <1>19, ZenonT(60) DEF TypeOK, Phases, Ends, Reverse, Delivers
  <2>3. NothingLeftOpen'
    BY <1>19, ZenonT(60) DEF NothingLeftOpen, Delivers
  <2> QED  BY <2>1, <2>2, <2>3
<1>20. CASE PingerStops
  <2>1. TypeOK'
    <3>1. CopyTypes'
      BY <1>20, <1>y, Zenon DEF PingerStops, CopyTypes
    <3>2. UNCHANGED <<setup, cpc, spc, app, copied>>
      BY <1>20, Zenon DEF PingerStops
    <3> QED  BY <3>1, <3>2, TypesKept, Zenon
  <2>2. Phases'
    BY <1>20, ZenonT(60) DEF Phases, Reverse, PingerStops
  <2>3. NothingLeftOpen'
    BY <1>20, ZenonT(60) DEF NothingLeftOpen, PingerStops
  <2> QED  BY <2>1, <2>2, <2>3
<1> QED  BY <1>1, <1>2, <1>3, <1>4, <1>5, <1>6, <1>7, <1>8, <1>9, <1>10, <1>11, <1>12, <1>13, <1>14, <1>15, <1>16, <1>17, <1>18,
         <1>19, <1>20, ZenonT(60) DEF UpStep, DownStep

-----------------------------------------------------------------------------
(* The target frame, action by action.                                     *)
LEMMA FrameStep ==
    ASSUME TypeOK, Phases, NothingLeftOpen, InOrder, FrameInv, Next PROVE FrameInv'
<1> USE DEF setup, copied, net
<1>e. /\ "client" \in Ends /\ "server" \in Ends
      /\ Peer("client") = "server" /\ Peer("server") = "client"
      /\ \A e \in Ends : e = "client" \/ e = "server"
      /\ wire["client"] \in Seq(Message) /\ wire["server"] \in Seq(Message)
  BY DEF Ends, Peer, Phases
<1>u. /\ up["client"] # "off" \/ down["client"] # "off" =>
            cpc \notin {"accept", "handshake", "connect", "request", "frame", "dial"}
      /\ (up["server"] # "off" \/ down["server"] # "off") /\ scheme = "dynamic" => want # None
  BY <1>e DEF Phases, FrameInv
<1>h. ASSUME NEW e \in Ends, Hangup(e)
      PROVE  /\ tr' = [tr EXCEPT ![e] = "closed"]
             /\ e = "client" => wire'["server"] = wire["server"]
             /\ e = "server" => wire'["client"] = wire["client"]
             /\ wire["server"] = <<>> => wire'["server"] = <<>>
             /\ wire["client"] = <<>> => wire' = wire \/ e = "client"
             /\ wire["client"] = <<>> => wire'["client"] = <<>>
  <2>1. /\ tr' = [tr EXCEPT ![e] = "closed"]
        /\ wire' \in [Ends -> Seq(Message)]
        /\ wire'[Peer(e)] = wire[Peer(e)]
        /\ \E l \in 0 .. Len(wire[e]) : wire'[e] = SubSeq(wire[e], 1, l)
        /\ e = "server" /\ wire["client"] = <<>> => wire'["server"] = wire["server"]
    BY <1>h, HangupFacts
  <2>2. wire[e] = <<>> => wire'[e] = <<>>
    BY <2>1, <1>e
  <2>3. wire["client"] = <<>> /\ e = "server" => wire' = wire
    BY <1>e, <2>1 DEF Phases, Ends
  <2> QED  BY <1>e, <2>1, <2>2, <2>3
<1>k. ASSUME NEW e \in Ends, CloseStream(e)
      PROVE  /\ tr'["client"] = "open" => tr["client"] = "open"
             /\ e = "client" => wire'["server"] = wire["server"]
             /\ e = "server" => wire'["client"] = wire["client"]
             /\ wire["server"] = <<>> => wire'["server"] = <<>>
             /\ wire["client"] = <<>> /\ e = "server" => wire' = wire
  <2>1. CASE Hangup(e)
    BY <1>h, <1>e, <2>1 DEF TypeOK
  <2>2. CASE tr' = [tr EXCEPT ![e] = IF @ = "open" THEN "noread" ELSE @] /\ wire' = wire
    BY <1>e, <2>2 DEF TypeOK
  <2> QED  BY <1>k, <2>1, <2>2, CloseFacts
<1>w. ASSUME NEW e \in Ends, NEW x \in Message, CanWrite(e), Write(e, x)
      PROVE  /\ tr' = tr
             /\ link'["client"] = "up" => link["client"] = "up"
             /\ e = "client" => wire'["server"] = wire["server"] /\ link'["server"] = link["server"]
             /\ e = "server" => wire'["client"] = wire["client"]
             /\ wire["server"] # <<>> => /\ wire'["server"] # <<>>
                                        /\ Head(wire'["server"]) = Head(wire["server"])
  <2>1. /\ tr' = tr
        /\ link'[Peer(e)] = link[Peer(e)]
        /\ link'[e] = "up" => link[e] = "up"
        /\ wire'[Peer(e)] = wire[Peer(e)]
        /\ wire'[e] = Append(wire[e], x) \/ wire' = wire
    BY <1>w, WriteFacts
  <2>2. wire[e] # <<>> => wire'[e] # <<>> /\ Head(wire'[e]) = Head(wire[e])
    BY <1>e, <2>1
  <2> QED  BY <1>e, <2>1, <2>2
<1>v. ASSUME NEW x \in Message, CanWrite("server"), Write("server", x),
             scheme = "dynamic" => want # None,
             UNCHANGED <<scheme, want, dialed, cpc, spc>>
      PROVE  FrameInv'
  <2>1. /\ tr' = tr
        /\ link'["client"] = "up" => link["client"] = "up"
        /\ wire'["client"] = wire["client"]
        /\ wire["server"] # <<>> => /\ wire'["server"] # <<>>
                                   /\ Head(wire'["server"]) = Head(wire["server"])
    BY <1>v, <1>w, <1>e
  <2>2. FrameComesFirst'
    BY <1>v, <1>e, <2>1, ZenonT(60) DEF FrameInv, FrameComesFirst, Received, Frame
  <2> QED  BY <1>v, <2>1, <2>2, Zenon DEF FrameInv
<1>1. CASE Accept
  BY <1>1, <1>e DEF Accept, FrameInv, FrameComesFirst, Received
<1>2. CASE Handshake
  BY <1>2, <1>e DEF Handshake, FrameInv, FrameComesFirst, Received
<1>3. CASE Dial
  BY <1>3, <1>e, ZenonT(60) DEF Dial, FrameInv, FrameComesFirst, Received, Phases
<1>4. CASE Accepted
  BY <1>4, <1>e DEF Accepted, FrameInv, FrameComesFirst, Received, StartCopying, Phases, Reverse
<1>5. CASE Rejects
  BY <1>5, <1>e DEF Rejects, FrameInv, FrameComesFirst, Received
<1>6. CASE Serves
  BY <1>6, <1>e, ZenonT(60) DEF Serves, FrameInv, FrameComesFirst, Received, Phases, Reverse
<1>7. CASE DialsTarget
  BY <1>7, <1>e, ZenonT(60) DEF DialsTarget, FrameInv, FrameComesFirst, Received, StartCopying, Phases
<1>8. CASE DialsLocal
  BY <1>8, <1>e, ZenonT(60) DEF DialsLocal, FrameInv, FrameComesFirst, Received, StartCopying, Phases, Ends, TypeOK
<1>9. CASE Ticks
  BY <1>9, <1>e DEF Ticks, FrameInv, FrameComesFirst, Received
<1>10. CASE DialFails
  BY <1>10, <1>e, <1>h, ZenonT(60) DEF DialFails, Abandon, Leave, TypeOK, FrameInv, FrameComesFirst, Received
<1>11. CASE NotAccepted
  BY <1>11, <1>e, <1>h, ZenonT(60) DEF NotAccepted, Abandon, Leave, TypeOK, FrameInv, FrameComesFirst, Received
<1>12. CASE NoFrame
  BY <1>12, <1>e, <1>h, ZenonT(60) DEF NoFrame, Abandon, Leave, TypeOK, FrameInv, FrameComesFirst, Received
<1>13. CASE LocalFails
  BY <1>13, <1>e, <1>h, ZenonT(60) DEF LocalFails, Abandon, Leave, TypeOK, FrameInv, FrameComesFirst, Received
<1>14. CASE ClientReturns
  BY <1>14, <1>e, <1>h, ZenonT(60) DEF ClientReturns, Abandon, Leave, TypeOK, FrameInv, FrameComesFirst, Received
<1>15. CASE TargetFails
  BY <1>15, <1>e, <1>h, ZenonT(60) DEF TargetFails, ServerGivesUp, TypeOK, FrameInv, FrameComesFirst, Received
<1>16. CASE FrameFails
  BY <1>16, <1>e, <1>h, ZenonT(60) DEF FrameFails, ServerGivesUp, TypeOK, FrameInv, FrameComesFirst, Received
<1>17. CASE ParkedTooLong
  BY <1>17, <1>e, <1>h, ZenonT(60) DEF ParkedTooLong, ServerGivesUp, TypeOK, FrameInv, FrameComesFirst, Received
<1>18. CASE ServerReturns
  <2>1. Hangup("server") /\ spc' = "done" /\ UNCHANGED <<scheme, want, dialed, cpc, up, link>>
    BY <1>18 DEF ServerReturns
  <2>2. /\ tr'["client"] = tr["client"]
        /\ wire'["client"] = wire["client"]
        /\ wire["server"] = <<>> => wire'["server"] = <<>>
        /\ wire["client"] = <<>> => wire' = wire
    BY <1>e, <1>h, <2>1 DEF TypeOK
  <2> QED  BY <1>e, <2>1, <2>2, ZenonT(60) DEF FrameInv, FrameComesFirst, Received
<1>19. CASE ReadsFrame
  <2>1. dialed' = want /\ want \in Targets
    BY <1>19, SMT DEF ReadsFrame, CanRead, Received, FrameInv, FrameComesFirst, TypeOK, Phases,
                  Peer, Frame
  <2>2. scheme = "dynamic" /\ want # None
    BY <1>19, <2>1, TunnelAssumption DEF ReadsFrame, Phases
  <2> QED  BY <1>19, <1>e, <2>1, <2>2, ZenonT(60) DEF ReadsFrame, Consumed, Phases, FrameInv, FrameComesFirst, Received
<1>20. ASSUME NEW t \in Targets, IncomingConnection(t) PROVE FrameInv'
  <2>1. t # None /\ Frame(t) \in Message
    BY TunnelAssumption, Messages, ZenonT(60)
  <2>2. CASE scheme = "dynamic"
    <3>1. want = None /\ want' = t /\ spc' = "pipe" /\ UNCHANGED <<scheme, cpc, dialed>>
      BY <1>20, <2>2 DEF IncomingConnection, FrameInv
    <3>2. wire["server"] = <<>> /\ (link["server"] # "up" => link["client"] # "up")
      BY <2>2, <3>1 DEF FrameInv
    <3>3. /\ tr' = tr /\ link'["client"] = link["client"] /\ wire'["client"] = wire["client"]
          /\ \/ wire'["server"] = Append(wire["server"], Frame(t))
             \/ link["server"] # "up" \/ tr["client"] # "open"
      BY <1>20, <1>e, <2>1, <2>2, WriteFacts DEF IncomingConnection
    <3>4. tr["client"] = "open" /\ link["client"] = "up" => wire'["server"] = <<Frame(t)>>
      BY <3>2, <3>3
    <3>5. dialed = None
      BY <3>1, ZenonT(60) DEF FrameInv
    <3> QED  BY <1>e, <2>1, <2>2, <3>1, <3>3, <3>4, <3>5 DEF FrameInv, FrameComesFirst, Received
  <2>3. CASE scheme # "dynamic"
    BY <1>20, <1>e, <2>3, ZenonT(60) DEF IncomingConnection, FrameInv, FrameComesFirst, Received
  <2> QED  BY <2>2, <2>3
<1>21. ASSUME NEW e \in Ends, AppSends(e) PROVE FrameInv'
  BY <1>21, <1>e, ZenonT(60) DEF AppSends, FrameInv, FrameComesFirst, Received
<1>22. ASSUME NEW e \in Ends, AppEnds(e) PROVE FrameInv'
  BY <1>22, <1>e DEF AppEnds, FrameInv, FrameComesFirst, Received
<1>23. ASSUME NEW e \in Ends, UpReads(e) PROVE FrameInv'
  BY <1>23, <1>e, <1>u, ZenonT(60) DEF UpReads, FrameInv, FrameComesFirst, Received, TypeOK
<1>24. ASSUME NEW e \in Ends, UpReadEnds(e) PROVE FrameInv'
  <2>1. CASE e = "client"
    BY <1>24, <1>e, <1>u, <1>k, <2>1, ZenonT(60) DEF UpReadEnds, UpStops, FrameInv, FrameComesFirst, Received, TypeOK
  <2>2. CASE e = "server"
    BY <1>24, <1>e, <1>u, <1>k, <2>2, ZenonT(60) DEF UpReadEnds, UpStops, FrameInv, FrameComesFirst, Received, TypeOK
  <2> QED  BY <1>e, <2>1, <2>2, ZenonT(60)
<1>25. ASSUME NEW e \in Ends, UpWriteFails(e) PROVE FrameInv'
  <2>1. CASE e = "client"
    BY <1>25, <1>e, <1>u, <1>k, <2>1, ZenonT(60) DEF UpWriteFails, UpStops, FrameInv, FrameComesFirst, Received, TypeOK
  <2>2. CASE e = "server"
    BY <1>25, <1>e, <1>u, <1>k, <2>2, ZenonT(60) DEF UpWriteFails, UpStops, FrameInv, FrameComesFirst, Received, TypeOK
  <2> QED  BY <1>e, <2>1, <2>2
<1>26. ASSUME NEW e \in Ends, UpWrites(e) PROVE FrameInv'
  <2>0. Data(taken[e]) \in Message
    <3>1. /\ taken[e] \in Nat /\ sent[e] \in Nat /\ Limit[e] \in 0 .. Len(Size)
          /\ Len(Size) \in Nat /\ taken[e] <= sent[e] /\ sent[e] <= Limit[e]
      BY TunnelAssumption DEF TypeOK
    <3>2. taken[e] > 0
      BY <1>26, Zenon DEF UpWrites, InOrder, InOrderFrom
    <3> QED  BY <3>1, <3>2, Messages
  <2>1. CASE e = "client"
    BY <1>26, <1>e, <1>u, <1>w, <2>0, <2>1, ZenonT(60) DEF UpWrites, FrameInv, FrameComesFirst, Received, TypeOK
  <2>2. CASE e = "server"
    BY <1>26, <1>u, <1>v, <2>0, <2>2 DEF UpWrites
  <2> QED  BY <1>e, <2>1, <2>2
<1>27. ASSUME NEW e \in Ends, UpSaysBye(e) PROVE FrameInv'
  <2>0. Control("close") \in Message
    BY Messages
  <2>1. CASE e = "client"
    BY <1>27, <1>e, <1>u, <1>w, <2>0, <2>1, ZenonT(60) DEF UpSaysBye, FrameInv, FrameComesFirst, Received, TypeOK
  <2>2. CASE e = "server"
    <3>1. CASE CanWrite(e)
      BY <1>27, <1>u, <1>v, <2>0, <2>2, <3>1 DEF UpSaysBye
    <3>2. CASE ~CanWrite(e)
      <4>1. /\ UNCHANGED <<scheme, want, dialed, cpc, spc, tr, wire, link>>
            /\ up["server"] # "off"
        BY <1>27, <2>2, <3>2, Zenon DEF UpSaysBye
      <4> QED  BY <1>u, <4>1, ZenonT(60) DEF FrameInv, FrameComesFirst, Received
    <3> QED  BY <3>1, <3>2, Zenon
  <2> QED  BY <1>e, <2>1, <2>2
<1>28. ASSUME NEW e \in Ends, ReadsData(e) PROVE FrameInv'
  <2>1. CASE e = "client"
    BY <1>28, <1>e, <1>u, <2>1, ZenonT(60) DEF ReadsData, CanRead, Consumed, FrameInv, FrameComesFirst, Received, Phases
  <2>2. CASE e = "server"
    BY <1>28, <1>e, <1>u, <2>2, ZenonT(60) DEF ReadsData, CanRead, Consumed, FrameInv, FrameComesFirst, Received, Phases
  <2> QED  BY <1>e, <2>1, <2>2
<1>29. ASSUME NEW e \in Ends, ReadsControl(e) PROVE FrameInv'
  <2>1. CASE e = "client"
    BY <1>29, <1>e, <1>u, <2>1, ZenonT(60) DEF ReadsControl, CanRead, Consumed, FrameInv, FrameComesFirst, Received, Phases
  <2>2. CASE e = "server"
    BY <1>29, <1>e, <1>u, <2>2, ZenonT(60) DEF ReadsControl, CanRead, Consumed, FrameInv, FrameComesFirst, Received, Phases
  <2> QED  BY <1>e, <2>1, <2>2
<1>30. ASSUME NEW e \in Ends, Pongs(e) PROVE FrameInv'
  <2>0. Control("pong") \in Message
    BY Messages
  <2>1. CASE e = "client"
    BY <1>30, <1>e, <1>u, <1>w, <2>0, <2>1, ZenonT(60) DEF Pongs, FrameInv, FrameComesFirst, Received, TypeOK
  <2>2. CASE e = "server"
    BY <1>30, <1>u, <1>v, <2>0, <2>2, ZenonT(60) DEF Pongs
  <2> QED  BY <1>e, <2>1, <2>2
<1>31. ASSUME NEW e \in Ends, DownEnds(e) PROVE FrameInv'
  <2>0. down[e] # "off"
    BY <1>31, ZenonT(60) DEF DownEnds, DownFails
  <2>1. CASE e = "client"
    BY <1>31, <1>e, <1>u, <1>k, <2>0, <2>1, ZenonT(60) DEF DownEnds, FrameInv, FrameComesFirst, Received
  <2>2. CASE e = "server"
    BY <1>31, <1>e, <1>u, <1>k, <2>0, <2>2, ZenonT(60) DEF DownEnds, FrameInv, FrameComesFirst, Received
  <2> QED  BY <1>e, <2>1, <2>2
<1>32. CASE Pings
  <2>1. Control("ping") \in Message
    BY Messages
  <2>2. cpc \notin {"accept", "handshake", "connect", "request", "frame", "dial"}
    BY <1>32 DEF Pings, Phases
  <2> QED  BY <1>32, <1>e, <1>h, <1>w, <2>1, <2>2, ZenonT(60) DEF Pings, FrameInv, FrameComesFirst, Received, TypeOK
<1>33. ASSUME NEW how \in {"silent", "reset"}, NetworkFails(how) PROVE FrameInv'
  BY <1>33, <1>e, ZenonT(60) DEF NetworkFails, FrameInv, FrameComesFirst, Received
<1>34. ASSUME NEW e \in Ends, Delivers(e) PROVE FrameInv'
  BY <1>34, ZenonT(60) DEF Delivers, FrameInv, FrameComesFirst, Received
<1>35. CASE PingerStops
  BY <1>35, ZenonT(60) DEF PingerStops, FrameInv, FrameComesFirst, Received
<1> QED  BY <1>1, <1>2, <1>3, <1>4, <1>5, <1>6, <1>7, <1>8, <1>9, <1>10, <1>11, <1>12,
         <1>13, <1>14, <1>15, <1>16, <1>17, <1>18, <1>19, <1>20, <1>21, <1>22, <1>23,
         <1>24, <1>25, <1>26, <1>27, <1>28, <1>29, <1>30, <1>31, <1>32, <1>33,
         <1>34, <1>35 DEF Next,
         SetupStep, ServerStep, UpStep, DownStep

-----------------------------------------------------------------------------
(* What is passed on, action by action.                                    *)

(* Only the applications send, and only "down" reads data and passes it    *)
(* on.                                                                     *)
LEMMA OthersDoNotDeliver ==
    ASSUME Next, ~\E e \in Ends : AppSends(e) \/ ReadsData(e) \/ Delivers(e)
    PROVE  UNCHANGED <<sent, got, written>>
<1> USE DEF app, copied
<1>1. CASE SetupStep \/ Accept \/ Handshake
  BY <1>1 DEF SetupStep, Accept, Handshake, Dial, DialFails, Accepted, NotAccepted, ReadsFrame,
              NoFrame, DialsLocal, LocalFails
<1>2. CASE ServerStep \/ ParkedTooLong \/ \E t \in Targets : IncomingConnection(t)
  BY <1>2, ZenonT(60) DEF ServerStep, ParkedTooLong, Rejects, Serves, DialsTarget, TargetFails, FrameFails,
              ServerGivesUp, IncomingConnection
<1>3. ASSUME NEW f \in Ends, AppEnds(f) \/ UpStep(f) \/ (DownStep(f) /\ ~ReadsData(f))
      PROVE  UNCHANGED <<sent, got, written>>
  BY <1>3, ZenonT(60) DEF AppEnds, UpStep, UpReads, UpReadEnds, UpWrites, UpWriteFails, UpSaysBye,
              DownStep, ReadsControl, Pongs, DownEnds
<1>4. CASE Ticks \/ Pings \/ PingerStops \/ ClientReturns \/ ServerReturns
  BY <1>4 DEF Ticks, Pings, PingerStops, ClientReturns, ServerReturns
<1>5. CASE \E how \in {"silent", "reset"} : NetworkFails(how)
  BY <1>5, Zenon DEF NetworkFails
<1> QED  BY <1>1, <1>2, <1>3, <1>4, <1>5, ZenonT(60) DEF Next

(* Nothing else changes whether "down" has a piece of data in hand.        *)
LEMMA OthersKeepInHand ==
    ASSUME TypeOK, Phases, Next, NEW e \in Ends,
           ~\E f \in Ends : ReadsData(f) \/ Delivers(f) \/ DownEnds(f)
    PROVE  InHand(e)' = InHand(e)
<1>t. down \in [Ends -> {"off", "read", "write", "pong", "end"}]
  BY DEF TypeOK
<1>i. ASSUME UNCHANGED down PROVE InHand(e)' = InHand(e)
  BY <1>i, Zenon DEF InHand
<1>s. ASSUME NEW f \in Ends, down[f] \in {"off", "read", "pong"},
             \E d \in {"read", "pong"} : down' = [down EXCEPT ![f] = d]
      PROVE  InHand(e)' = InHand(e)
  BY <1>s, <1>t DEF InHand
<1>e. "client" \in Ends /\ "server" \in Ends
  BY DEF Ends
<1>1. CASE Accepted \/ DialsLocal
  <2>1. down["client"] = "off"
    BY <1>1, <1>e, Zenon DEF Accepted, DialsLocal, Phases
  <2> QED  BY <1>1, <1>e, <1>i, <1>s, <2>1, Zenon DEF Accepted, DialsLocal, StartCopying
<1>2. CASE DialsTarget \/ \E t \in Targets : IncomingConnection(t)
  <2>1. down["server"] = "off"
    BY <1>2, <1>e, Zenon DEF DialsTarget, IncomingConnection, Phases
  <2> QED  BY <1>2, <1>e, <1>s, <2>1, Zenon DEF DialsTarget, IncomingConnection, StartCopying
<1>3. CASE SetupStep \/ Accept \/ Handshake
  BY <1>1, <1>3, <1>i, ZenonT(60) DEF SetupStep, Accept, Handshake, Dial, DialFails, NotAccepted,
     ReadsFrame, NoFrame, LocalFails
<1>4. CASE ServerStep \/ ParkedTooLong
  BY <1>2, <1>4, <1>i, ZenonT(60) DEF ServerStep, ParkedTooLong, Rejects, Serves, TargetFails,
     FrameFails, ServerGivesUp
<1>5. ASSUME NEW f \in Ends, AppSends(f) \/ AppEnds(f) \/ UpStep(f)
      PROVE  InHand(e)' = InHand(e)
  BY <1>5, <1>i, ZenonT(60) DEF AppSends, AppEnds, UpStep, UpReads, UpReadEnds, UpWrites,
     UpWriteFails, UpSaysBye
<1>6. ASSUME NEW f \in Ends, ReadsControl(f) \/ Pongs(f) PROVE InHand(e)' = InHand(e)
  BY <1>6, <1>s, ZenonT(60) DEF ReadsControl, Pongs
<1>7. CASE Ticks \/ Pings \/ PingerStops \/ ClientReturns \/ ServerReturns
  BY <1>7, <1>i, Zenon DEF Ticks, Pings, PingerStops, ClientReturns, ServerReturns
<1>8. CASE \E how \in {"silent", "reset"} : NetworkFails(how)
  BY <1>8, <1>i, Zenon DEF NetworkFails
<1> QED  BY <1>2, <1>3, <1>4, <1>5, <1>6, <1>7, <1>8, ZenonT(60) DEF Next, DownStep

(* What was read is what was sent, and is passed on.                       *)
LEMMA PassingStep ==
    ASSUME TypeOK, Phases, InOrder, DeliveryInv, PassingInv, Next PROVE PassingInv'
<1>t. /\ got \in [Ends -> Seq(Chunks)] /\ written \in [Ends -> Nat]
      /\ down \in [Ends -> {"off", "read", "write", "pong", "end"}]
  BY DEF TypeOK
<1>u. Undisturbed' => Undisturbed
  BY StaysDisturbed
<1> SUFFICES ASSUME NEW e \in Ends
             PROVE  /\ \A i \in DOMAIN got'[e] : got'[e][i] = Chunk(i)
                    /\ written'[e] + InHand(e)' <= Len(got'[e])
                    /\ Undisturbed => written'[e] + InHand(e)' = Len(got'[e])
  BY <1>u, Zenon DEF PassingInv, Chunk
<1>p. /\ \A i \in DOMAIN got[e] : got[e][i] = Chunk(i)
      /\ written[e] + InHand(e) <= Len(got[e])
      /\ Undisturbed => written[e] + InHand(e) = Len(got[e])
  BY Zenon DEF PassingInv
<1>1. ASSUME NEW f \in Ends, ReadsData(f)
      PROVE  /\ \A i \in DOMAIN got'[e] : got'[e][i] = Chunk(i)
             /\ written'[e] + InHand(e)' <= Len(got'[e])
             /\ Undisturbed => written'[e] + InHand(e)' = Len(got'[e])
  <2>1. /\ down[f] = "read" /\ down' = [down EXCEPT ![f] = "write"] /\ written' = written
        /\ got' = [got EXCEPT ![f] = Append(@, Payload(Received(f)))]
        /\ CanRead(f) /\ Received(f).op = "data"
    BY <1>1, Zenon DEF ReadsData
  <2>2. Payload(Received(f)) = Chunk(Len(got[f]) + 1)
    BY <2>1, DataFacts
  <2>3. CASE e = f
    <3> DEFINE g == got[e]
               c == Chunk(Len(g) + 1)
    <3>1. got'[e] = Append(g, c) /\ g \in Seq(Chunks) /\ written'[e] = written[e]
      BY <1>t, <2>1, <2>2, <2>3
    <3>2. InHand(e) = 0 /\ InHand(e)' = 1 /\ written[e] \in Nat
      BY <1>t, <2>1, <2>3 DEF InHand
    <3> HIDE DEF c
    <3>3. Len(got'[e]) = Len(g) + 1 /\ Len(g) \in Nat
      BY <3>1
    <3>4. \A i \in DOMAIN got'[e] :
             \/ i = Len(g) + 1 /\ got'[e][i] = c
             \/ i \in DOMAIN g /\ got'[e][i] = g[i]
      BY <3>1
    <3>5. \A i \in DOMAIN got'[e] : got'[e][i] = Chunk(i)
      BY <1>p, <3>4, Zenon DEF c
    <3>6. /\ written'[e] + InHand(e)' <= Len(got'[e])
          /\ Undisturbed => written'[e] + InHand(e)' = Len(got'[e])
      BY <1>p, <3>1, <3>2, <3>3
    <3> QED  BY <3>5, <3>6
  <2>4. CASE e # f
    <3>1. got'[e] = got[e] /\ written'[e] = written[e] /\ down'[e] = down[e]
      BY <1>t, <2>1, <2>4, Zenon
    <3>2. InHand(e)' = InHand(e)
      BY <3>1, Zenon DEF InHand
    <3> QED  BY <1>p, <3>1, <3>2, Zenon
  <2> QED  BY <2>3, <2>4
<1>2. ASSUME NEW f \in Ends, Delivers(f)
      PROVE  /\ got' = got
             /\ written'[e] + InHand(e)' = written[e] + InHand(e)
  <2>1. /\ down[f] = "write" /\ down' = [down EXCEPT ![f] = "read"] /\ got' = got
        /\ written' = [written EXCEPT ![f] = @ + 1]
    BY <1>2, Zenon DEF Delivers
  <2>2. CASE e = f
    <3>1. written'[e] = written[e] + 1 /\ written[e] \in Nat
      BY <1>t, <2>1, <2>2
    <3>2. InHand(e) = 1 /\ InHand(e)' = 0
      BY <1>t, <2>1, <2>2 DEF InHand
    <3> QED  BY <2>1, <3>1, <3>2
  <2>3. CASE e # f
    <3>1. written'[e] = written[e] /\ down'[e] = down[e]
      BY <1>t, <2>1, <2>3, Zenon
    <3> QED  BY <2>1, <3>1, Zenon DEF InHand
  <2> QED  BY <2>2, <2>3
<1>3. ASSUME NEW f \in Ends, DownEnds(f)
      PROVE  /\ UNCHANGED <<got, written>>
             /\ \/ InHand(e)' = InHand(e)
                \/ InHand(e) = 1 /\ InHand(e)' = 0 /\ ~Undisturbed
  <2>1. UNCHANGED <<got, written>> /\ DownFails(f) /\ down' = [down EXCEPT ![f] = "end"]
    BY <1>3, Zenon DEF DownEnds, copied
  <2>2. CASE e = f /\ down[e] = "write"
    <3>1. InHand(e) = 1 /\ InHand(e)' = 0
      BY <1>t, <2>1, <2>2 DEF InHand
    <3>2. local[e] # "open" /\ up[e] # "off"
      BY <2>1, <2>2 DEF DownFails, Phases
    <3>3. ~Undisturbed
      BY <2>2, <3>2 DEF DeliveryInv, Sides
    <3> QED  BY <2>1, <3>1, <3>3
  <2>3. CASE ~(e = f /\ down[e] = "write")
    BY <1>t, <2>1, <2>3 DEF InHand
  <2> QED  BY <2>2, <2>3
<1>4. CASE ~\E f \in Ends : ReadsData(f) \/ Delivers(f) \/ DownEnds(f)
  <2>1. UNCHANGED <<got, written>>
    <3>1. CASE \E f \in Ends : AppSends(f)
      BY <3>1, Zenon DEF AppSends, copied
    <3> QED  BY <1>4, <3>1, OthersDoNotDeliver, Zenon
  <2>2. InHand(e)' = InHand(e)
    BY <1>4, OthersKeepInHand
  <2> QED  BY <1>p, <2>1, <2>2, Zenon
<1>5. ASSUME NEW f \in Ends, Delivers(f)
      PROVE  /\ \A i \in DOMAIN got'[e] : got'[e][i] = Chunk(i)
             /\ written'[e] + InHand(e)' <= Len(got'[e])
             /\ Undisturbed => written'[e] + InHand(e)' = Len(got'[e])
  BY <1>p, <1>2, <1>5, Zenon
<1>6. ASSUME NEW f \in Ends, DownEnds(f)
      PROVE  /\ \A i \in DOMAIN got'[e] : got'[e][i] = Chunk(i)
             /\ written'[e] + InHand(e)' <= Len(got'[e])
             /\ Undisturbed => written'[e] + InHand(e)' = Len(got'[e])
  <2>1. got' = got /\ written' = written
    BY <1>3, <1>6, Zenon
  <2>2. InHand(e)' = InHand(e) \/ (InHand(e) = 1 /\ InHand(e)' = 0 /\ ~Undisturbed)
    BY <1>3, <1>6, Zenon
  <2>3. CASE InHand(e)' = InHand(e)
    BY <1>p, <2>1, <2>3, Zenon
  <2>4. CASE InHand(e) = 1 /\ InHand(e)' = 0 /\ ~Undisturbed
    <3>1. written[e] \in Nat /\ Len(got[e]) \in Nat
      BY <1>t
    <3>2. written[e] + 0 <= Len(got[e])
      BY <1>p, <2>4, <3>1
    <3> QED  BY <1>p, <2>1, <2>4, <3>2, Zenon
  <2> QED  BY <2>2, <2>3, <2>4, Zenon
<1> QED  BY <1>1, <1>4, <1>5, <1>6, Zenon

-----------------------------------------------------------------------------
(* The results.                                                            *)

(* The invariant is inductive.                                             *)
LEMMA NextInv == InductiveInvariant /\ [Next]_vars => InductiveInvariant'
<1> SUFFICES ASSUME InductiveInvariant, [Next]_vars PROVE InductiveInvariant'
  OBVIOUS
<1>i. /\ TypeOK /\ Phases /\ InOrder /\ FrameInv /\ NothingLeftOpen
      /\ DeliveryInv /\ PassingInv
  BY DEF InductiveInvariant
<1>1. CASE Next
  <2>1. TypeOK' /\ Phases' /\ NothingLeftOpen'
    BY <1>i, <1>1, SetupPhases, CopyPhases DEF Next, SetupStep, ServerStep
  <2>2. InOrder'
    BY <1>i, <1>1, OrderStep
  <2>3. FrameInv'
    BY <1>i, <1>1, FrameStep
  <2>4. DeliveryInv'
    BY <1>i, <1>1, <2>1, <2>2, DeliveryStep
  <2>5. PassingInv'
    BY <1>i, <1>1, PassingStep
  <2> QED  BY <2>1, <2>2, <2>3, <2>4, <2>5 DEF InductiveInvariant
<1>2. CASE UNCHANGED vars
  <2> USE <1>2 DEF vars, setup, app, copied, net
  <2>1. TypeOK'
    <3>1. CopyTypes'
      BY <1>i, Zenon DEF TypeOK, CopyTypes
    <3> QED  BY <1>i, <3>1, TypesKept, Zenon
  <2>2. Phases' /\ NothingLeftOpen'
    BY <1>i DEF Phases, NothingLeftOpen, Reverse
  <2>3. InOrder'
    BY <1>i, OrderIdle, Zenon DEF Flows
  <2>4. FrameInv'
    BY <1>i, ZenonT(60) DEF FrameInv, FrameComesFirst, Received
  <2>5. Undisturbed' = Undisturbed /\ (Sides => Sides')
    BY ZenonT(60) DEF Undisturbed, Sides, Copied, Reverse
  <2>6. \A e \in Ends : ByesFrom(e) /\ EndingOf(e) => ByesFrom(e)' /\ EndingOf(e)'
    BY ZenonT(60) DEF ByesFrom, EndingOf, Delivered, Gone
  <2>7. DeliveryInv'
    BY <1>i, <2>5, <2>6, Zenon DEF DeliveryInv
  <2>8. PassingInv'
    BY <1>i, <2>5, Zenon DEF PassingInv, InHand, Chunk
  <2> QED  BY <2>1, <2>2, <2>3, <2>4, <2>7, <2>8, ZenonT(60) DEF InductiveInvariant
<1> QED  BY <1>1, <1>2

(* The invariant holds in every reachable state.                           *)
LEMMA Invariance == Spec => []InductiveInvariant
  BY InitInv, NextInv, PTL DEF Spec

(* Type correctness.                                                       *)
THEOREM TypeCorrect == Spec => []TypeOK
<1>1. InductiveInvariant => TypeOK
  BY DEF InductiveInvariant
<1> QED  BY <1>1, Invariance, PTL

(* A dynamic reverse client reads the target frame before any other byte,  *)
(* and dials that target: IncomingConnection writes it before it copies.   *)
THEOREM FrameFirst == Spec => []FrameComesFirst
<1>1. InductiveInvariant => FrameComesFirst
  BY DEF InductiveInvariant, FrameInv
<1> QED  BY <1>1, Invariance, PTL

(* No goroutine returns and leaves its transport or its local connection   *)
(* behind.                                                                 *)
THEOREM NoLeftovers == Spec => []NothingLeftOpen
<1>1. InductiveInvariant => NothingLeftOpen
  BY DEF InductiveInvariant
<1> QED  BY <1>1, Invariance, PTL

(* Over a WebSocket what an application sent before it finished is         *)
(* delivered to the last piece, unless the other one finished as well or   *)
(* the network failed: Pipe's close message follows the data, and "down"   *)
(* stops for nothing else.                                                 *)
THEOREM DeliveryComplete == Spec => []CompleteDelivery
<1>1. InductiveInvariant => CompleteDelivery
  <2> SUFFICES ASSUME InductiveInvariant, NEW e \in Ends, kind # "h2",
                      link = [f \in Ends |-> "up"], ~eof[Peer(e)], up[e] # "off",
                      down[Peer(e)] = "end"
               PROVE  written[Peer(e)] = sent[e]
    BY DEF CompleteDelivery
  <2>1. Peer(e) \in Ends /\ Peer(Peer(e)) = e
    BY DEF Ends, Peer
  <2>2. EndingOf(Peer(e)) /\ written[Peer(e)] + InHand(Peer(e)) = Len(got[Peer(e)])
    BY <2>1, Zenon DEF InductiveInvariant, DeliveryInv, PassingInv, Undisturbed
  <2>3. Len(got[Peer(e)]) = sent[e]
    BY <2>1, <2>2, Zenon DEF EndingOf, Delivered, Gone
  <2>4. InHand(Peer(e)) = 0 /\ written[Peer(e)] \in Nat
    BY <2>1 DEF InHand, InductiveInvariant, TypeOK
  <2> QED  BY <2>2, <2>3, <2>4
<1> QED  BY <1>1, Invariance, PTL

-----------------------------------------------------------------------------
(* The tunnel implements Duplex.                                           *)

(* A closed local connection is never opened again.                        *)
LEMMA StaysClosed ==
    ASSUME TypeOK, Phases, Next, NEW e \in Ends, local[e] = "closed"
    PROVE  local'[e] = "closed"
<1>1. \A f \in Ends : LocalClosed(f)[e] = "closed"
  BY DEF LocalClosed, TypeOK
<1>2. e = "client" => cpc \notin {"accept", "dial"}
  BY DEF Phases
<1>3. e = "server" => spc \notin {"dial", "parked"}
  BY DEF Phases
<1>4. CASE Accept \/ DialsLocal
  BY <1>2, <1>4, ZenonT(60) DEF Accept, DialsLocal, TypeOK, Ends
<1>5. CASE DialsTarget \/ \E t \in Targets : IncomingConnection(t)
  BY <1>3, <1>5, ZenonT(60) DEF DialsTarget, IncomingConnection, TypeOK, Ends
<1>6. CASE SetupStep \/ Handshake
  BY <1>1, <1>4, <1>6 DEF SetupStep, Handshake, Dial, DialFails, Accepted, NotAccepted, ReadsFrame,
                         NoFrame, LocalFails, Abandon, Ends
<1>7. CASE ServerStep \/ ParkedTooLong
  BY <1>5, <1>7 DEF ServerStep, ParkedTooLong, Rejects, Serves, TargetFails, FrameFails, ServerGivesUp
<1>8. ASSUME NEW f \in Ends, AppSends(f) \/ AppEnds(f) \/ UpStep(f) \/ DownStep(f) \/ Delivers(f)
      PROVE  local'[e] = "closed"
  BY <1>1, <1>8, Zenon DEF AppSends, AppEnds, UpStep, UpReads, UpReadEnds, UpWrites, UpWriteFails, UpSaysBye,
                   UpStops, DownStep, ReadsData, Delivers, ReadsControl, Pongs, DownEnds
<1>9. CASE Ticks \/ Pings \/ PingerStops \/ ClientReturns \/ ServerReturns
  BY <1>1, <1>9 DEF Ticks, Pings, PingerStops, ClientReturns, ServerReturns, Abandon, Ends
<1>10. CASE \E how \in {"silent", "reset"} : NetworkFails(how)
  BY <1>10, Zenon DEF NetworkFails
<1> QED  BY <1>4, <1>5, <1>6, <1>7, <1>8, <1>9, <1>10, Zenon DEF Next

(* No more is read from the transport than has been sent.                  *)
LEMMA SentBeforeGot ==
    ASSUME TypeOK, InOrder, NEW e \in Ends PROVE Len(got[Peer(e)]) <= sent[e]
<1> DEFINE k == Len(got[Peer(e)])
<1>1. /\ k \in Nat /\ taken[e] \in Nat /\ sent[e] \in Nat /\ taken[e] <= sent[e]
  BY DEF TypeOK, Ends, Peer
<1>2. k <= Passed(e)
  BY Zenon DEF InOrder, InOrderFrom
<1> HIDE DEF k
<1>3. Passed(e) = taken[e] - 1 \/ Passed(e) = taken[e]
  BY Zenon DEF Passed
<1>4. k <= sent[e]
  BY <1>1, <1>2, <1>3
<1> QED  BY <1>4 DEF k

(* Each application reads a prefix of what the other one sent, in order    *)
(* and unaltered, and nothing once its connection is closed, whatever      *)
(* setup, framing, pings, failures and closes do in between.               *)
THEOREM ImplementsDuplex == Spec => IsDuplex
<1> DEFINE closed == [e \in Ends |-> local[e] = "closed"]
           seen == [e \in Ends |-> SubSeq(got[e], 1, written[e])]
<1>1. Init => Ideal!Init
  <2> SUFFICES ASSUME Init PROVE Ideal!Init
    OBVIOUS
  <2>1. SubSeq(<<>>, 1, 0) = <<>>
    OBVIOUS
  <2>2. seen = [e \in Ends |-> <<>>]
    BY <2>1, Zenon DEF Init
  <2> QED  BY <2>2, Zenon DEF Init, Ideal!Init, Ends
<1>2. InductiveInvariant /\ [Next]_vars => [Ideal!Next]_<<sent, seen, closed>>
  <2> SUFFICES ASSUME InductiveInvariant, [Next]_vars
               PROVE  Ideal!Next \/ UNCHANGED <<sent, seen, closed>>
    BY Zenon
  <2>i. /\ TypeOK /\ Phases /\ InOrder /\ PassingInv
        /\ got \in [Ends -> Seq(Chunks)] /\ written \in [Ends -> Nat]
    BY DEF InductiveInvariant, TypeOK
  <2>1. CASE UNCHANGED vars
    BY <2>1 DEF vars, app, copied
  <2>2. ASSUME NEW e \in Ends, AppSends(e) PROVE Ideal!Send(e)
    BY <2>2 DEF AppSends, Ideal!Send, Limits, copied
  <2>3. ASSUME NEW e \in Ends, Delivers(e) PROVE Ideal!Deliver(e)
    <3> DEFINE w == written[e]
               g == got[e]
               p == Peer(e)
    <3>1. /\ got' = got /\ written' = [written EXCEPT ![e] = w + 1] /\ local' = local
          /\ sent' = sent /\ local[e] = "open" /\ down[e] = "write"
      BY <2>3, Zenon DEF Delivers, app
    <3>2. /\ w \in Nat /\ g \in Seq(Chunks) /\ Len(g) \in Nat
          /\ p \in Ends /\ Peer(p) = e
      BY <2>i DEF Ends, Peer
    <3>3. w + 1 <= Len(g) /\ \A i \in DOMAIN g : g[i] = Chunk(i)
      <4>1. w + InHand(e) <= Len(g) /\ \A i \in DOMAIN g : g[i] = Chunk(i)
        BY <2>i, Zenon DEF PassingInv
      <4>2. InHand(e) = 1
        BY <3>1, Zenon DEF InHand
      <4> QED  BY <4>1, <4>2
    <3>4. Len(g) <= sent[p]
      BY <2>i, <3>2, SentBeforeGot
    <3>5. /\ SubSeq(g, 1, w + 1) = Append(SubSeq(g, 1, w), g[w + 1])
          /\ Len(SubSeq(g, 1, w)) = w /\ w + 1 \in DOMAIN g
      <4> HIDE DEF w, g
      <4>1. /\ SubSeq(g, 1, w + 1) = Append(SubSeq(g, 1, w), g[w + 1])
            /\ Len(SubSeq(g, 1, w)) = w
        BY <3>2, <3>3, PrefixGrows
      <4>2. w + 1 \in DOMAIN g
        BY <3>2, <3>3
      <4> QED  BY <4>1, <4>2, Zenon
    <3>6. seen[e] = SubSeq(g, 1, w) /\ seen'[e] = SubSeq(g, 1, w + 1)
      BY <2>i, <3>1, Zenon
    <3>7. \A f \in Ends : f # e => seen'[f] = seen[f]
      BY <2>i, <3>1, Zenon
    <3>8. seen'[e] = Append(seen[e], Chunk(Len(seen[e]) + 1)) /\ Len(seen[e]) = w
      BY <3>3, <3>5, <3>6, Zenon
    <3> HIDE DEF w, g
    <3>9. Len(seen[e]) < sent[p]
      <4>1. sent[p] \in Nat
        BY <2>i, <3>2 DEF TypeOK
      <4> DEFINE n == Len(seen[e])
                 l == Len(g)
      <4>2. n = w /\ l \in Nat /\ w + 1 <= l /\ l <= sent[p] /\ w \in Nat
        BY <3>2, <3>3, <3>4, <3>8, Zenon
      <4> HIDE DEF n, l
      <4>3. n < sent[p]
        BY <4>1, <4>2
      <4> QED  BY <4>3 DEF n
    <3>10. seen' = [seen EXCEPT ![e] = Append(@, Chunk(Len(@) + 1))]
      <4> DEFINE x == Append(seen[e], Chunk(Len(seen[e]) + 1))
                 ss == seen
                 st == seen'
      <4>1. /\ ss = [f \in Ends |-> ss[f]] /\ st = [f \in Ends |-> st[f]]
            /\ DOMAIN ss = Ends /\ DOMAIN st = Ends
        BY Zenon
      <4>2. st[e] = x /\ \A f \in Ends : f # e => st[f] = ss[f]
        BY <3>7, <3>8, Zenon
      <4> HIDE DEF ss, st, x
      <4>3. st = [ss EXCEPT ![e] = x]
        BY <4>1, <4>2
      <4> QED  BY <4>3 DEF ss, st, x
    <3>11. ~closed[e] /\ closed' = closed
      BY <3>1, Zenon
    <3> HIDE DEF seen, closed
    <3> QED  BY <3>1, <3>9, <3>10, <3>11, Zenon DEF Ideal!Deliver, seen, closed
  <2>4. CASE Next /\ ~\E e \in Ends : AppSends(e) \/ Delivers(e)
    <3>1. sent' = sent /\ seen' = seen
      <4>1. CASE \E e \in Ends : ReadsData(e)
        <5>1. PICK e \in Ends : ReadsData(e)
          BY <4>1
        <5>2. /\ sent' = sent /\ written' = written
              /\ got' = [got EXCEPT ![e] = Append(@, Payload(Received(e)))]
          BY <5>1, Zenon DEF ReadsData, app
        <5>3. Payload(Received(e)) \in Chunks /\ written[e] <= Len(got[e])
          <6>1. Payload(Received(e)) \in Chunks
            BY <2>i, <5>1, DataFacts, TunnelAssumption DEF Chunks, ReadsData
          <6>2. written[e] + InHand(e) <= Len(got[e]) /\ InHand(e) = 0
            BY <2>i, <5>1, Zenon DEF PassingInv, ReadsData, InHand
          <6>3. written[e] \in Nat /\ Len(got[e]) \in Nat
            BY <2>i
          <6> QED  BY <6>1, <6>2, <6>3
        <5>4. ASSUME NEW g \in Seq(Chunks), NEW c \in Chunks, NEW w \in Nat, w <= Len(g)
              PROVE  SubSeq(Append(g, c), 1, w) = SubSeq(g, 1, w)
          BY <5>4
        <5>5. \A f \in Ends : SubSeq(got'[f], 1, written'[f]) = SubSeq(got[f], 1, written[f])
          <6> SUFFICES ASSUME NEW f \in Ends
                       PROVE  SubSeq(got'[f], 1, written'[f]) = SubSeq(got[f], 1, written[f])
            OBVIOUS
          <6>1. CASE f = e
            <7>1. /\ got'[f] = Append(got[e], Payload(Received(e))) /\ written'[f] = written[e]
                  /\ got[e] \in Seq(Chunks) /\ written[e] \in Nat
              BY <2>i, <5>2, <6>1, Zenon
            <7> QED  BY <5>3, <5>4, <6>1, <7>1, Zenon
          <6>2. CASE f # e
            BY <2>i, <5>2, <6>2, Zenon
          <6> QED  BY <6>1, <6>2
        <5> QED  BY <5>2, <5>5, Zenon
      <4>2. CASE ~\E e \in Ends : ReadsData(e)
        BY <2>4, <4>2, OthersDoNotDeliver, Zenon
      <4> QED  BY <4>1, <4>2
    <3>2. closed' \in [Ends -> BOOLEAN] /\ \A e \in Ends : closed[e] => closed'[e]
      BY <2>i, <2>4, StaysClosed, Zenon
    <3> HIDE DEF seen, closed
    <3> QED  BY <3>1, <3>2, Zenon DEF Ideal!Next, Ideal!Hangup, seen, closed
  <2> QED  BY <2>1, <2>2, <2>3, <2>4, Zenon DEF Ideal!Next
<1> QED  BY <1>1, <1>2, Invariance, PTL DEF Spec, IsDuplex, Ideal!Spec

=============================================================================
