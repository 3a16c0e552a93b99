------------------------- MODULE TunnelOrderProofs -------------------------
(***************************************************************************)
(* Proofs about the data in a Tunnel: what the wire and the codec do to a  *)
(* message, and that every step keeps the data in order (InOrder) and, as  *)
(* long as the network works, complete (DeliveryInv), for every number and *)
(* size of pieces of data.                                                 *)
(***************************************************************************)
EXTENDS Tunnel, SequenceTheorems, TLAPS

-----------------------------------------------------------------------------
(* What WriteMessage says about a length, ReadMessage understands.         *)
THEOREM LengthRoundTrip == \A n \in Nat : DecodeLength(EncodeLength(n)) = n
<1> SUFFICES ASSUME NEW n \in Nat PROVE DecodeLength(EncodeLength(n)) = n
  OBVIOUS
<1>1. CASE n <= 125
  BY <1>1 DEF DecodeLength, EncodeLength
<1>2. CASE n > 125 /\ n <= 65535
  <2>1. EncodeLength(n) = <<126, n % 65536>>
    BY <1>2 DEF EncodeLength
  <2>2. n % 65536 = n
    BY <1>2
  <2> QED  BY <2>1, <2>2 DEF DecodeLength
<1>3. CASE n > 65535
  BY <1>3 DEF DecodeLength, EncodeLength
<1> QED  BY <1>1, <1>2, <1>3

(* No piece of data is too long for ReadMessage.                           *)
LEMMA Sizes ==
    \A n \in 1 .. Len(Size) : Size[n] \in 0 .. MaxPayload /\ Size[n] \in Nat
<1>1. Size \in Seq(0 .. MaxPayload)
  BY TunnelAssumption
<1>2. MaxPayload \in Nat
  BY DEF MaxPayload
<1>3. \A n \in 1 .. Len(Size) : Size[n] \in 0 .. MaxPayload
  BY <1>1, ElementOfSeq, Zenon
<1>4. \A k \in 0 .. MaxPayload : k \in Nat
  BY <1>2
<1> QED  BY <1>3, <1>4, Zenon

(* A prefix grows by the next element.                                     *)
LEMMA PrefixGrows ==
    ASSUME NEW S, NEW g \in Seq(S), NEW w \in Nat, w + 1 <= Len(g)
    PROVE  /\ SubSeq(g, 1, w + 1) = Append(SubSeq(g, 1, w), g[w + 1])
           /\ Len(SubSeq(g, 1, w)) = w
<1> DEFINE a == SubSeq(g, 1, w)
           b == SubSeq(g, 1, w + 1)
           c == Append(a, g[w + 1])
<1>1. a \in Seq(S) /\ Len(a) = w /\ \A i \in 1 .. w : a[i] = g[i]
  OBVIOUS
<1>2. b \in Seq(S) /\ Len(b) = w + 1 /\ \A i \in 1 .. w + 1 : b[i] = g[i]
  OBVIOUS
<1>3. g[w + 1] \in S
  OBVIOUS
<1> HIDE DEF a, b
<1>4. c \in Seq(S) /\ Len(c) = w + 1 /\ \A i \in 1 .. w + 1 : c[i] = g[i]
  BY <1>1, <1>3
<1> HIDE DEF c
<1>5. b = c
  BY <1>2, <1>4, SeqEqual
<1> QED  BY <1>1, <1>5 DEF a, b, c

(* The next piece of data is taken off the wire.                           *)
LEMMA TakeData ==
    ASSUME NEW w \in Seq(Message), NEW k \in Nat, NEW p \in Nat,
           w # <<>>, Head(w).op = "data", Consecutive(w, k, p)
    PROVE  /\ Head(w).n = k + 1
           /\ k + 1 <= p
           /\ Consecutive(Tail(w), k + 1, p)
           /\ Reaches(w, k, p) => Reaches(Tail(w), k + 1, p)
<1>0. (k + 1) + 1 = k + 2
  OBVIOUS
<1>1. 1 \in DataOn(w) /\ Head(w) = w[1]
  BY DEF DataOn
<1>2. Head(w).n = k + 1
  <2>1. w[1].n \in k + 1 .. p
    BY <1>1 DEF Consecutive
  <2>2. PICK j \in DataOn(w) : w[j].n = k + 1
    BY <1>1, <2>1 DEF Consecutive
  <2>3. j = 1 \/ 1 < j
    BY <2>2 DEF DataOn
  <2> QED  BY <1>1, <2>1, <2>2, <2>3 DEF Consecutive
<1>3. ASSUME NEW i \in DataOn(Tail(w))
      PROVE  i \in Nat /\ 1 < i + 1 /\ i + 1 \in DataOn(w) /\ Tail(w)[i] = w[i + 1]
  BY DEF DataOn
<1>4. ASSUME NEW j \in DataOn(w), j # 1
      PROVE  j \in Nat /\ j - 1 \in DataOn(Tail(w)) /\ Tail(w)[j - 1] = w[j]
  BY <1>4 DEF DataOn
<1>5. \A i \in DataOn(w) : w[i].n \in k + 1 .. p
  BY DEF Consecutive
<1>6. ASSUME NEW n \in Int, NEW j \in DataOn(w), w[j].n = n, n > k + 1
      PROVE  \E i \in DataOn(Tail(w)) : Tail(w)[i].n = n
  <2>1. j # 1
    BY <1>1, <1>2, <1>6
  <2>2. j - 1 \in DataOn(Tail(w)) /\ Tail(w)[j - 1] = w[j]
    BY <1>4, <2>1, Zenon
  <2> QED  BY <1>6, <2>2, Zenon
<1>7. Consecutive(Tail(w), k + 1, p)
  <2> SUFFICES ASSUME NEW i \in DataOn(Tail(w))
               PROVE /\ Tail(w)[i].n \in k + 2 .. p
                     /\ \A n \in k + 2 .. Tail(w)[i].n :
                            \E j \in DataOn(Tail(w)) : Tail(w)[j].n = n
                     /\ \A j \in DataOn(Tail(w)) : i < j => Tail(w)[i].n < Tail(w)[j].n
    BY <1>0, Zenon DEF Consecutive
  <2>1. i \in Nat /\ 1 < i + 1 /\ i + 1 \in DataOn(w) /\ Tail(w)[i] = w[i + 1]
    BY <1>3, Zenon
  <2> DEFINE m == w[i + 1].n
  <2>2. w[1].n < m
    BY <1>1, <2>1 DEF Consecutive
  <2>3. m \in k + 1 .. p
    BY <1>5, <2>1
  <2>4. m \in k + 2 .. p
    <3> HIDE DEF m
    <3> QED  BY <1>1, <1>2, <2>2, <2>3
  <2>5. ASSUME NEW n \in k + 2 .. m
        PROVE  \E j \in DataOn(Tail(w)) : Tail(w)[j].n = n
    <3>1. n \in k + 1 .. m /\ n > k + 1 /\ n \in Int
      <4> HIDE DEF m
      <4> QED  BY <2>4
    <3>2. PICK j \in DataOn(w) : w[j].n = n
      BY <2>1, <3>1 DEF Consecutive
    <3> QED  BY <1>6, <3>1, <3>2, Zenon
  <2>6. ASSUME NEW j \in DataOn(Tail(w)), i < j
        PROVE  m < Tail(w)[j].n
    <3>1. j + 1 \in DataOn(w) /\ Tail(w)[j] = w[j + 1] /\ j \in Nat
      BY <1>3, Zenon
    <3>2. i + 1 < j + 1
      BY <2>1, <2>6, <3>1
    <3>3. w[i + 1].n < w[j + 1].n
      BY <2>1, <3>1, <3>2 DEF Consecutive
    <3> QED  BY <3>1, <3>3, Zenon
  <2> QED  BY <2>1, <2>4, <2>5, <2>6, Zenon
<1>8. k + 1 <= p
  BY <1>1, <1>2, <1>5
<1>9. ASSUME Reaches(w, k, p)
      PROVE  Reaches(Tail(w), k + 1, p)
  <2> SUFFICES ASSUME NEW n \in k + 2 .. p
               PROVE  \E j \in DataOn(Tail(w)) : Tail(w)[j].n = n
    BY <1>0, Zenon DEF Reaches
  <2>1. n \in k + 1 .. p /\ n > k + 1 /\ n \in Int
    OBVIOUS
  <2>2. PICK j \in DataOn(w) : w[j].n = n
    BY <1>9, <2>1 DEF Reaches
  <2> QED  BY <1>6, <2>1, <2>2, Zenon
<1> QED  BY <1>2, <1>7, <1>8, <1>9

(* A control message or a frame is taken off the wire.                     *)
LEMMA TakeOther ==
    ASSUME NEW w \in Seq(Message), NEW k \in Nat, NEW p \in Nat,
           w # <<>>, Head(w).op # "data", Consecutive(w, k, p)
    PROVE  /\ Consecutive(Tail(w), k, p)
           /\ Reaches(w, k, p) => Reaches(Tail(w), k, p)
<1>3. ASSUME NEW i \in DataOn(Tail(w))
      PROVE  i \in Nat /\ i + 1 \in DataOn(w) /\ Tail(w)[i] = w[i + 1]
  BY DEF DataOn
<1>4. ASSUME NEW j \in DataOn(w)
      PROVE  j \in Nat /\ j - 1 \in DataOn(Tail(w)) /\ Tail(w)[j - 1] = w[j]
  BY DEF DataOn
<1>6. ASSUME NEW n, NEW j \in DataOn(w), w[j].n = n
      PROVE  \E i \in DataOn(Tail(w)) : Tail(w)[i].n = n
  BY <1>4, <1>6, Zenon
<1>7. Consecutive(Tail(w), k, p)
  <2> SUFFICES ASSUME NEW i \in DataOn(Tail(w))
               PROVE /\ Tail(w)[i].n \in k + 1 .. p
                     /\ \A n \in k + 1 .. Tail(w)[i].n :
                            \E j \in DataOn(Tail(w)) : Tail(w)[j].n = n
                     /\ \A j \in DataOn(Tail(w)) : i < j => Tail(w)[i].n < Tail(w)[j].n
    BY Zenon DEF Consecutive
  <2>1. i \in Nat /\ i + 1 \in DataOn(w) /\ Tail(w)[i] = w[i + 1]
    BY <1>3, Zenon
  <2>2. w[i + 1].n \in k + 1 .. p
    BY <2>1, Zenon DEF Consecutive
  <2>3. ASSUME NEW n \in k + 1 .. w[i + 1].n
        PROVE  \E j \in DataOn(Tail(w)) : Tail(w)[j].n = n
    <3>1. PICK j \in DataOn(w) : w[j].n = n
      BY <2>1, Zenon DEF Consecutive
    <3> QED  BY <1>6, <3>1, Zenon
  <2>4. ASSUME NEW j \in DataOn(Tail(w)), i < j
        PROVE  w[i + 1].n < Tail(w)[j].n
    <3>1. j + 1 \in DataOn(w) /\ Tail(w)[j] = w[j + 1] /\ j \in Nat
      BY <1>3, Zenon
    <3>2. i + 1 < j + 1
      BY <2>1, <2>4, <3>1
    <3>3. w[i + 1].n < w[j + 1].n
      BY <2>1, <3>1, <3>2, Zenon DEF Consecutive
    <3> QED  BY <3>1, <3>3, Zenon
  <2> QED  BY <2>1, <2>2, <2>3, <2>4, Zenon
<1>8. ASSUME Reaches(w, k, p)
      PROVE  Reaches(Tail(w), k, p)
  <2> SUFFICES ASSUME NEW n \in k + 1 .. p
               PROVE  \E j \in DataOn(Tail(w)) : Tail(w)[j].n = n
    BY Zenon DEF Reaches
  <2>1. PICK j \in DataOn(w) : w[j].n = n
    BY <1>8, Zenon DEF Reaches
  <2> QED  BY <1>6, <2>1, Zenon
<1> QED  BY <1>7, <1>8

(* A message other than data is put on the wire.                           *)
LEMMA PutOther ==
    ASSUME NEW w \in Seq(Message), NEW m \in Message, NEW k \in Nat, NEW p \in Nat,
           m.op # "data", Consecutive(w, k, p)
    PROVE  /\ Consecutive(Append(w, m), k, p)
           /\ Reaches(w, k, p) => Reaches(Append(w, m), k, p)
<1>1. DataOn(Append(w, m)) = DataOn(w)
  BY DEF DataOn
<1>2. \A i \in DataOn(w) : Append(w, m)[i] = w[i]
  BY DEF DataOn
<1>3. Consecutive(Append(w, m), k, p)
  BY <1>1, <1>2, Zenon DEF Consecutive
<1>4. Reaches(w, k, p) => Reaches(Append(w, m), k, p)
  BY <1>1, <1>2, Zenon DEF Reaches
<1> QED  BY <1>3, <1>4

(* The wire is cut, as when the connection is closed with data under way.  *)
LEMMA Cut ==
    ASSUME NEW w \in Seq(Message), NEW l \in 0 .. Len(w), NEW k \in Nat, NEW p \in Nat,
           Consecutive(w, k, p)
    PROVE  Consecutive(SubSeq(w, 1, l), k, p)
<1> DEFINE v == SubSeq(w, 1, l)
<1>1. v \in Seq(Message) /\ Len(v) = l /\ \A i \in 1 .. l : v[i] = w[i]
  OBVIOUS
<1>2. ASSUME NEW i \in DataOn(v)
      PROVE  i \in DataOn(w) /\ i \in 1 .. l /\ v[i] = w[i]
  BY <1>1 DEF DataOn
<1>3. ASSUME NEW i \in DataOn(w), i <= l
      PROVE  i \in DataOn(v) /\ v[i] = w[i]
  BY <1>1, <1>3 DEF DataOn
<1> HIDE DEF v
<1> SUFFICES ASSUME NEW i \in DataOn(v)
             PROVE /\ v[i].n \in k + 1 .. p
                   /\ \A n \in k + 1 .. v[i].n : \E j \in DataOn(v) : v[j].n = n
                   /\ \A j \in DataOn(v) : i < j => v[i].n < v[j].n
  BY Zenon DEF Consecutive, v
<1>4. w[i].n \in k + 1 .. p
  BY <1>2, Zenon DEF Consecutive
<1>5. ASSUME NEW n \in k + 1 .. w[i].n
      PROVE  \E j \in DataOn(v) : v[j].n = n
  <2>1. PICK j \in DataOn(w) : w[j].n = n
    BY <1>2, Zenon DEF Consecutive
  <2>2. j \in Nat /\ i \in Nat
    BY <1>2 DEF DataOn
  <2>3. ~(i < j)
    <3> SUFFICES ASSUME i < j PROVE FALSE
      OBVIOUS
    <3>1. w[i].n < n
      BY <1>2, <2>1, Zenon DEF Consecutive
    <3> QED  BY <1>4, <3>1
  <2>4. j <= l
    BY <1>2, <2>2, <2>3
  <2> QED  BY <1>3, <2>1, <2>4
<1>6. ASSUME NEW j \in DataOn(v), i < j
      PROVE  w[i].n < v[j].n
  BY <1>2, <1>6, Zenon DEF Consecutive
<1> QED  BY <1>2, <1>4, <1>5, <1>6, Zenon

(* The next piece of data is put on the wire.                              *)
LEMMA PutData ==
    ASSUME NEW w \in Seq(Message), NEW m \in Message, NEW k \in Nat, NEW p \in Nat,
           m.op = "data", m.n = p + 1, k <= p,
           Consecutive(w, k, p), Reaches(w, k, p)
    PROVE  Consecutive(Append(w, m), k, p + 1) /\ Reaches(Append(w, m), k, p + 1)
<1> DEFINE v == Append(w, m)
           l == Len(w) + 1
<1>1. /\ DataOn(v) = DataOn(w) \cup {l}
      /\ v[l] = m /\ l \in Nat
      /\ \A i \in DataOn(w) : v[i] = w[i] /\ i < l /\ i \in Nat
  BY DEF DataOn
<1> HIDE DEF v, l
<1>2. ASSUME NEW n \in k + 1 .. p + 1
      PROVE  \E j \in DataOn(v) : v[j].n = n
  <2>1. CASE n = p + 1
    BY <1>1, <2>1, Zenon
  <2>2. CASE n # p + 1
    <3>1. n \in k + 1 .. p
      BY <2>2
    <3>2. PICK j \in DataOn(w) : w[j].n = n
      BY <3>1, Zenon DEF Reaches
    <3> QED  BY <1>1, <3>2, Zenon
  <2> QED  BY <2>1, <2>2
<1>3. Reaches(v, k, p + 1)
  BY <1>2 DEF Reaches
<1>4. ASSUME NEW i \in DataOn(v)
      PROVE  v[i].n \in k + 1 .. p + 1 /\ (i # l => v[i].n <= p)
  <2>1. CASE i = l
    BY <1>1, <2>1
  <2>2. CASE i # l
    <3>1. w[i].n \in k + 1 .. p /\ v[i] = w[i]
      BY <1>1, <2>2, Zenon DEF Consecutive
    <3> DEFINE x == w[i].n
    <3>2. x \in k + 1 .. p /\ v[i].n = x
      BY <3>1
    <3> HIDE DEF x
    <3> QED  BY <3>2
  <2> QED  BY <2>1, <2>2
<1>5. ASSUME NEW i \in DataOn(v), NEW j \in DataOn(v), i < j
      PROVE  v[i].n < v[j].n
  <2>1. i # l
    BY <1>1, <1>5
  <2>2. CASE j = l
    <3> DEFINE x == v[i].n
    <3>1. x \in k + 1 .. p + 1 /\ x <= p /\ v[j].n = p + 1
      BY <1>1, <1>4, <2>1, <2>2, Zenon
    <3> HIDE DEF x
    <3>2. x < p + 1
      BY <3>1
    <3> QED  BY <3>1, <3>2 DEF x
  <2>3. CASE j # l
    <3>1. i \in DataOn(w) /\ j \in DataOn(w) /\ v[i] = w[i] /\ v[j] = w[j]
      BY <1>1, <2>1, <2>3, Zenon
    <3>2. w[i].n < w[j].n
      BY <1>5, <3>1, Zenon DEF Consecutive
    <3> QED  BY <3>1, <3>2, Zenon
  <2> QED  BY <2>2, <2>3
<1>6. ASSUME NEW i \in DataOn(v), NEW n \in k + 1 .. v[i].n
      PROVE  n \in k + 1 .. p + 1
  <2> DEFINE x == v[i].n
  <2>1. x \in k + 1 .. p + 1 /\ n \in k + 1 .. x
    BY <1>4
  <2> HIDE DEF x
  <2> QED  BY <2>1
<1>7. Consecutive(v, k, p + 1)
  BY <1>2, <1>4, <1>5, <1>6, Zenon DEF Consecutive
<1> QED  BY <1>3, <1>7 DEF v

(* More has been passed on than is on the wire.                            *)
LEMMA Lost ==
    ASSUME NEW w \in Seq(Message), NEW k \in Nat, NEW p \in Nat, NEW q \in Nat,
           p <= q, Consecutive(w, k, p)
    PROVE  Consecutive(w, k, q)
<1>1. \A x \in k + 1 .. p : x \in k + 1 .. q
  OBVIOUS
<1> QED  BY <1>1, Zenon DEF Consecutive

(* Nothing is on the wire.                                                 *)
LEMMA Empty ==
    ASSUME NEW k \in Nat, NEW p \in Nat
    PROVE  Consecutive(<<>>, k, p) /\ Reaches(<<>>, k, k) /\ DataOn(<<>>) = {}
<1>1. DataOn(<<>>) = {}
  BY DEF DataOn
<1>2. k + 1 .. k = {}
  OBVIOUS
<1> QED  BY <1>1, <1>2, Zenon DEF Consecutive, Reaches

-----------------------------------------------------------------------------
(* What the operations on the transport do.                                *)

(* What is written is a message.                                           *)
LEMMA Messages ==
    /\ \A op \in {"ping", "pong", "close"} : Control(op) \in Message /\ Control(op).op = op
    /\ \A t \in Targets : Frame(t) \in Message /\ Frame(t).op = "frame" /\ Frame(t).n = t
    /\ \A n \in 1 .. Len(Size) : Data(n) \in Message /\ Data(n).op = "data" /\ Data(n).n = n
<1>1. ASSUME NEW n \in Nat PROVE EncodeLength(n) \in Seq(Nat)
  <2>1. PICK h \in Nat, r \in Nat : EncodeLength(n) = <<n>> \/ EncodeLength(n) = <<h, r>>
    <3>1. n <= 125 \/ (n > 125 /\ n <= 65535) \/ n > 65535
      OBVIOUS
    <3>2. n % 65536 \in Nat
      OBVIOUS
    <3> QED  BY <3>1, <3>2, SMT DEF EncodeLength
  <2>2. <<n>> \in Seq(Nat)
    OBVIOUS
  <2>3. <<h, r>> \in Seq(Nat)
    OBVIOUS
  <2> QED  BY <2>1, <2>2, <2>3, Zenon
<1>2. \A n \in 1 .. Len(Size) : Size[n] \in Nat
  BY Sizes
<1>3. <<>> \in Seq(Nat)
  OBVIOUS
<1>4. \A n \in 1 .. Len(Size) : Data(n) \in Message /\ Data(n).op = "data" /\ Data(n).n = n
  <2> SUFFICES ASSUME NEW n \in 1 .. Len(Size)
               PROVE  Data(n) \in Message /\ Data(n).op = "data" /\ Data(n).n = n
    OBVIOUS
  <2>1. EncodeLength(Size[n]) \in Seq(Nat)
    BY <1>1, <1>2, Zenon
  <2>2. n \in Nat
    BY TunnelAssumption, SMT
  <2>3. (IF kind = "h2" THEN <<>> ELSE EncodeLength(Size[n])) \in Seq(Nat)
    BY <2>1, <1>3
  <2> QED  BY <2>2, <2>3 DEF Data, Message
<1> QED  BY <1>3, <1>4 DEF Control, Frame, Message

(* Close of the transport.                                                 *)
LEMMA HangupFacts ==
    ASSUME NEW e \in Ends, TypeOK, Phases, Hangup(e)
    PROVE  /\ tr' = [tr EXCEPT ![e] = "closed"]
           /\ wire' \in [Ends -> Seq(Message)]
           /\ wire'[Peer(e)] = wire[Peer(e)]
           /\ \E l \in 0 .. Len(wire[e]) : wire'[e] = SubSeq(wire[e], 1, l)
           /\ e = "server" /\ wire["client"] = <<>> => wire'["server"] = wire["server"]
<1>1. wire \in [Ends -> Seq(Message)] /\ Peer(e) \in Ends /\ Peer(e) # e
  BY DEF Phases, Ends, Peer
<1>2. SubSeq(wire[e], 1, Len(wire[e])) = wire[e] /\ Len(wire[e]) \in 0 .. Len(wire[e])
  BY <1>1
<1>3. CASE wire' = wire
  BY <1>1, <1>2, <1>3, Zenon DEF Hangup
<1>4. ASSUME NEW l \in Kept(e), wire' = [wire EXCEPT ![e] = SubSeq(@, 1, l)]
      PROVE  /\ wire' \in [Ends -> Seq(Message)]
             /\ wire'[Peer(e)] = wire[Peer(e)]
             /\ l \in 0 .. Len(wire[e]) /\ wire'[e] = SubSeq(wire[e], 1, l)
             /\ e = "server" /\ wire["client"] = <<>> => wire'["server"] = wire["server"]
  <2>1. l \in 0 .. Len(wire[e])
    BY <1>2 DEF Kept
  <2>2. SubSeq(wire[e], 1, l) \in Seq(Message)
    BY <1>1, <2>1
  <2>3. e = "server" /\ wire["client"] = <<>> => l = Len(wire[e])
    BY DEF Kept, Peer
  <2> QED  BY <1>1, <1>2, <1>4, <2>1, <2>2, <2>3, Zenon
<1> QED  BY <1>3, <1>4 DEF Hangup

(* Close of the transport by a goroutine of Pipe or PipeBiDir.             *)
LEMMA CloseFacts ==
    ASSUME NEW e \in Ends, TypeOK, Phases, CloseStream(e)
    PROVE  \/ Hangup(e)
           \/ /\ kind = "h2" /\ e = "server"
              /\ tr' = [tr EXCEPT ![e] = IF @ = "open" THEN "noread" ELSE @]
              /\ wire' = wire
  BY DEF CloseStream

(* A message is written.                                                   *)
LEMMA WriteFacts ==
    ASSUME NEW e \in Ends, NEW m \in Message, TypeOK, Phases, CanWrite(e), Write(e, m)
    PROVE  /\ tr' = tr
           /\ link' \in [Ends -> {"up", "silent", "reset"}]
           /\ link'[Peer(e)] = link[Peer(e)]
           /\ link'[e] = "up" => link[e] = "up"
           /\ wire' \in [Ends -> Seq(Message)]
           /\ wire'[Peer(e)] = wire[Peer(e)]
           /\ \/ Flows(e) /\ link' = link /\ wire'[e] = Append(wire[e], m)
              \/ ~Flows(e)' /\ wire' = wire /\ (link[e] # "up" \/ tr[Peer(e)] # "open")
<1>1. wire \in [Ends -> Seq(Message)] /\ Peer(e) \in Ends /\ Peer(e) # e
  BY DEF Phases, Ends, Peer
<1>2. link \in [Ends -> {"up", "silent", "reset"}]
  BY DEF TypeOK
<1>3. CASE /\ link[e] = "up"
           /\ tr[Peer(e)] = "open"
           /\ wire' = [wire EXCEPT ![e] = Append(@, m)]
           /\ UNCHANGED <<tr, link>>
  BY <1>1, <1>2, <1>3 DEF Flows, CanWrite
<1>4. CASE /\ link[e] = "up"
           /\ tr[Peer(e)] # "open"
           /\ \E s \in {"up", "reset"} : link' = [link EXCEPT ![e] = s]
           /\ UNCHANGED <<tr, wire>>
  BY <1>1, <1>2, <1>4 DEF Flows
<1>5. CASE /\ link[e] = "silent"
           /\ link' = [link EXCEPT ![e] = "reset"]
           /\ UNCHANGED <<tr, wire>>
  BY <1>1, <1>2, <1>5 DEF Flows
<1> QED  BY <1>3, <1>4, <1>5 DEF Write

-----------------------------------------------------------------------------
(* The order of the data: what the steps do to one direction.              *)

(* Nothing more is put on the wire from an end, or nothing else gets       *)
(* through.                                                                *)
LEMMA Settles ==
    ASSUME NEW e \in Ends, TypeOK, Phases, InOrderFrom(e),
           kind' = kind, got'[Peer(e)] = got[Peer(e)], taken'[e] = taken[e],
           up'[e] = "write" => up[e] = "write",
           \/ /\ wire'[e] = wire[e]
              /\ Flows(e)' => Flows(e)
              /\ up[e] = "write" => up'[e] = "write" \/ ~Flows(e)'
           \/ /\ ~Flows(e)'
              /\ \E l \in 0 .. Len(wire[e]) : wire'[e] = SubSeq(wire[e], 1, l)
    PROVE  InOrderFrom(e)'
<1> DEFINE k == Len(got[Peer(e)])
<1>1. wire[e] \in Seq(Message) /\ k \in Nat /\ taken[e] \in Nat
  BY TunnelAssumption DEF Phases, TypeOK, Ends, Peer
<1>2. Passed(e) \in Nat /\ Passed(e)' \in Nat /\ Passed(e) <= Passed(e)'
  BY <1>1 DEF Passed, InOrderFrom
<1>3. /\ \A i \in DataOn(wire[e]) : wire[e][i] = Data(wire[e][i].n)
      /\ Consecutive(wire[e], k, Passed(e))
      /\ Flows(e) => Reaches(wire[e], k, Passed(e))
      /\ k <= Passed(e)
  BY DEF InOrderFrom
<1>4. Consecutive(wire[e], k, Passed(e)')
  BY <1>1, <1>2, <1>3, Lost
<1>5. /\ k <= Passed(e)'
      /\ up'[e] = "write" => taken'[e] > 0
  BY <1>1, <1>2, <1>3 DEF InOrderFrom
<1>6. CASE /\ wire'[e] = wire[e]
           /\ Flows(e)' => Flows(e)
           /\ up[e] = "write" => up'[e] = "write" \/ ~Flows(e)'
  <2>1. Flows(e)' => Passed(e)' = Passed(e)
    BY <1>6 DEF Passed
  <2>2. Flows(e)' => Reaches(wire[e], k, Passed(e)')
    BY <1>3, <1>6, <2>1
  <2> QED  BY <1>3, <1>4, <1>5, <1>6, <2>2 DEF InOrderFrom, Data
<1>7. ASSUME ~Flows(e)', NEW l \in 0 .. Len(wire[e]), wire'[e] = SubSeq(wire[e], 1, l)
      PROVE  InOrderFrom(e)'
  <2>1. Consecutive(wire'[e], k, Passed(e)')
    BY <1>1, <1>2, <1>4, <1>7, Cut
  <2>2. \A i \in DataOn(wire'[e]) : i \in DataOn(wire[e]) /\ wire'[e][i] = wire[e][i]
    BY <1>1, <1>7 DEF DataOn
  <2> QED  BY <1>3, <1>5, <1>7, <2>1, <2>2, Zenon DEF InOrderFrom, Data
<1> QED  BY <1>6, <1>7

-----------------------------------------------------------------------------
(* The order of the data, action by action.                                *)

(* Steps that leave the wire alone and let nothing new through.            *)
LEMMA OrderIdle ==
    ASSUME TypeOK, Phases, InOrder, UNCHANGED <<kind, got, taken, wire>>,
           \A e \in Ends : /\ up'[e] = "write" <=> up[e] = "write"
                           /\ Flows(e)' => Flows(e)
    PROVE  InOrder'
<1> SUFFICES ASSUME NEW e \in Ends PROVE InOrderFrom(e)'
  BY DEF InOrder
<1>1. InOrderFrom(e)
  BY ZenonT(30) DEF InOrder
<1> QED  BY <1>1, Settles

(* Steps that close an end of the transport.                               *)
LEMMA OrderHangup ==
    ASSUME NEW f \in Ends, TypeOK, Phases, InOrder, Hangup(f),
           UNCHANGED <<kind, got, taken, link>>,
           \A e \in Ends : up'[e] = "write" => up[e] = "write"
    PROVE  InOrder'
<1> SUFFICES ASSUME NEW e \in Ends PROVE InOrderFrom(e)'
  BY DEF InOrder
<1>1. InOrderFrom(e)
  BY DEF InOrder
<1>2. /\ tr' = [tr EXCEPT ![f] = "closed"]
      /\ wire'[Peer(f)] = wire[Peer(f)]
      /\ \E l \in 0 .. Len(wire[f]) : wire'[f] = SubSeq(wire[f], 1, l)
  BY HangupFacts
<1>3. e = f \/ (e = Peer(f) /\ f = Peer(e))
  BY DEF Ends, Peer
<1>4. tr'[f] = "closed"
  BY <1>2, ZenonT(30) DEF TypeOK
<1>5. ~Flows(e)'
  BY <1>3, <1>4 DEF Flows
<1>6. wire'[e] = wire[e] \/ \E l \in 0 .. Len(wire[e]) : wire'[e] = SubSeq(wire[e], 1, l)
  BY <1>2, <1>3
<1> QED  BY <1>1, <1>5, <1>6, Settles

(* Steps with which a goroutine of PipeBiDir closes the stream.            *)
LEMMA OrderClose ==
    ASSUME NEW f \in Ends, TypeOK, Phases, InOrder, CloseStream(f),
           UNCHANGED <<kind, got, taken, link>>,
           \A e \in Ends : /\ up'[e] = "write" => up[e] = "write"
                           /\ up[e] = "write" /\ up'[e] # "write" => ~CanWrite(e)
    PROVE  InOrder'
<1>1. CASE Hangup(f)
  BY <1>1, OrderHangup
<1>2. CASE /\ tr' = [tr EXCEPT ![f] = IF @ = "open" THEN "noread" ELSE @]
           /\ wire' = wire
  <2> SUFFICES ASSUME NEW e \in Ends PROVE InOrderFrom(e)'
    BY DEF InOrder
  <2>1. InOrderFrom(e)
    BY DEF InOrder
  <2>2. Flows(e)' => Flows(e)
    BY <1>2 DEF Flows, TypeOK, Ends, Peer
  <2>3. Flows(e) => CanWrite(e)
    BY DEF Flows, CanWrite
  <2> QED  BY <1>2, <2>1, <2>2, <2>3, Settles, ZenonT(30)
<1> QED  BY <1>1, <1>2, CloseFacts

(* Steps that write a message other than data.                             *)
LEMMA OrderWrite ==
    ASSUME NEW f \in Ends, NEW m \in Message, m.op # "data",
           TypeOK, Phases, InOrder, CanWrite(f), Write(f, m),
           UNCHANGED <<kind, got, taken>>,
           \A e \in Ends : up'[e] = "write" <=> up[e] = "write"
    PROVE  InOrder'
<1> SUFFICES ASSUME NEW e \in Ends PROVE InOrderFrom(e)'
  BY DEF InOrder
<1>1. InOrderFrom(e)
  BY DEF InOrder
<1>2. /\ tr' = tr
      /\ link'[Peer(f)] = link[Peer(f)]
      /\ wire'[Peer(f)] = wire[Peer(f)]
      /\ \/ Flows(f) /\ link' = link /\ wire'[f] = Append(wire[f], m)
         \/ ~Flows(f)' /\ wire' = wire
  BY WriteFacts, ZenonT(30)
<1>3. e = f \/ e = Peer(f)
  BY DEF Ends, Peer
<1>4. CASE e = Peer(f)
  BY <1>1, <1>2, <1>4, Settles DEF Flows
<1>5. CASE e = f /\ wire' = wire /\ ~Flows(f)'
  BY <1>1, <1>5, Settles
<1>6. CASE e = f /\ Flows(f) /\ link' = link /\ wire'[f] = Append(wire[f], m)
  <2> DEFINE k == Len(got[Peer(e)])
  <2>1. wire[e] \in Seq(Message) /\ k \in Nat /\ Passed(e) \in Nat
    BY <1>1 DEF Phases, TypeOK, Ends, Peer, Passed, InOrderFrom
  <2>2. Passed(e)' = Passed(e)
    BY DEF Passed
  <2>3. /\ \A i \in DataOn(wire[e]) : wire[e][i] = Data(wire[e][i].n)
        /\ Consecutive(wire[e], k, Passed(e))
        /\ Reaches(wire[e], k, Passed(e))
        /\ k <= Passed(e)
        /\ up[e] = "write" => taken[e] > 0
    BY <1>1, <1>6 DEF InOrderFrom
  <2>4. Consecutive(wire'[e], k, Passed(e)) /\ Reaches(wire'[e], k, Passed(e))
    BY <1>6, <2>1, <2>3, PutOther
  <2>5. \A i \in DataOn(wire'[e]) : i \in DataOn(wire[e]) /\ wire'[e][i] = wire[e][i]
    BY <1>6, <2>1 DEF DataOn
  <2> QED  BY <2>2, <2>3, <2>4, <2>5, Zenon DEF InOrderFrom, Data
<1> QED  BY <1>2, <1>3, <1>4, <1>5, <1>6

(* Steps that read a message other than data.                              *)
LEMMA OrderRead ==
    ASSUME NEW f \in Ends, TypeOK, Phases, InOrder, CanRead(f),
           Received(f).op # "data", wire' = Consumed(f),
           UNCHANGED <<kind, got, taken, up, tr, link>>
    PROVE  InOrder'
<1> SUFFICES ASSUME NEW e \in Ends PROVE InOrderFrom(e)'
  BY DEF InOrder
<1>1. InOrderFrom(e) /\ wire \in [Ends -> Seq(Message)]
  BY DEF InOrder, Phases
<1>2. CASE e = f
  <2>1. wire'[e] = wire[e]
    BY <1>1, <1>2 DEF Consumed, Ends, Peer
  <2> QED  BY <1>1, <2>1, Settles DEF Flows
<1>3. CASE e = Peer(f)
  <2> DEFINE k == Len(got[Peer(e)])
             w == wire[e]
  <2>1. w \in Seq(Message) /\ w # <<>> /\ Head(w).op # "data" /\ wire'[e] = Tail(w)
    BY <1>1, <1>3 DEF CanRead, Received, Consumed
  <2>2. k \in Nat /\ Passed(e) \in Nat /\ Passed(e)' = Passed(e)
    BY <1>1 DEF TypeOK, Ends, Peer, Passed, InOrderFrom
  <2>3. /\ \A i \in DataOn(w) : w[i] = Data(w[i].n)
        /\ Consecutive(w, k, Passed(e))
        /\ Flows(e) => Reaches(w, k, Passed(e))
        /\ k <= Passed(e)
        /\ up[e] = "write" => taken[e] > 0
    BY <1>1, Zenon DEF InOrderFrom
  <2>4. /\ Consecutive(Tail(w), k, Passed(e))
        /\ Flows(e) => Reaches(Tail(w), k, Passed(e))
    BY <2>1, <2>2, <2>3, TakeOther, Zenon
  <2>5. \A i \in DataOn(Tail(w)) : i + 1 \in DataOn(w) /\ Tail(w)[i] = w[i + 1]
    BY <2>1 DEF DataOn
  <2>6. Flows(e)' = Flows(e)
    BY DEF Flows
  <2> QED  BY <2>1, <2>2, <2>3, <2>4, <2>5, <2>6, ZenonT(30) DEF InOrderFrom, Data
<1> QED  BY <1>2, <1>3 DEF Ends, Peer

(* The reading of a piece of data.                                         *)
LEMMA OrderReadsData ==
    ASSUME NEW f \in Ends, TypeOK, Phases, InOrder, ReadsData(f)
    PROVE  InOrder'
<1> SUFFICES ASSUME NEW e \in Ends PROVE InOrderFrom(e)'
  BY DEF InOrder
<1>1. /\ InOrderFrom(e)
      /\ wire \in [Ends -> Seq(Message)]
      /\ got \in [Ends -> Seq(Chunks)]
  BY DEF InOrder, Phases, TypeOK
<1>2. /\ UNCHANGED <<kind, taken, up, tr, link>>
      /\ CanRead(f) /\ Received(f).op = "data" /\ wire' = Consumed(f)
      /\ got' = [got EXCEPT ![f] = Append(@, Payload(Received(f)))]
  BY DEF ReadsData, setup
<1>3. CASE e = f
  <2>1. wire'[e] = wire[e] /\ got'[Peer(e)] = got[Peer(e)]
    BY <1>1, <1>2, <1>3 DEF Consumed, Ends, Peer
  <2> QED  BY <1>1, <1>2, <2>1, Settles DEF Flows
<1>4. CASE e = Peer(f)
  <2> DEFINE k == Len(got[f])
             w == wire[e]
  <2>0. Peer(e) = f /\ k \in Nat /\ Len(got'[f]) = k + 1
    BY <1>1, <1>2, <1>4 DEF Ends, Peer
  <2>1. w \in Seq(Message) /\ w # <<>> /\ Head(w).op = "data" /\ wire'[e] = Tail(w)
    BY <1>1, <1>2, <1>4 DEF CanRead, Received, Consumed
  <2>2. Passed(e) \in Nat /\ Passed(e)' = Passed(e)
    <3>1. taken[e] \in Nat /\ (up[e] = "write" => taken[e] > 0)
      BY <1>1, Zenon DEF TypeOK, InOrderFrom
    <3>2. UNCHANGED <<taken, up>>
      BY <1>2, Zenon
    <3> QED  BY <3>1, <3>2 DEF Passed
  <2>3. /\ \A i \in DataOn(w) : w[i] = Data(w[i].n)
        /\ Consecutive(w, k, Passed(e))
        /\ Flows(e) => Reaches(w, k, Passed(e))
        /\ up[e] = "write" => taken[e] > 0
    BY <1>1, <2>0, Zenon DEF InOrderFrom
  <2>4. /\ Consecutive(Tail(w), k + 1, Passed(e))
        /\ Flows(e) => Reaches(Tail(w), k + 1, Passed(e))
        /\ k + 1 <= Passed(e)
    BY <2>0, <2>1, <2>2, <2>3, TakeData, Zenon
  <2>5. \A i \in DataOn(Tail(w)) : i + 1 \in DataOn(w) /\ Tail(w)[i] = w[i + 1]
    BY <2>1 DEF DataOn
  <2>6. Flows(e)' = Flows(e)
    BY <1>2, Zenon DEF Flows
  <2>7. \A i \in DataOn(Tail(w)) : Tail(w)[i] = Data(Tail(w)[i].n)
    BY <2>3, <2>5, Zenon
  <2>8. (\A i \in DataOn(wire[e]) : wire[e][i] = Data(wire[e][i].n))'
    BY <1>2, <2>1, <2>7, Zenon DEF Data
  <2>9. Len(got'[Peer(e)]) = k + 1
    BY <2>0
  <2> HIDE DEF k, w
  <2> QED  BY <1>2, <2>1, <2>2, <2>3, <2>4, <2>6, <2>8, <2>9, Zenon DEF InOrderFrom
<1> QED  BY <1>3, <1>4 DEF Ends, Peer

(* The writing of a piece of data, which may get lost.                     *)
LEMMA OrderData ==
    ASSUME NEW f \in Ends, TypeOK, Phases, InOrder, UpWrites(f)
    PROVE  InOrder'
<1> SUFFICES ASSUME NEW e \in Ends PROVE InOrderFrom(e)'
  BY DEF InOrder
<1>1. InOrderFrom(e) /\ InOrderFrom(f)
  BY DEF InOrder
<1>2. /\ UNCHANGED <<kind, got, taken>> /\ up' = [up EXCEPT ![f] = "read"]
      /\ up[f] = "write" /\ CanWrite(f) /\ Write(f, Data(taken[f]))
  BY DEF UpWrites, setup, copied
<1>3. taken[f] \in Nat \ {0} /\ taken[f] \in 1 .. Len(Size)
  <2>1. /\ taken[f] \in Nat /\ sent[f] \in Nat /\ Limit[f] \in 0 .. Len(Size) /\ Len(Size) \in Nat
        /\ taken[f] <= sent[f] /\ sent[f] <= Limit[f]
    BY TunnelAssumption DEF TypeOK
  <2>2. taken[f] > 0
    BY <1>1, <1>2, Zenon DEF InOrderFrom
  <2> QED  BY <2>1, <2>2
<1>4. Data(taken[f]) \in Message /\ Data(taken[f]).op = "data" /\ Data(taken[f]).n = taken[f]
  BY <1>3, Messages
<1>5. /\ tr' = tr
      /\ link'[Peer(f)] = link[Peer(f)]
      /\ wire'[Peer(f)] = wire[Peer(f)]
      /\ \/ Flows(f) /\ link' = link /\ wire'[f] = Append(wire[f], Data(taken[f]))
         \/ ~Flows(f)' /\ wire' = wire
  BY <1>2, <1>4, WriteFacts, Zenon
<1>6. up'[f] = "read" /\ (Peer(f) # f => up'[Peer(f)] = up[Peer(f)])
  BY <1>2 DEF TypeOK, Ends, Peer
<1>7. CASE e = Peer(f)
  BY <1>1, <1>2, <1>5, <1>6, <1>7, Settles DEF Flows, Ends, Peer
<1>8. CASE e = f /\ wire' = wire /\ ~Flows(f)'
  BY <1>1, <1>2, <1>6, <1>8, Settles, Zenon
<1>9. CASE e = f /\ Flows(f) /\ link' = link /\ wire'[f] = Append(wire[f], Data(taken[f]))
  <2> DEFINE k == Len(got[Peer(e)])
             q == taken[e] - 1
             w == wire[e]
             m == Data(taken[e])
  <2>0. /\ e = f /\ Peer(e) \in Ends
        /\ wire \in [Ends -> Seq(Message)] /\ got \in [Ends -> Seq(Chunks)]
    BY <1>9, ZenonT(60) DEF Phases, TypeOK, Ends, Peer
  <2>1. w \in Seq(Message) /\ k \in Nat /\ q \in Nat /\ q + 1 = taken[e]
    BY <1>3, <2>0
  <2>2. Passed(e) = q /\ Passed(e)' = q + 1
    BY <1>2, <1>6, <1>9, <2>1 DEF Passed
  <2>3. /\ \A i \in DataOn(w) : w[i] = Data(w[i].n)
        /\ Consecutive(w, k, q) /\ Reaches(w, k, q) /\ k <= q
    BY <1>1, <1>9, <2>2, Zenon DEF InOrderFrom
  <2>4. m \in Message /\ m.op = "data" /\ m.n = q + 1 /\ m = Data(m.n)
    BY <1>4, <1>9, <2>1, Zenon
  <2>5. wire'[e] = Append(w, m)
    BY <1>9
  <2> HIDE DEF m, q, w
  <2>6. Consecutive(Append(w, m), k, q + 1) /\ Reaches(Append(w, m), k, q + 1)
    BY <2>1, <2>3, <2>4, PutData
  <2>7. \A i \in DataOn(Append(w, m)) :
            Append(w, m)[i] = m \/ (i \in DataOn(w) /\ Append(w, m)[i] = w[i])
    BY <2>1, <2>4 DEF DataOn
  <2>8. \A i \in DataOn(Append(w, m)) : Append(w, m)[i] = Data(Append(w, m)[i].n)
    BY <2>3, <2>4, <2>7, Zenon
  <2>9. k <= q + 1
    BY <2>1, <2>3
  <2> QED  BY <1>2, <1>6, <1>9, <2>2, <2>5, <2>6, <2>8, <2>9, Zenon DEF InOrderFrom, Data
<1> QED  BY <1>5, <1>7, <1>8, <1>9 DEF Ends, Peer

(* Every step keeps the data in order.                                     *)
LEMMA OrderStep == ASSUME TypeOK, Phases, InOrder, Next PROVE InOrder'
<1> USE DEF setup, copied, net
<1>e. "client" \in Ends /\ "server" \in Ends
  BY DEF Ends
<1>t. up \in [Ends -> {"off", "read", "write", "bye", "end"}]
  BY DEF TypeOK
<1>1. CASE Accept
  BY <1>1, OrderIdle DEF Accept, Flows
<1>2. CASE Handshake
  BY <1>2, OrderIdle DEF Handshake, Flows
<1>3. CASE Rejects
  BY <1>3, OrderIdle DEF Rejects, Flows
<1>4. CASE Ticks
  BY <1>4, OrderIdle DEF Ticks, Flows
<1>5. CASE Accepted
  <2>1. \A e \in Ends : up'[e] = "write" <=> up[e] = "write"
    BY <1>5, <1>t, <1>e DEF Accepted, StartCopying, Phases
  <2> QED  BY <1>5, <2>1, OrderIdle DEF Accepted, Flows
<1>6. CASE DialsTarget
  <2>1. \A e \in Ends : up'[e] = "write" <=> up[e] = "write"
    BY <1>6, <1>t, <1>e DEF DialsTarget, StartCopying, Phases
  <2> QED  BY <1>6, <2>1, OrderIdle DEF DialsTarget, Flows
<1>7. CASE DialsLocal
  <2>1. \A e \in Ends : up'[e] = "write" <=> up[e] = "write"
    BY <1>7, <1>t, <1>e DEF DialsLocal, StartCopying, Phases
  <2> QED  BY <1>7, <2>1, OrderIdle DEF DialsLocal, Flows
<1>8. CASE Dial
  <2>1. tr["server"] = "none" /\ tr' = [tr EXCEPT !["client"] = "open"]
    BY <1>8 DEF Dial, Phases, TypeOK
  <2>2. \A e \in Ends : ~Flows(e)'
    BY <2>1 DEF Flows, Ends, Peer
  <2> QED  BY <1>8, <2>2, OrderIdle DEF Dial
<1>9. CASE Serves
  <2>1. /\ UNCHANGED <<kind, got, taken, up, wire>>
        /\ \A e \in Ends : up[e] = "off" /\ taken[e] = 0
    BY <1>9 DEF Serves, Phases, TypeOK, Ends
  <2> SUFFICES ASSUME NEW e \in Ends PROVE InOrderFrom(e)'
    BY DEF InOrder
  <2>2. InOrderFrom(e) /\ Passed(e) = 0 /\ Passed(e)' = 0 /\ Len(got[Peer(e)]) \in Nat
    BY <2>1 DEF InOrder, Passed, TypeOK, Ends, Peer
  <2>3. Len(got[Peer(e)]) = 0
    BY <2>2 DEF InOrderFrom
  <2>4. 0 + 1 .. 0 = {}
    OBVIOUS
  <2>5. Reaches(wire[e], 0, 0)
    BY <2>4, Zenon DEF Reaches
  <2> QED  BY <2>1, <2>2, <2>3, <2>5, Zenon DEF InOrderFrom, Data
<1>10. CASE DialFails
  BY <1>10, <1>e, OrderHangup DEF DialFails, Abandon
<1>11. CASE NotAccepted
  BY <1>11, <1>e, OrderHangup DEF NotAccepted, Abandon
<1>12. CASE NoFrame
  BY <1>12, <1>e, OrderHangup DEF NoFrame, Abandon
<1>13. CASE LocalFails
  BY <1>13, <1>e, OrderHangup DEF LocalFails, Abandon
<1>14. CASE ClientReturns
  BY <1>14, <1>e, OrderHangup DEF ClientReturns, Abandon
<1>15. CASE TargetFails
  BY <1>15, <1>e, OrderHangup DEF TargetFails, ServerGivesUp
<1>16. CASE FrameFails
  BY <1>16, <1>e, OrderHangup DEF FrameFails, ServerGivesUp
<1>17. CASE ParkedTooLong
  BY <1>17, <1>e, OrderHangup DEF ParkedTooLong, ServerGivesUp
<1>18. CASE ServerReturns
  BY <1>18, <1>e, OrderHangup DEF ServerReturns
<1>19. CASE ReadsFrame
  BY <1>19, <1>e, OrderRead DEF ReadsFrame
<1>20. ASSUME NEW t \in Targets, IncomingConnection(t) PROVE InOrder'
  <2>1. \A e \in Ends : up'[e] = "write" <=> up[e] = "write"
    BY <1>20, <1>t, <1>e DEF IncomingConnection, StartCopying, Phases
  <2>2. Frame(t) \in Message /\ Frame(t).op # "data"
    BY Messages
  <2>3. CASE scheme = "dynamic"
    BY <1>20, <1>e, <2>1, <2>2, <2>3, OrderWrite DEF IncomingConnection
  <2>4. CASE scheme # "dynamic"
    BY <1>20, <2>1, <2>4, OrderIdle DEF IncomingConnection, Flows
  <2> QED  BY <2>3, <2>4
<1>21. ASSUME NEW e \in Ends, AppSends(e) PROVE InOrder'
  BY <1>21, OrderIdle DEF AppSends, Flows
<1>22. ASSUME NEW e \in Ends, AppEnds(e) PROVE InOrder'
  BY <1>22, OrderIdle DEF AppEnds, Flows
<1>23. ASSUME NEW e \in Ends, UpReads(e) PROVE InOrder'
  <2> SUFFICES ASSUME NEW f \in Ends PROVE InOrderFrom(f)'
    BY DEF InOrder
  <2>1. /\ UNCHANGED <<kind, got, wire, tr, link>> /\ up[e] = "read"
        /\ up' = [up EXCEPT ![e] = "write"] /\ taken' = [taken EXCEPT ![e] = @ + 1]
    BY <1>23, Zenon DEF UpReads
  <2>2. InOrderFrom(f) /\ taken \in [Ends -> Nat]
    BY DEF InOrder, TypeOK
  <2>3. Passed(f)' = Passed(f) /\ Flows(f)' = Flows(f)
    BY <1>t, <2>1, <2>2 DEF Passed, Flows
  <2>4. up'[f] = "write" => taken'[f] > 0
    BY <1>t, <2>1, <2>2 DEF InOrderFrom
  <2> QED  BY <2>1, <2>2, <2>3, <2>4, Zenon DEF InOrderFrom, Data
<1>24. ASSUME NEW e \in Ends, UpReadEnds(e) PROVE InOrder'
  <2>1. \A f \in Ends : /\ up'[f] = "write" => up[f] = "write"
                        /\ up[f] = "write" /\ up'[f] # "write" => ~CanWrite(f)
    BY <1>24, <1>t, Zenon DEF UpReadEnds, UpStops
  <2>2. CASE kind = "h2"
    <3>1. CloseStream(e) /\ UNCHANGED <<kind, got, taken, link>>
      BY <1>24, <2>2 DEF UpReadEnds, UpStops
    <3> QED  BY <2>1, <3>1, OrderClose
  <2>3. CASE kind # "h2"
    <3> SUFFICES ASSUME NEW f \in Ends PROVE InOrderFrom(f)'
      BY DEF InOrder
    <3>1. InOrderFrom(f) /\ (Flows(f) => CanWrite(f)) /\ Flows(f)' = Flows(f)
      BY <1>24, <2>3 DEF InOrder, Flows, CanWrite, UpReadEnds, UpStops
    <3>2. UNCHANGED <<kind, got, taken, wire>>
      BY <1>24, <2>3, Zenon DEF UpReadEnds, UpStops
    <3> QED  BY <2>1, <3>1, <3>2, Settles
  <2> QED  BY <2>2, <2>3
<1>25. ASSUME NEW e \in Ends, UpWriteFails(e) PROVE InOrder'
  <2>1. \A f \in Ends : /\ up'[f] = "write" => up[f] = "write"
                        /\ up[f] = "write" /\ up'[f] # "write" => ~CanWrite(f)
    BY <1>25, <1>t DEF UpWriteFails, UpStops
  <2>2. CASE kind = "h2"
    <3>1. CloseStream(e) /\ UNCHANGED <<kind, got, taken, link>>
      BY <1>25, <2>2 DEF UpWriteFails, UpStops
    <3> QED  BY <2>1, <3>1, OrderClose
  <2>3. CASE kind # "h2"
    <3> SUFFICES ASSUME NEW f \in Ends PROVE InOrderFrom(f)'
      BY DEF InOrder
    <3>1. InOrderFrom(f) /\ (Flows(f) => CanWrite(f)) /\ Flows(f)' = Flows(f)
      BY <1>25, <2>3 DEF InOrder, Flows, CanWrite, UpWriteFails, UpStops
    <3>2. UNCHANGED <<kind, got, taken, wire>>
      BY <1>25, <2>3 DEF UpWriteFails, UpStops
    <3> QED  BY <2>1, <3>1, <3>2, Settles
  <2> QED  BY <2>2, <2>3
<1>26. ASSUME NEW e \in Ends, UpWrites(e) PROVE InOrder'
  BY <1>26, OrderData
<1>27. ASSUME NEW e \in Ends, UpSaysBye(e) PROVE InOrder'
  <2>1. \A f \in Ends : up'[f] = "write" <=> up[f] = "write"
    BY <1>27, <1>t DEF UpSaysBye
  <2>2. Control("close") \in Message /\ Control("close").op # "data"
    BY Messages
  <2>3. CASE CanWrite(e)
    BY <1>27, <2>1, <2>2, <2>3, OrderWrite DEF UpSaysBye
  <2>4. CASE ~CanWrite(e)
    BY <1>27, <2>1, <2>4, OrderIdle DEF UpSaysBye, Flows
  <2> QED  BY <2>3, <2>4
<1>28. ASSUME NEW e \in Ends, ReadsData(e) PROVE InOrder'
  BY <1>28, OrderReadsData
<1>29. ASSUME NEW e \in Ends, ReadsControl(e) PROVE InOrder'
  BY <1>29, OrderRead DEF ReadsControl
<1>30. ASSUME NEW e \in Ends, Pongs(e) PROVE InOrder'
  BY <1>30, Messages, OrderWrite DEF Pongs
<1>31. ASSUME NEW e \in Ends, DownEnds(e) PROVE InOrder'
  <2>1. CASE kind = "h2"
    BY <1>31, <2>1, OrderClose DEF DownEnds
  <2>2. CASE kind # "h2"
    BY <1>31, <2>2, OrderIdle, Zenon DEF DownEnds, Flows
  <2> QED  BY <2>1, <2>2
<1>32. CASE Pings
  <2>1. CASE CanWrite("client")
    BY <1>32, <1>e, <2>1, Messages, OrderWrite DEF Pings
  <2>2. CASE ~CanWrite("client")
    BY <1>32, <1>e, <2>2, OrderHangup DEF Pings
  <2> QED  BY <2>1, <2>2
<1>33. ASSUME NEW how \in {"silent", "reset"}, NetworkFails(how) PROVE InOrder'
  <2> SUFFICES ASSUME NEW f \in Ends PROVE InOrderFrom(f)'
    BY DEF InOrder
  <2>1. InOrderFrom(f) /\ ~Flows(f)' /\ wire[f] \in Seq(Message)
    BY <1>33 DEF InOrder, NetworkFails, Flows, Phases
  <2>2. wire'[f] = SubSeq(wire[f], 1, 0) /\ 0 \in 0 .. Len(wire[f])
    BY <1>33, <2>1 DEF NetworkFails
  <2> QED  BY <1>33, <2>1, <2>2, Settles, Zenon DEF NetworkFails
<1>34. ASSUME NEW e \in Ends, Delivers(e) PROVE InOrder'
  BY <1>34, OrderIdle, Zenon DEF Delivers, Flows
<1>35. CASE PingerStops
  BY <1>35, OrderIdle, Zenon DEF PingerStops, Flows
<1> QED  BY <1>1, <1>2, <1>3, <1>4, <1>5, <1>6, <1>7, <1>8, <1>9, <1>10, <1>11, <1>12,
         <1>13, <1>14, <1>15, <1>16, <1>17, <1>18, <1>19, <1>20, <1>21, <1>22, <1>23,
         <1>24, <1>25, <1>26, <1>27, <1>28, <1>29, <1>30, <1>31, <1>32, <1>33,
         <1>34, <1>35, ZenonT(60) DEF Next,
         SetupStep, ServerStep, UpStep, DownStep

(* The piece of data that is read is the next one, unaltered, and not one  *)
(* that ReadMessage refuses.                                               *)
LEMMA DataFacts ==
    ASSUME NEW e \in Ends, TypeOK, Phases, InOrder, CanRead(e), Received(e).op = "data"
    PROVE  /\ Payload(Received(e)) = Chunk(Len(got[e]) + 1)
           /\ ~Refused(Received(e))
           /\ Len(got[e]) + 1 \in 1 .. sent[Peer(e)]
           /\ Len(got[e]) + 1 \in 1 .. Len(Size)
<1> DEFINE f == Peer(e)
           k == Len(got[e])
<1>1. f \in Ends /\ Peer(f) = e
  BY DEF Ends, Peer
<1>2. /\ wire[f] \in Seq(Message) /\ k \in Nat /\ taken[f] \in Nat /\ sent[f] \in Nat
      /\ taken[f] <= sent[f] /\ sent[f] <= Limit[f]
  BY <1>1 DEF TypeOK, Phases
<1>3. Limit[f] \in 0 .. Len(Size) /\ Len(Size) \in Nat
  BY <1>1, TunnelAssumption
<1>4. /\ \A i \in DataOn(wire[f]) : wire[f][i] = Data(wire[f][i].n)
      /\ Consecutive(wire[f], k, Passed(f))
      /\ up[f] = "write" => taken[f] > 0
  BY <1>1 DEF InOrder, InOrderFrom
<1>5. Passed(f) \in Nat /\ Passed(f) <= sent[f]
  <2>1. CASE up[f] = "write"
    <3>1. Passed(f) = taken[f] - 1
      BY <2>1, Zenon DEF Passed
    <3>2. taken[f] \in Nat /\ sent[f] \in Nat /\ taken[f] <= sent[f] /\ taken[f] > 0
      BY <1>2, <1>4, <2>1, Zenon
    <3> QED  BY <3>1, <3>2
  <2>2. CASE up[f] # "write"
    BY <1>2, <2>2, Zenon DEF Passed
  <2> QED  BY <2>1, <2>2, Zenon
<1>6. wire[f] # <<>> /\ Head(wire[f]).op = "data" /\ Received(e) = Head(wire[f])
  BY Zenon DEF CanRead, Received
<1>7. Head(wire[f]).n = k + 1 /\ k + 1 <= Passed(f)
  BY <1>2, <1>4, <1>5, <1>6, TakeData
<1>8. k + 1 \in 1 .. sent[f] /\ k + 1 \in 1 .. Limit[f] /\ k + 1 \in 1 .. Len(Size)
  BY <1>2, <1>3, <1>5, <1>7
<1>9. Received(e) = Data(k + 1)
  <2>1. 1 \in DataOn(wire[f]) /\ Head(wire[f]) = wire[f][1]
    BY <1>2, <1>6 DEF DataOn
  <2> QED  BY <1>4, <1>6, <1>7, <2>1
<1>10. Payload(Data(k + 1)) = Chunk(k + 1) /\ ~Refused(Data(k + 1))
  <2>1. Size[k + 1] \in 0 .. MaxPayload /\ Size[k + 1] \in Nat
    BY <1>8, Sizes
  <2>2. DecodeLength(EncodeLength(Size[k + 1])) = Size[k + 1]
    BY <2>1, LengthRoundTrip
  <2>3. Length(Data(k + 1)) = Size[k + 1]
    BY <2>2 DEF Length, Data
  <2> QED  BY <2>1, <2>3 DEF Payload, Refused, Data, Chunk
<1> QED  BY <1>8, <1>9, <1>10

-----------------------------------------------------------------------------
(* Complete delivery: what happens to the close messages on a wire.        *)

(* Messages are read or cut off, or one that is neither data nor a close   *)
(* message is written.                                                     *)
Tamer(w, v) ==
    \/ v = w
    \/ \E l \in 0 .. Len(w) : v = SubSeq(w, 1, l)
    \/ w # <<>> /\ v = Tail(w)
    \/ \E m \in Message : m.op \notin {"data", "close"} /\ v = Append(w, m)
LEMMA StaysTidy ==
    ASSUME NEW w \in Seq(Message), NEW v, Tamer(w, v), Tidy(w)
    PROVE  Tidy(v) /\ (Closes(v) => Closes(w))
<1>1. CASE v = w
  BY <1>1
<1>2. ASSUME NEW l \in 0 .. Len(w), v = SubSeq(w, 1, l)
      PROVE  Tidy(v) /\ (Closes(v) => Closes(w))
  <2>1. \A i \in DOMAIN v : i \in DOMAIN w /\ v[i] = w[i]
    BY <1>2
  <2> QED  BY <2>1, Zenon DEF Tidy, Closes
<1>3. ASSUME w # <<>>, v = Tail(w)
      PROVE  Tidy(v) /\ (Closes(v) => Closes(w))
  <2>1. \A i \in DOMAIN v : i + 1 \in DOMAIN w /\ v[i] = w[i + 1]
    BY <1>3
  <2>2. \A i, j \in DOMAIN v : i < j => i + 1 < j + 1
    BY <1>3
  <2> QED  BY <2>1, <2>2, Zenon DEF Tidy, Closes
<1>4. ASSUME NEW m \in Message, m.op \notin {"data", "close"}, v = Append(w, m)
      PROVE  Tidy(v) /\ (Closes(v) => Closes(w))
  <2>1. \A i \in DOMAIN v : v[i] = m \/ (i \in DOMAIN w /\ v[i] = w[i])
    BY <1>4
  <2> QED  BY <1>4, <2>1 DEF Tidy, Closes
<1> QED  BY <1>1, <1>2, <1>3, <1>4, Zenon DEF Tamer

(* Data is written before the close message, ...                           *)
LEMMA DataIsTidy ==
    ASSUME NEW w \in Seq(Message), NEW m \in Message, m.op = "data", ~Closes(w)
    PROVE  Tidy(Append(w, m)) /\ ~Closes(Append(w, m))
<1> DEFINE v == Append(w, m)
<1>1. \A i \in DOMAIN v : v[i] = m \/ (i \in DOMAIN w /\ v[i] = w[i])
  OBVIOUS
<1> HIDE DEF v
<1>2. \A i \in DOMAIN v : v[i].op # "close"
  BY <1>1, Zenon DEF Closes
<1> QED  BY <1>2, Zenon DEF Tidy, Closes, v

(* ... which is the last.                                                  *)
LEMMA CloseIsTidy ==
    ASSUME NEW w \in Seq(Message), NEW m \in Message, m.op = "close", Tidy(w)
    PROVE  Tidy(Append(w, m))
<1> DEFINE v == Append(w, m)
<1>1. \A i \in DOMAIN v : v[i] = m \/ (i \in DOMAIN w /\ v[i] = w[i])
  OBVIOUS
<1>2. \A i, j \in DOMAIN v : i < j => i \in DOMAIN w /\ v[i] = w[i]
  OBVIOUS
<1> HIDE DEF v
<1> QED  BY <1>1, <1>2, Zenon DEF Tidy, v

-----------------------------------------------------------------------------
(* Complete delivery: what the steps do.                                   *)

(* An end that has started to copy and has not finished has its side of    *)
(* the transport open.                                                     *)
LEMMA Busy ==
    ASSUME NEW e \in Ends, TypeOK, Phases, Sides, up[e] # "off", ~Copied(e)
    PROVE  tr[e] = "open"
<1>1. CASE e = "client"
  BY <1>1 DEF TypeOK, Phases, Sides
<1>2. CASE e = "server"
  BY <1>2 DEF TypeOK, Phases, Sides
<1> QED  BY <1>1, <1>2 DEF Ends

(* So has the client while it pings, unless it has returned already.       *)
LEMMA PingerWrites ==
    ASSUME TypeOK, Phases, Undisturbed, Sides, Pings
    PROVE  CanWrite("client") \/ cpc \in {"done", "again"}
<1>1. cpc \in {"pipe", "done", "again"}
  BY DEF Pings, TypeOK, Phases
<1>2. "client" \in Ends
  BY DEF Ends
<1> QED  BY <1>1, <1>2 DEF Sides, Undisturbed, CanWrite

(* Why "down" ends.                                                        *)
LEMMA WhyDownEnds ==
    ASSUME NEW e \in Ends, TypeOK, Phases, InOrder, Undisturbed, Sides,
           \A f \in Ends : ByesFrom(f) /\ EndingOf(f), DownEnds(e)
    PROVE  Delivered(e) \/ Delivered(Peer(e)) \/ Gone(Peer(e))
<1> DEFINE p == Peer(e)
           w == wire[p]
           k == Len(got[e])
<1>1. p \in Ends /\ Peer(p) = e
  BY DEF Ends, Peer
<1>2. down[e] \in {"read", "write", "pong"} /\ up[e] # "off"
  BY DEF DownEnds, DownFails, Phases
<1>3. tr[e] = "open" /\ local[e] = "open" /\ link[e] = "up" /\ link[p] = "up"
  <2>1. ~Copied(e)
    BY <1>2 DEF Copied
  <2>2. tr[e] = "open"
    BY <1>2, <2>1, Busy
  <2> QED  BY <1>1, <1>2, <2>2, ZenonT(60) DEF Sides, Undisturbed
<1>4. CASE down[p] = "end"
  BY <1>1, <1>2, <1>4, Zenon DEF EndingOf, Gone
<1>5. CASE up[p] # "off" /\ down[p] # "end" /\ w = <<>> /\ tr[p] = "closed"
  BY <1>1, <1>5, Busy DEF Copied
<1>6. CASE up[p] = "off" /\ tr[p] = "closed"
  BY <1>6 DEF Gone
<1>7. CASE down[p] # "end" /\ w # <<>> /\ Head(w).op = "close"
  <2>1. w \in Seq(Message) /\ k \in Nat /\ taken[p] \in Nat
    BY <1>1 DEF Phases, TypeOK
  <2>2. 1 \in DOMAIN w /\ w[1].op = "close" /\ \A j \in DOMAIN w : j = 1 \/ 1 < j
    BY <1>7, <2>1
  <2>3. up[p] = "end" /\ Tidy(w)
    BY <1>1, <2>2, Zenon DEF ByesFrom, Closes
  <2>4. eof[p] /\ taken[p] = sent[p]
    BY <1>1, <1>7, <2>3, Zenon DEF ByesFrom
  <2>5. Flows(p)
    BY <1>1, <1>3, <1>7, <2>3, Busy, ZenonT(60) DEF Flows, Copied
  <2>6. DataOn(w) = {}
    BY <2>2, <2>3 DEF DataOn, Tidy
  <2>7. Passed(p) = taken[p]
    BY <2>3 DEF Passed
  <2>8. Reaches(w, k, taken[p]) /\ k <= taken[p]
    BY <1>1, <2>5, <2>7, Zenon DEF InOrder, InOrderFrom
  <2>9. k + 1 \notin k + 1 .. taken[p]
    BY <2>6, <2>8, Zenon DEF Reaches
  <2> HIDE DEF k
  <2>10. k = taken[p]
    BY <2>1, <2>8, <2>9
  <2> QED  BY <1>1, <2>4, <2>10 DEF Delivered, k
<1>8. \/ w = <<>> /\ tr[p] = "closed"
      \/ w # <<>> /\ Head(w).op = "close"
  <2>1. CASE ReadFails(e)
    BY <1>3, <2>1, ZenonT(60) DEF ReadFails
  <2>2. CASE CanRead(e) /\ Refused(Received(e))
    <3>1. Received(e).op = "close"
      BY <2>2, DataFacts, ZenonT(60) DEF Refused
    <3> QED  BY <2>2, <3>1, ZenonT(60) DEF CanRead, Received
  <2> QED  BY <1>3, <2>1, <2>2, ZenonT(60) DEF DownEnds, DownFails, CanWrite
<1> QED  BY <1>4, <1>5, <1>6, <1>7, <1>8, Zenon

(* What the transport does to the wires: Close, ...                        *)
LEMMA HangupTames ==
    ASSUME NEW f \in Ends, TypeOK, Phases, Hangup(f)
    PROVE  \A e \in Ends : /\ Tamer(wire[e], wire'[e])
                           /\ tr[e] = "closed" => tr'[e] = "closed"
<1> SUFFICES ASSUME NEW e \in Ends
             PROVE  /\ Tamer(wire[e], wire'[e])
                    /\ tr[e] = "closed" => tr'[e] = "closed"
  OBVIOUS
<1>1. /\ tr' = [tr EXCEPT ![f] = "closed"]
      /\ wire'[Peer(f)] = wire[Peer(f)]
      /\ \E l \in 0 .. Len(wire[f]) : wire'[f] = SubSeq(wire[f], 1, l)
  BY HangupFacts, Zenon
<1>2. e = f \/ e = Peer(f)
  BY DEF Ends, Peer
<1>3. tr[e] = "closed" => tr'[e] = "closed"
  BY <1>1, ZenonT(60) DEF TypeOK
<1> QED  BY <1>1, <1>2, <1>3, Zenon DEF Tamer

(* ... a message that is read, ...                                         *)
LEMMA ReadTames ==
    ASSUME NEW f \in Ends, Phases, CanRead(f), wire' = Consumed(f)
    PROVE  \A e \in Ends : Tamer(wire[e], wire'[e])
<1> SUFFICES ASSUME NEW e \in Ends PROVE Tamer(wire[e], wire'[e])
  OBVIOUS
<1>1. wire \in [Ends -> Seq(Message)] /\ wire[Peer(f)] # <<>>
  BY DEF Phases, CanRead
<1>2. CASE e = Peer(f)
  <2>1. wire'[e] = Tail(wire[e]) /\ wire[e] # <<>>
    BY <1>1, <1>2 DEF Consumed
  <2> QED  BY <2>1 DEF Tamer
<1>3. CASE e # Peer(f)
  <2>1. wire'[e] = wire[e]
    BY <1>1, <1>3 DEF Consumed
  <2> QED  BY <2>1 DEF Tamer
<1> QED  BY <1>2, <1>3

(* ... and one that is written while the network is up.                    *)
LEMMA WriteAdds ==
    ASSUME NEW f \in Ends, NEW m \in Message, TypeOK, Phases, CanWrite(f), Write(f, m)
    PROVE  /\ tr' = tr
           /\ wire'[f] = wire[f] \/ wire'[f] = Append(wire[f], m)
           /\ \A e \in Ends : e # f => wire'[e] = wire[e]
           /\ m.op \notin {"data", "close"} => \A e \in Ends : Tamer(wire[e], wire'[e])
<1>1. /\ tr' = tr
      /\ wire'[Peer(f)] = wire[Peer(f)]
      /\ wire'[f] = wire[f] \/ wire'[f] = Append(wire[f], m)
  BY WriteFacts, Zenon
<1>2. \A e \in Ends : e = f \/ e = Peer(f)
  BY DEF Ends, Peer
<1> QED  BY <1>1, <1>2, Zenon DEF Tamer

(* The steps of the setup, of the pinger and of the ends' return, as the   *)
(* copying goroutines see them, and the start of the goroutines.           *)
Stands == UNCHANGED <<up, down, taken, got, eof, sent>>
Rests ==
    /\ Stands
    /\ \A e \in Ends : /\ Tamer(wire[e], wire'[e])
                       /\ tr[e] = "closed" => tr'[e] = "closed"
Starts(e) ==
    /\ up[e] = "off" /\ down[e] = "off" /\ tr[e] = "open"
    /\ up' = [up EXCEPT ![e] = "read"] /\ down' = [down EXCEPT ![e] = "read"]
    /\ UNCHANGED <<taken, got, eof, sent, tr>>
    /\ \A f \in Ends : Tamer(wire[f], wire'[f])
Copies(e) ==
    \/ AppSends(e) \/ AppEnds(e) \/ UpReads(e) \/ UpReadEnds(e) \/ UpWrites(e)
    \/ UpSaysBye(e) \/ ReadsData(e) \/ Delivers(e) \/ ReadsControl(e)
    \/ Pongs(e) \/ DownEnds(e)
LEMMA CopyKinds ==
    ASSUME TypeOK, Phases, NothingLeftOpen, Undisturbed, Undisturbed', Sides, Next
    PROVE  Rests \/ \E e \in Ends : Starts(e) \/ Copies(e)
<1> USE DEF setup, app, copied, net
<1>e. "client" \in Ends /\ "server" \in Ends
  BY DEF Ends
<1>s. \A e \in Ends : Tamer(wire[e], wire[e])
  BY DEF Tamer
<1>h. ASSUME NEW f \in Ends, Hangup(f), Stands PROVE Rests
  BY <1>h, HangupTames DEF Rests
<1>i. ASSUME Stands, UNCHANGED <<wire, tr>> PROVE Rests
  BY <1>i, <1>s, Zenon DEF Rests
<1>1. CASE Accept \/ Handshake \/ Rejects \/ Ticks \/ PingerStops
  BY <1>1, <1>i DEF Accept, Handshake, Rejects, Ticks, PingerStops, Stands
<1>2. CASE DialFails \/ NotAccepted \/ NoFrame \/ LocalFails \/ ClientReturns
  BY <1>2, <1>e, <1>h DEF DialFails, NotAccepted, NoFrame, LocalFails, ClientReturns,
                          Abandon, Stands
<1>3. CASE TargetFails \/ FrameFails \/ ParkedTooLong \/ ServerReturns
  BY <1>3, <1>e, <1>h, ZenonT(60) DEF TargetFails, FrameFails, ParkedTooLong, ServerReturns,
                          ServerGivesUp, Stands
<1>4. CASE Dial
  BY <1>4, <1>s DEF Dial, Phases, TypeOK, Ends, Rests, Stands
<1>5. CASE Serves
  BY <1>5, <1>s DEF Serves, Phases, TypeOK, Ends, Rests, Stands
<1>6. CASE ReadsFrame
  <2>1. Stands /\ tr' = tr /\ CanRead("client") /\ wire' = Consumed("client")
    BY <1>6 DEF ReadsFrame, Stands
  <2> QED  BY <1>e, <2>1, ReadTames DEF Rests
<1>7. CASE Accepted
  <2>1. CASE Stands /\ UNCHANGED <<wire, tr>>
    BY <1>i, <2>1
  <2>2. CASE StartCopying("client") /\ ~Stands
    BY <1>7, <1>e, <1>s, <2>2, Zenon DEF Accepted, StartCopying, Phases, Sides, Starts
  <2> QED  BY <1>7, <2>1, <2>2 DEF Accepted, Stands
<1>8. CASE DialsLocal
  BY <1>8, <1>e, <1>s, Zenon DEF DialsLocal, StartCopying, Phases, Sides, Starts
<1>9. CASE DialsTarget
  BY <1>9, <1>e, <1>s, Zenon DEF DialsTarget, StartCopying, Phases, Sides, Starts
<1>10. ASSUME NEW t \in Targets, IncomingConnection(t)
       PROVE  Starts("server")
  <2>1. Frame(t) \in Message /\ Frame(t).op \notin {"data", "close"}
    BY Messages
  <2>2. tr' = tr /\ \A f \in Ends : Tamer(wire[f], wire'[f])
    <3>1. CASE scheme = "dynamic"
      BY <1>10, <1>e, <2>1, <3>1, WriteAdds DEF IncomingConnection
    <3>2. CASE scheme # "dynamic"
      BY <1>10, <1>s, <3>2 DEF IncomingConnection
    <3> QED  BY <3>1, <3>2
  <2> QED  BY <1>10, <1>e, <2>2 DEF IncomingConnection, StartCopying, Phases, Sides, Starts
<1>11. CASE Pings
  <2>1. Control("ping") \in Message /\ Control("ping").op \notin {"data", "close"}
    BY Messages
  <2>2. CASE CanWrite("client")
    <3>1. Stands /\ Write("client", Control("ping"))
      BY <1>11, <2>2 DEF Pings, Stands
    <3> QED  BY <1>e, <2>1, <2>2, <3>1, WriteAdds DEF Rests
  <2>3. CASE ~CanWrite("client")
    BY <1>11, <1>e, <1>h, <2>3 DEF Pings, Stands
  <2> QED  BY <2>2, <2>3
<1>12. ASSUME NEW e \in Ends, UpWriteFails(e) PROVE FALSE
  <2>1. up[e] = "write" /\ ~CanWrite(e)
    BY <1>12 DEF UpWriteFails
  <2>2. tr[e] = "open"
    BY <2>1, Busy DEF Copied
  <2> QED  BY <2>1, <2>2 DEF CanWrite, Undisturbed
<1>13. ASSUME NEW how \in {"silent", "reset"}, NetworkFails(how) PROVE FALSE
  BY <1>13, <1>e DEF NetworkFails, Undisturbed
<1> QED  BY <1>1, <1>2, <1>3, <1>4, <1>5, <1>6, <1>7, <1>8, <1>9, <1>10, <1>11, <1>12,
         <1>13, <1>e, Zenon DEF Next, SetupStep, ServerStep, UpStep, DownStep, Copies

(* A network that has failed does not recover.                             *)
LEMMA StaysDisturbed == ASSUME TypeOK, Next, Undisturbed' PROVE Undisturbed
<1> USE DEF setup, net
<1> DEFINE Calm == kind' = kind /\ \A e \in Ends : link'[e] = "up" => link[e] = "up"
<1> SUFFICES Calm
  BY Zenon DEF Undisturbed
<1>t. link \in [Ends -> {"up", "silent", "reset"}]
  BY DEF TypeOK
<1>w. ASSUME NEW f \in Ends, NEW m, Write(f, m), kind' = kind PROVE Calm
  BY <1>t, <1>w DEF Write
<1>i. ASSUME UNCHANGED <<kind, link>> PROVE Calm
  BY <1>i, Zenon
<1>e. "client" \in Ends /\ "server" \in Ends
  BY DEF Ends
<1> HIDE DEF Calm
<1>1. CASE Accept \/ Handshake \/ SetupStep \/ ParkedTooLong
  BY <1>1, <1>i, Zenon DEF Accept, Handshake, SetupStep, Dial, DialFails, Accepted,
     NotAccepted, ReadsFrame, NoFrame, DialsLocal, LocalFails, ParkedTooLong, ServerGivesUp
<1>2. CASE ServerStep \/ Ticks \/ PingerStops \/ ClientReturns \/ ServerReturns
  BY <1>2, <1>i, Zenon DEF ServerStep, Rejects, Serves, DialsTarget, TargetFails,
     FrameFails, ServerGivesUp, Ticks, PingerStops, ClientReturns, ServerReturns
<1>3. ASSUME NEW t \in Targets, IncomingConnection(t) PROVE Calm
  BY <1>3, <1>e, <1>i, <1>w, Zenon DEF IncomingConnection
<1>4. ASSUME NEW f \in Ends, AppSends(f) \/ AppEnds(f) PROVE Calm
  BY <1>4, <1>i, Zenon DEF AppSends, AppEnds
<1>5. ASSUME NEW f \in Ends, UpStep(f) PROVE Calm
  BY <1>5, <1>i, <1>w, Zenon DEF UpStep, UpReads, UpReadEnds, UpWrites, UpWriteFails,
     UpSaysBye
<1>6. ASSUME NEW f \in Ends, DownStep(f) \/ Delivers(f) PROVE Calm
  BY <1>6, <1>i, <1>w, Zenon DEF DownStep, ReadsData, Delivers, ReadsControl, Pongs, DownEnds
<1>7. CASE Pings
  BY <1>7, <1>e, <1>i, <1>w, Zenon DEF Pings
<1>8. ASSUME NEW how \in {"silent", "reset"}, NetworkFails(how) PROVE Calm
  BY <1>8, <1>t DEF NetworkFails, Calm
<1> QED  BY <1>1, <1>2, <1>3, <1>4, <1>5, <1>6, <1>7, <1>8, Zenon DEF Next

(* What an application has sent to its end, and what has been delivered of *)
(* it, does not change any more.                                           *)
LEMMA StaysDelivered ==
    ASSUME TypeOK, Next, TypeOK', InOrder', NEW e \in Ends, Delivered(e)
    PROVE  Delivered(e)'
<1> USE DEF app, copied
<1> DEFINE p == Peer(e)
           Onward == eof'[e] /\ sent'[e] = sent[e] /\ Len(got'[p]) >= Len(got[p])
<1>1. p \in Ends /\ eof[e] /\ Len(got[p]) = sent[e] /\ sent[e] \in Nat
  BY DEF Delivered, TypeOK, Ends, Peer
<1>t. eof \in [Ends -> BOOLEAN] /\ sent \in [Ends -> Nat]
  BY DEF TypeOK
<1>i. ASSUME UNCHANGED <<eof, sent, got>> PROVE Onward
  BY <1>i, <1>1
<1>2. ASSUME Accept \/ Handshake \/ SetupStep \/ ParkedTooLong PROVE Onward
  BY <1>2, <1>i, Zenon DEF Accept, Handshake, SetupStep, Dial, DialFails, Accepted,
     NotAccepted, ReadsFrame, NoFrame, DialsLocal, LocalFails, ParkedTooLong, ServerGivesUp
<1>3. ASSUME ServerStep \/ Ticks \/ Pings \/ PingerStops \/ ClientReturns \/ ServerReturns
      PROVE  Onward
  BY <1>3, <1>i, Zenon DEF ServerStep, Rejects, Serves, DialsTarget, TargetFails,
     FrameFails, ServerGivesUp, Ticks, Pings, PingerStops, ClientReturns, ServerReturns
<1>4. ASSUME NEW t \in Targets, IncomingConnection(t) PROVE Onward
  BY <1>4, <1>i, Zenon DEF IncomingConnection
<1>5. ASSUME NEW f \in Ends, AppSends(f) \/ AppEnds(f) PROVE Onward
  <2>1. CASE AppSends(f)
    BY <1>1, <1>t, <2>1, SMTT(30) DEF AppSends
  <2>2. CASE AppEnds(f)
    BY <1>1, <1>t, <2>2, SMTT(30) DEF AppEnds
  <2> QED  BY <1>5, <2>1, <2>2, Zenon
<1>6. ASSUME NEW f \in Ends, UpStep(f) PROVE Onward
  BY <1>6, <1>i, Zenon DEF UpStep, UpReads, UpReadEnds, UpWrites, UpWriteFails, UpSaysBye
<1>7. ASSUME NEW f \in Ends, DownStep(f) \/ Delivers(f) PROVE Onward
  <2>1. CASE ReadsData(f)
    <3>1. /\ UNCHANGED <<eof, sent>>
          /\ got' = [got EXCEPT ![f] = Append(@, Payload(Received(f)))]
      BY <2>1, Zenon DEF ReadsData
    <3>2. got \in [Ends -> Seq(Chunks)] /\ got' \in [Ends -> Seq(Chunks)]
      BY DEF TypeOK
    <3>3. Len(got'[p]) >= Len(got[p])
      BY <1>1, <3>1, <3>2
    <3> QED  BY <1>1, <3>1, <3>3, Zenon
  <2>2. CASE Delivers(f) \/ ReadsControl(f) \/ Pongs(f) \/ DownEnds(f)
    BY <2>2, <1>i, Zenon DEF Delivers, ReadsControl, Pongs, DownEnds
  <2> QED  BY <1>7, <2>1, <2>2, Zenon DEF DownStep
<1>8. ASSUME NEW how \in {"silent", "reset"}, NetworkFails(how) PROVE Onward
  BY <1>8, <1>i, Zenon DEF NetworkFails
<1>9. Onward
  <2> HIDE DEF Onward
  <2> QED  BY <1>2, <1>3, <1>4, <1>5, <1>6, <1>7, <1>8, Zenon DEF Next
<1>10. Len(got'[p]) <= sent'[e] /\ Len(got'[p]) \in Nat
  <2>1. Len(got'[p]) <= Passed(e)' /\ (up'[e] = "write" => taken'[e] > 0)
    BY <1>1, Zenon DEF InOrder, InOrderFrom
  <2>2. taken'[e] \in Nat /\ sent'[e] \in Nat /\ taken'[e] <= sent'[e] /\ Len(got'[p]) \in Nat
    BY <1>1 DEF TypeOK
  <2> DEFINE g == Len(got'[p])
  <2>3. g \in Nat /\ g <= taken'[e]
    BY <2>1, <2>2 DEF Passed
  <2> HIDE DEF g
  <2> QED  BY <2>2, <2>3 DEF g
<1>11. Len(got'[p]) = sent'[e]
  <2> DEFINE g == Len(got'[p])
  <2>1. g \in Nat /\ g <= sent[e] /\ g >= sent[e] /\ sent'[e] = sent[e]
    BY <1>1, <1>9, <1>10, Zenon
  <2> HIDE DEF g
  <2>2. g = sent[e]
    BY <1>1, <2>1
  <2> QED  BY <2>1, <2>2 DEF g
<1> QED  BY <1>9, <1>11, Zenon DEF Delivered

(* An end's connections stay open until its goroutines have ended.         *)
LEMMA SidesStep ==
    ASSUME TypeOK, Phases, NothingLeftOpen, Undisturbed, Undisturbed', Sides, Next
    PROVE  Sides'
<1> USE DEF setup, net, Sides, Copied, Reverse
<1>e. "client" \in Ends /\ "server" \in Ends /\ \A e \in Ends : e = "client" \/ e = "server"
  BY DEF Ends
<1>t. /\ local \in [Ends -> {"none", "open", "closed"}]
      /\ up \in [Ends -> {"off", "read", "write", "bye", "end"}]
      /\ down \in [Ends -> {"off", "read", "write", "pong", "end"}]
      /\ tr \in [Ends -> {"none", "open", "noread", "closed"}]
  BY DEF TypeOK
<1>h. ASSUME NEW f \in Ends, Hangup(f) PROVE tr' = [tr EXCEPT ![f] = "closed"]
  BY <1>h DEF Hangup
<1>w. ASSUME NEW f \in Ends, NEW m, Write(f, m) PROVE tr' = tr
  BY <1>w, ZenonT(60) DEF Write
<1>1. CASE Accept \/ Handshake
  BY <1>1, <1>e, <1>t, ZenonT(60) DEF Accept, Handshake, LocalClosed, Phases
<1>2. CASE Dial \/ Accepted \/ ReadsFrame \/ DialsLocal
  <2>1. CASE Dial
    BY <1>e, <1>t, <2>1, ZenonT(60) DEF Dial, Phases
  <2>2. CASE Accepted
    <3>1. UNCHANGED <<scheme, spc, local, tr>> /\ cpc = "request"
      BY <2>2, ZenonT(60) DEF Accepted
    <3>2. CASE Reverse /\ cpc' \in {"frame", "dial"} /\ UNCHANGED <<up, down>>
      BY <1>e, <3>1, <3>2, ZenonT(60)
    <3>3. CASE ~Reverse /\ cpc' = "pipe" /\ StartCopying("client")
      <4>1. /\ up'["server"] = up["server"] /\ down'["server"] = down["server"]
            /\ up'["client"] = "read" /\ down'["client"] = "read"
        BY <1>e, <1>t, <3>3, ZenonT(60) DEF StartCopying
      <4> QED  BY <1>e, <3>1, <3>3, <4>1, ZenonT(60)
    <3> QED  BY <2>2, <3>2, <3>3, ZenonT(60) DEF Accepted
  <2>3. CASE ReadsFrame
    BY <1>e, <1>t, <2>3 DEF ReadsFrame
  <2>4. CASE DialsLocal
    BY <1>e, <1>t, <2>4, ZenonT(60) DEF DialsLocal, StartCopying, Phases
  <2> QED  BY <1>2, <2>1, <2>2, <2>3, <2>4, ZenonT(60)
<1>3. ASSUME \/ cpc \in {"connect", "request", "frame", "dial"}
             \/ cpc = "pipe" /\ Copied("client"),
             Abandon, UNCHANGED <<scheme, spc, up, down>>
      PROVE  Sides'
  <2>1. up["client"] = "off" \/ Copied("client")
    BY <1>3, ZenonT(60) DEF Phases
  <2>2. /\ cpc' \in {"done", "again"} /\ UNCHANGED <<scheme, spc, up, down>>
        /\ tr' = [tr EXCEPT !["client"] = "closed"] /\ local' = LocalClosed("client")
    BY <1>3, <1>e, <1>h, ZenonT(60) DEF Abandon, Leave
  <2>3. /\ tr'["client"] = "closed" /\ tr'["server"] = tr["server"]
        /\ local'["server"] = local["server"]
    BY <1>e, <1>t, <2>2, ZenonT(60) DEF LocalClosed
  <2> QED  BY <1>e, <1>t, <2>1, <2>2, <2>3, ZenonT(60)
<1>4. CASE DialFails \/ NotAccepted \/ NoFrame \/ LocalFails \/ ClientReturns
  BY <1>3, <1>4 DEF DialFails, NotAccepted, NoFrame, LocalFails, ClientReturns
<1>5. CASE Rejects \/ Serves
  BY <1>5, <1>e, <1>t DEF Rejects, Serves, Phases
<1>6. CASE DialsTarget
  <2>1. /\ UNCHANGED <<scheme, cpc, tr>> /\ spc = "dial" /\ spc' = "pipe"
        /\ up' = [up EXCEPT !["server"] = "read"] /\ down' = [down EXCEPT !["server"] = "read"]
        /\ local' = [local EXCEPT !["server"] = "open"]
    BY <1>6, Zenon DEF DialsTarget, StartCopying
  <2>2. /\ UNCHANGED <<up["client"], down["client"], local["client"]>>
        /\ up'["server"] = "read" /\ local'["server"] = "open"
    BY <1>e, <1>t, <2>1, Zenon
  <2> QED  BY <1>e, <2>1, <2>2, Zenon
<1>7. CASE TargetFails \/ FrameFails \/ ParkedTooLong
  <2>1. /\ spc \in {"dial", "parked"} /\ spc' = "done"
        /\ Hangup("server") /\ UNCHANGED <<scheme, cpc, local, up, down>>
    BY <1>7, ZenonT(60) DEF TargetFails, FrameFails, ParkedTooLong, ServerGivesUp
  <2>2. up["server"] = "off"
    BY <2>1, ZenonT(60) DEF Phases
  <2>3. tr'["server"] = "closed" /\ tr'["client"] = tr["client"]
    BY <1>e, <1>t, <1>h, <2>1, ZenonT(60)
  <2> QED  BY <1>e, <1>t, <2>1, <2>2, <2>3, ZenonT(60)
<1>8. ASSUME NEW t \in Targets, IncomingConnection(t) PROVE Sides'
  <2>1. tr' = tr
    BY <1>8, <1>e, <1>w, Zenon DEF IncomingConnection
  <2>2. /\ spc = "parked" /\ spc' = "pipe" /\ UNCHANGED <<scheme, cpc>>
        /\ local' = [local EXCEPT !["server"] = "open"] /\ StartCopying("server")
    BY <1>8, Zenon DEF IncomingConnection
  <2>3. /\ local'["server"] = "open" /\ local'["client"] = local["client"]
        /\ up'["client"] = up["client"] /\ down'["client"] = down["client"]
    BY <1>e, <1>t, <2>2, ZenonT(60) DEF StartCopying
  <2> QED  BY <1>e, <2>1, <2>2, <2>3, ZenonT(60)
<1>9. ASSUME NEW f \in Ends, AppSends(f) \/ AppEnds(f) PROVE Sides'
  BY <1>9, Zenon DEF AppSends, AppEnds
<1>10. ASSUME NEW f \in Ends, UNCHANGED <<scheme, cpc, spc, local, down, tr>>,
              up[f] \notin {"off", "end"}, \E s \in {"read", "write", "bye", "end"} :
              up' = [up EXCEPT ![f] = s]
       PROVE  Sides'
  <2>1. up[f] # "off" /\ up'[f] # "off" /\ ~Copied(f)
    BY <1>10, <1>t, ZenonT(60)
  <2>2. \A e \in Ends : e # f => up'[e] = up[e]
    BY <1>10, <1>t, ZenonT(60)
  <2>3. \A e \in Ends : (up'[e] = "off" <=> up[e] = "off") /\ (Copied(e) => Copied(e)')
    BY <1>10, <2>1, <2>2, ZenonT(60)
  <2> QED  BY <1>10, <1>e, <2>3, ZenonT(60)
<1>11. ASSUME NEW f \in Ends, UpStep(f) PROVE Sides'
  <2>1. UNCHANGED <<scheme, cpc, spc, local, down, tr>>
    BY <1>11, <1>w, Zenon DEF UpStep, UpReads, UpReadEnds, UpWrites, UpWriteFails, UpSaysBye,
       UpStops, Undisturbed
  <2>2. up[f] \notin {"off", "end"}
    BY <1>11 DEF UpStep, UpReads, UpReadEnds, UpWrites, UpWriteFails, UpSaysBye
  <2>3. \E s \in {"read", "write", "bye", "end"} : up' = [up EXCEPT ![f] = s]
    BY <1>11, Zenon DEF UpStep, UpReads, UpReadEnds, UpWrites, UpWriteFails, UpSaysBye,
       UpStops, Undisturbed
  <2> QED  BY <1>10, <2>1, <2>2, <2>3, Zenon
<1>12. ASSUME NEW f \in Ends, DownStep(f) \/ Delivers(f) PROVE Sides'
  <2>1. CASE ReadsData(f) \/ Delivers(f)
    <3>1. UNCHANGED <<scheme, cpc, spc, local, up, tr>>
      BY <2>1, Zenon DEF ReadsData, Delivers
    <3>2. \A e \in Ends : (down'[e] = "end" <=> down[e] = "end")
      BY <1>t, <2>1 DEF ReadsData, Delivers
    <3> QED  BY <1>e, <3>1, <3>2, ZenonT(60)
  <2>2. CASE ReadsControl(f)
    BY <1>e, <1>t, <2>2 DEF ReadsControl
  <2>3. CASE Pongs(f)
    BY <1>e, <1>t, <1>w, <2>3, Zenon DEF Pongs
  <2>4. CASE DownEnds(f)
    <3>1. /\ UNCHANGED <<scheme, cpc, spc, up, tr>> /\ down' = [down EXCEPT ![f] = "end"]
          /\ local' = LocalClosed(f) /\ down[f] \notin {"off", "end"}
      BY <2>4 DEF DownEnds, DownFails, Undisturbed
    <3>2. up[f] # "off" /\ down'[f] = "end"
      BY <1>t, <3>1 DEF Phases
    <3>3. \A e \in Ends : e # f => down'[e] = down[e] /\ local'[e] = local[e]
      BY <1>t, <3>1 DEF LocalClosed
    <3>4. cpc \in {"handshake", "connect", "request"} => f # "client"
      BY <3>2 DEF Phases
    <3>5. \A e \in Ends : Copied(e) => Copied(e)'
      BY <3>1, <3>2, <3>3, ZenonT(60)
    <3>6. \A e \in Ends : up[e] # "off" /\ down'[e] # "end" => local'[e] = "open"
      BY <3>2, <3>3, ZenonT(60)
    <3>7. cpc \in {"handshake", "connect", "request"} => Reverse \/ local'["client"] = "open"
      BY <1>e, <3>3, <3>4, ZenonT(60)
    <3> QED  BY <1>e, <3>1, <3>5, <3>6, <3>7
  <2> QED  BY <1>12, <2>1, <2>2, <2>3, <2>4 DEF DownStep
<1>13. CASE Ticks \/ PingerStops
  BY <1>13, Zenon DEF Ticks, PingerStops
<1>14. CASE Pings
  <2>1. CASE CanWrite("client")
    <3>1. UNCHANGED <<scheme, cpc, spc, local, up, down, tr>>
      BY <1>14, <1>e, <1>w, <2>1, Zenon DEF Pings
    <3> QED  BY <3>1, Zenon
  <2>2. CASE ~CanWrite("client")
    <3>1. /\ cpc \in {"done", "again"} /\ UNCHANGED <<scheme, cpc, spc, local, up, down>>
          /\ tr' = [tr EXCEPT !["client"] = "closed"]
      BY <1>14, <1>e, <1>h, <2>2, PingerWrites, Zenon DEF Pings
    <3>2. tr'["client"] = "closed" /\ tr'["server"] = tr["server"]
      BY <1>e, <1>t, <3>1, ZenonT(60)
    <3> QED  BY <1>e, <3>1, <3>2, ZenonT(60)
  <2> QED  BY <2>1, <2>2
<1>15. CASE ServerReturns
  <2>1. /\ Copied("server") /\ spc' = "done" /\ Hangup("server")
        /\ local' = LocalClosed("server") /\ UNCHANGED <<scheme, cpc, up, down>>
    BY <1>15, ZenonT(60) DEF ServerReturns
  <2>2. /\ tr'["server"] = "closed" /\ tr'["client"] = tr["client"]
        /\ local'["client"] = local["client"]
    BY <1>e, <1>t, <1>h, <2>1, ZenonT(60) DEF LocalClosed
  <2> QED  BY <1>e, <1>t, <2>1, <2>2, ZenonT(60)
<1>16. ASSUME NEW how \in {"silent", "reset"}, NetworkFails(how) PROVE FALSE
  BY <1>16, <1>e DEF NetworkFails, Undisturbed
<1> QED  BY <1>1, <1>2, <1>4, <1>5, <1>6, <1>7, <1>8, <1>9, <1>11, <1>12, <1>13, <1>14,
         <1>15, <1>16, Zenon DEF Next, SetupStep, ServerStep

(* A direction whose end neither stops, nor writes data or a close message *)
(* in this step.                                                           *)
LEMMA ByesStay ==
    ASSUME NEW e \in Ends, Phases, ByesFrom(e), Tamer(wire[e], wire'[e]),
           up'[e] \in {"bye", "end"} => up'[e] = up[e] /\ taken'[e] = taken[e],
           up[e] = "end" => up'[e] = "end",
           eof[e] => eof'[e] /\ sent'[e] = sent[e],
           down[e] = "end" => down'[e] = "end"
    PROVE  ByesFrom(e)'
<1>1. wire[e] \in Seq(Message)
  BY Zenon DEF Phases
<1>2. Tidy(wire'[e]) /\ (Closes(wire'[e]) => Closes(wire[e]))
  BY <1>1, StaysTidy DEF ByesFrom
<1>3. (up[e] \in {"bye", "end"} => (eof[e] /\ taken[e] = sent[e]) \/ down[e] = "end")'
  BY Zenon DEF ByesFrom
<1>4. Closes(wire'[e]) => up'[e] = "end"
  BY <1>2, Zenon DEF ByesFrom
<1> QED  BY <1>2, <1>3, <1>4, Zenon DEF ByesFrom

(* How an end ended stays true.                                            *)
LEMMA EndingStays ==
    ASSUME NEW e \in Ends, EndingOf(e), down'[e] = "end" => down[e] = "end",
           \A f \in Ends : Delivered(f) => Delivered(f)',
           \A f \in Ends : Gone(f) => Gone(f)'
    PROVE  EndingOf(e)'
<1>1. Peer(e) \in Ends
  BY DEF Ends, Peer
<1> QED  BY <1>1, Zenon DEF EndingOf

(* The steps of the copying goroutines and of the applications.            *)
LEMMA CopyByes ==
    ASSUME NEW e \in Ends, TypeOK, Phases, InOrder, Undisturbed, Sides,
           \A f \in Ends : ByesFrom(f), Copies(e), NEW f \in Ends
    PROVE  ByesFrom(f)'
<1> USE DEF setup, app, copied, net
<1>s. Tamer(wire[f], wire[f]) /\ ByesFrom(f) /\ wire[f] \in Seq(Message)
  BY DEF Tamer, Phases
<1>t. /\ up \in [Ends -> {"off", "read", "write", "bye", "end"}]
      /\ down \in [Ends -> {"off", "read", "write", "pong", "end"}]
      /\ taken \in [Ends -> Nat] /\ sent \in [Ends -> Nat] /\ eof \in [Ends -> BOOLEAN]
  BY DEF TypeOK
<1>1. CASE AppSends(e)
  BY <1>1, <1>s, <1>t, ByesStay DEF AppSends
<1>2. CASE AppEnds(e)
  BY <1>2, <1>s, <1>t, ByesStay, Zenon DEF AppEnds
<1>3. CASE UpReads(e)
  BY <1>3, <1>s, <1>t, ByesStay DEF UpReads
<1>4. CASE UpReadEnds(e)
  <2>1. /\ up[e] = "read" /\ up' = [up EXCEPT ![e] = "bye"]
        /\ UNCHANGED <<taken, eof, sent, down, wire>>
        /\ down[e] = "end" \/ (eof[e] /\ taken[e] = sent[e])
    BY <1>4, <1>t DEF UpReadEnds, UpStops, Undisturbed, Sides
  <2> QED  BY <1>s, <1>t, <2>1 DEF ByesFrom
<1>5. CASE UpWrites(e)
  <2>1. /\ up[e] = "write" /\ up' = [up EXCEPT ![e] = "read"]
        /\ UNCHANGED <<taken, eof, sent, down>>
        /\ CanWrite(e) /\ Write(e, Data(taken[e]))
    BY <1>5 DEF UpWrites
  <2>2. taken[e] \in 1 .. Len(Size)
    <3>1. /\ taken[e] \in Nat /\ sent[e] \in Nat /\ Limit[e] \in 0 .. Len(Size)
          /\ taken[e] <= sent[e] /\ sent[e] <= Limit[e] /\ Len(Size) \in Nat
      BY TunnelAssumption DEF TypeOK
    <3>2. taken[e] > 0
      BY <2>1, Zenon DEF InOrder, InOrderFrom
    <3> QED  BY <3>1, <3>2
  <2>3. Data(taken[e]) \in Message /\ Data(taken[e]).op = "data"
    BY <2>2, Messages
  <2> DEFINE m == Data(taken[e])
  <2>4. /\ wire'[e] = wire[e] \/ wire'[e] = Append(wire[e], m)
        /\ \A g \in Ends : g # e => wire'[g] = wire[g]
    BY <2>1, <2>3, WriteAdds, Zenon
  <2> HIDE DEF m
  <2>5. CASE f # e
    <3>1. wire'[f] = wire[f]
      BY <2>4, <2>5, Zenon
    <3> QED  BY <1>s, <1>t, <2>1, <2>5, <3>1, ByesStay, ZenonT(60)
  <2>6. CASE f = e
    <3>1. ~Closes(wire[e]) /\ up'[e] = "read"
      BY <1>s, <1>t, <2>1, <2>6, Zenon DEF ByesFrom
    <3>2. Tidy(wire'[e]) /\ ~Closes(wire'[e])
      BY <1>s, <2>3, <2>4, <2>6, <3>1, DataIsTidy, Zenon DEF ByesFrom, m
    <3> QED  BY <2>6, <3>1, <3>2, ZenonT(60) DEF ByesFrom
  <2> QED  BY <2>5, <2>6
<1>6. CASE UpSaysBye(e)
  <2> DEFINE m == Control("close")
  <2>1. /\ up[e] = "bye" /\ up' = [up EXCEPT ![e] = "end"]
        /\ UNCHANGED <<taken, eof, sent, down>>
        /\ UNCHANGED wire \/ (CanWrite(e) /\ Write(e, m))
    BY <1>6 DEF UpSaysBye
  <2>2. m \in Message /\ m.op = "close"
    BY Messages
  <2>3. /\ wire'[e] = wire[e] \/ wire'[e] = Append(wire[e], m)
        /\ \A g \in Ends : g # e => wire'[g] = wire[g]
    BY <2>1, <2>2, WriteAdds, Zenon
  <2> HIDE DEF m
  <2>4. CASE f # e
    <3>1. wire'[f] = wire[f]
      BY <2>3, <2>4, Zenon
    <3> QED  BY <1>s, <1>t, <2>1, <2>4, <3>1, ByesStay
  <2>5. CASE f = e
    <3>1. Tidy(wire'[e])
      BY <1>s, <2>2, <2>3, <2>5, CloseIsTidy, Zenon DEF ByesFrom
    <3>2. up'[e] = "end" /\ ((eof[e] /\ taken[e] = sent[e]) \/ down[e] = "end")
      BY <1>s, <1>t, <2>1, <2>5, ZenonT(60) DEF ByesFrom
    <3> QED  BY <2>1, <2>5, <3>1, <3>2, ZenonT(60) DEF ByesFrom
  <2> QED  BY <2>4, <2>5
<1>7. CASE ReadsData(e) \/ ReadsControl(e)
  <2>1. /\ CanRead(e) /\ wire' = Consumed(e) /\ UNCHANGED <<taken, eof, sent, up>>
        /\ down[f] = "end" => down'[f] = "end"
    BY <1>7, <1>t, Zenon DEF ReadsData, ReadsControl
  <2>2. Tamer(wire[f], wire'[f])
    BY <2>1, ReadTames, Zenon
  <2> QED  BY <1>s, <2>1, <2>2, ByesStay
<1>8. CASE Pongs(e)
  <2>1. /\ CanWrite(e) /\ Write(e, Control("pong")) /\ UNCHANGED <<taken, eof, sent, up>>
        /\ down[f] = "end" => down'[f] = "end"
    BY <1>8, <1>t DEF Pongs
  <2>2. Control("pong") \in Message /\ Control("pong").op \notin {"data", "close"}
    BY Messages, Zenon
  <2>3. Tamer(wire[f], wire'[f])
    BY <2>1, <2>2, WriteAdds, Zenon
  <2> QED  BY <1>s, <2>1, <2>3, ByesStay, ZenonT(60)
<1>9. CASE DownEnds(e)
  <2>1. /\ UNCHANGED <<taken, eof, sent, up, wire>>
        /\ down[f] = "end" => down'[f] = "end"
    BY <1>9, <1>t, ZenonT(60) DEF DownEnds, Undisturbed
  <2> QED  BY <1>s, <2>1, ByesStay, ZenonT(60)
<1>10. CASE Delivers(e)
  <2>1. /\ UNCHANGED <<taken, eof, sent, up, wire>>
        /\ down[f] = "end" => down'[f] = "end"
    BY <1>10, <1>t, ZenonT(60) DEF Delivers
  <2> QED  BY <1>s, <2>1, ByesStay, ZenonT(60)
<1> QED  BY <1>1, <1>2, <1>3, <1>4, <1>5, <1>6, <1>7, <1>8, <1>9, <1>10 DEF Copies

(* The same steps, and how an end ended.                                   *)
LEMMA CopyEndings ==
    ASSUME NEW e \in Ends, TypeOK, Phases, InOrder, Undisturbed, Sides,
           \A f \in Ends : ByesFrom(f) /\ EndingOf(f), Copies(e),
           \A f \in Ends : Delivered(f) => Delivered(f)', NEW f \in Ends
    PROVE  EndingOf(f)'
<1> USE DEF setup, net
<1>t. /\ up \in [Ends -> {"off", "read", "write", "bye", "end"}]
      /\ down \in [Ends -> {"off", "read", "write", "pong", "end"}]
  BY DEF TypeOK
<1>1. tr' = tr
  <2>1. ASSUME NEW m, Write(e, m) PROVE tr' = tr
    BY <2>1 DEF Write
  <2> QED  BY <2>1, Zenon DEF Copies, AppSends, AppEnds, UpReads, UpReadEnds, UpWrites,
              UpSaysBye, ReadsData, Delivers, ReadsControl, Pongs, DownEnds, UpStops,
              Undisturbed
<1>2. up' = up \/ (up[e] # "off" /\ \E s \in {"read", "write", "bye", "end"} :
                                        up' = [up EXCEPT ![e] = s])
  BY Zenon DEF Copies, AppSends, AppEnds, UpReads, UpReadEnds, UpWrites, UpSaysBye,
     ReadsData, Delivers, ReadsControl, Pongs, DownEnds, UpStops, Undisturbed
<1>3. \A g \in Ends : Gone(g) => Gone(g)'
  BY <1>t, <1>1, <1>2 DEF Gone
<1>4. CASE DownEnds(e) /\ f = e
  <2>1. Delivered(e) \/ Delivered(Peer(e)) \/ Gone(Peer(e))
    BY <1>4, WhyDownEnds
  <2>2. Peer(e) \in Ends
    BY ZenonT(60) DEF Ends, Peer
  <2> QED  BY <1>3, <1>4, <2>1, <2>2, Zenon DEF EndingOf
<1>5. CASE ~(DownEnds(e) /\ f = e)
  <2>1. down'[f] = "end" => down[f] = "end"
    <3>1. CASE DownEnds(e)
      BY <1>t, <1>5, <3>1 DEF DownEnds
    <3>2. CASE ReadsData(e) \/ Delivers(e) \/ ReadsControl(e) \/ Pongs(e)
      BY <1>t, <3>2 DEF ReadsData, Delivers, ReadsControl, Pongs
    <3>3. CASE ~(DownEnds(e) \/ ReadsData(e) \/ Delivers(e) \/ ReadsControl(e) \/ Pongs(e))
      BY <3>3, Zenon DEF Copies, AppSends, AppEnds, UpReads, UpReadEnds, UpWrites,
         UpSaysBye
    <3> QED  BY <3>1, <3>2, <3>3
  <2> QED  BY <1>3, <2>1, EndingStays, ZenonT(60)
<1> QED  BY <1>4, <1>5

(* Every step keeps the invariant behind complete delivery.                *)
LEMMA DeliveryStep ==
    ASSUME TypeOK, Phases, InOrder, NothingLeftOpen, DeliveryInv, Next, TypeOK', InOrder'
    PROVE  DeliveryInv'
<1> SUFFICES ASSUME Undisturbed'
             PROVE  Sides' /\ \A f \in Ends : ByesFrom(f)' /\ EndingOf(f)'
  BY Zenon DEF DeliveryInv
<1>1. Undisturbed /\ Sides /\ \A f \in Ends : ByesFrom(f) /\ EndingOf(f)
  BY StaysDisturbed, Zenon DEF DeliveryInv
<1>2. Sides'
  BY <1>1, SidesStep
<1>3. \A f \in Ends : Delivered(f) => Delivered(f)'
  BY StaysDelivered
<1> SUFFICES ASSUME NEW f \in Ends PROVE ByesFrom(f)' /\ EndingOf(f)'
  BY <1>2, Zenon
<1>4. CASE Rests
  <2>1. ByesFrom(f)'
    BY <1>1, <1>4, ByesStay, Zenon DEF Rests, Stands
  <2>2. \A g \in Ends : Gone(g) => Gone(g)'
    BY <1>4, Zenon DEF Rests, Stands, Gone
  <2>3. EndingOf(f)'
    BY <1>1, <1>3, <1>4, <2>2, EndingStays, Zenon DEF Rests, Stands
  <2> QED  BY <2>1, <2>3
<1>5. ASSUME NEW e \in Ends, Starts(e) PROVE ByesFrom(f)' /\ EndingOf(f)'
  <2>t. /\ up \in [Ends -> {"off", "read", "write", "bye", "end"}]
        /\ down \in [Ends -> {"off", "read", "write", "pong", "end"}]
    BY Zenon DEF TypeOK
  <2>1. ByesFrom(f)'
    BY <1>1, <1>5, <2>t, ByesStay, ZenonT(60) DEF Starts
  <2>2. \A g \in Ends : Gone(g) => Gone(g)'
    BY <1>5, <2>t, ZenonT(60) DEF Starts, Gone
  <2>3. down'[f] = "end" => down[f] = "end"
    BY <1>5, <2>t, ZenonT(60) DEF Starts
  <2>4. EndingOf(f)'
    BY <1>1, <1>3, <2>2, <2>3, EndingStays, ZenonT(60)
  <2> QED  BY <2>1, <2>4
<1>6. ASSUME NEW e \in Ends, Copies(e) PROVE ByesFrom(f)' /\ EndingOf(f)'
  <2>1. ByesFrom(f)'
    BY <1>1, <1>6, CopyByes
  <2>2. EndingOf(f)'
    BY <1>1, <1>3, <1>6, CopyEndings
  <2> QED  BY <2>1, <2>2
<1> QED  BY <1>1, <1>4, <1>5, <1>6, CopyKinds

=============================================================================
