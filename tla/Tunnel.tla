------------------------------- MODULE Tunnel -------------------------------
(***************************************************************************)
(* One tunnel from end to end: the client that sets it up, forward         *)
(* (runTcpTunnel, runSocks5Tunnel, ...) or reverse (StartReverseTunnel),   *)
(* the server that answers (ServeHTTP and the handlers it starts), and the *)
(* goroutines that copy on both ends (startPipe and pkg/tunnel/pipe.go)    *)
(* over the transport: a WebSocket of pkg/wst ("ws") or an HTTP/2 stream   *)
(* ("h2").  With the gorilla library in the place of pkg/wst the code has  *)
(* the same shape, but nothing keeps two goroutines from writing at once;  *)
(* that is not modelled.                                                   *)
(*                                                                         *)
(* A tunnel has two ends.  Each end has a local connection to an           *)
(* application and a side of the transport; "up" copies from the           *)
(* application to the transport and "down" the other way.  One turn of the *)
(* reverse client's loop is modelled, up to the point where it dials       *)
(* again.  Payloads are pieces of data, numbered and with a size.          *)
(***************************************************************************)
EXTENDS Integers, Sequences

CONSTANTS Schemes,      \* "forward", "stdio", "static" and "dynamic" reverse
          Kinds,        \* the transports
          Targets,      \* addresses a dynamic reverse tunnel is asked for
          Size,         \* size of the n-th piece of data
          Limit,        \* bound: pieces of data an application sends
          None

Ends == {"client", "server"}
Peer(e) == IF e = "client" THEN "server" ELSE "client"

(* The longest payload ReadMessage takes; the buffers that pieces of data  *)
(* are read into are far smaller.                                          *)
MaxPayload == 10 * 1024 * 1024

ASSUME TunnelAssumption ==
    /\ Schemes \subseteq {"forward", "stdio", "static", "dynamic"}
    /\ Kinds \subseteq {"ws", "h2"}
    /\ None \notin Targets
    /\ Size \in Seq(0..MaxPayload)
    /\ Limit \in [Ends -> 0..Len(Size)]

VARIABLES
    scheme,     \* ltr.Protocol
    kind,       \* which of tunnelStream.ws and .h2 is set
    cpc,        \* where the client's goroutine is
    spc,        \* where the server's handler is
    reply,      \* the server's answer to the upgrade request
    local,      \* the end's connection to its application
    sent,       \* pieces of data the application has sent
    eof,        \* the application has finished sending
    taken,      \* pieces the end has read from its local connection
    got,        \* what the end has read from the transport for its application
    written,    \* how many of these the application's connection has taken
    up, down,   \* where the two copying goroutines are
    pinger,     \* where startPipe's ping goroutine is
    tr,         \* the end's side of the transport
    wire,       \* messages the end has sent that its peer has not read
    link,       \* what the end's network connection does
    want,       \* the target a dynamic tunnel was asked for
    dialed      \* the target its client dials

setup == <<scheme, kind, reply, want, dialed>>
app == <<sent, eof>>
copied == <<taken, got, written>>
net == <<tr, wire, link>>
vars == <<setup, cpc, spc, local, app, copied, up, down, pinger, net>>

Reverse == scheme \in {"static", "dynamic"}

-----------------------------------------------------------------------------
(* Messages.  WriteMessage puts the payload's length into 7 bits, or       *)
(* announces 16 or 64 more with the values 126 and 127; ReadMessage takes  *)
(* it from there.  An HTTP/2 stream has its own framing.                   *)
EncodeLength(n) ==
    CASE n <= 125                -> <<n>>
      [] n > 125 /\ n <= 65535   -> <<126, n % 65536>>
      [] n > 65535               -> <<127, n>>
DecodeFirstByte(h) == h[1]
DecodeLength(h) == IF h[1] \in {126, 127} THEN h[2] ELSE h[1]

Data(n) ==
    [op |-> "data", n |-> n,
     len |-> IF kind = "h2" THEN <<>> ELSE EncodeLength(Size[n])]
Frame(t) == [op |-> "frame", n |-> t, len |-> <<>>]
Control(op) == [op |-> op, n |-> 0, len |-> <<>>]

(* The piece of data that leaves the tunnel for one that entered it.       *)
Chunk(n) == <<n, Size[n]>>
Chunks == {Chunk(n) : n \in DOMAIN Size}
Length(m) == IF kind = "h2" THEN Size[m.n] ELSE DecodeLength(m.len)
Payload(m) == <<m.n, Length(m)>>

(* ReadMessage returns an error for a close message, and for a payload     *)
(* whose length is out of bounds.                                          *)
Refused(m) ==
    m.op = "close" \/ (kind # "h2" /\ m.op = "data" /\ Length(m) \notin 0..MaxPayload)

TypeOK ==
    /\ scheme \in Schemes /\ kind \in Kinds
    /\ cpc \in {"accept", "handshake", "connect", "request", "frame", "dial",
                "pipe", "done", "again"}
    /\ spc \in {"none", "request", "dial", "parked", "pipe", "done"}
    /\ reply \in {"none", "accepted", "rejected"}
    /\ local \in [Ends -> {"none", "open", "closed"}]
    /\ sent \in [Ends -> Nat] /\ taken \in [Ends -> Nat]
    /\ \A e \in Ends : taken[e] <= sent[e] /\ sent[e] <= Limit[e]
    /\ eof \in [Ends -> BOOLEAN]
    /\ got \in [Ends -> Seq(Chunks)]
    /\ written \in [Ends -> Nat]
    /\ up \in [Ends -> {"off", "read", "write", "bye", "end"}]
    /\ down \in [Ends -> {"off", "read", "write", "pong", "end"}]
    /\ pinger \in {"off", "on", "write"}
    /\ tr \in [Ends -> {"none", "open", "noread", "closed"}]
    /\ link \in [Ends -> {"up", "silent", "reset"}]
    /\ want \in Targets \cup {None} /\ dialed \in Targets \cup {None}

Init ==
    /\ scheme \in Schemes /\ kind \in Kinds
    /\ cpc = IF scheme = "forward" THEN "accept" ELSE "connect"
    /\ spc = "none"
    /\ reply = "none"
    /\ local = [e \in Ends |-> IF e = "client" /\ scheme = "stdio" THEN "open" ELSE "none"]
    /\ sent = [e \in Ends |-> 0] /\ taken = [e \in Ends |-> 0]
    /\ eof = [e \in Ends |-> FALSE]
    /\ got = [e \in Ends |-> <<>>] /\ written = [e \in Ends |-> 0]
    /\ up = [e \in Ends |-> "off"] /\ down = [e \in Ends |-> "off"]
    /\ pinger = "off"
    /\ tr = [e \in Ends |-> "none"]
    /\ wire = [e \in Ends |-> <<>>]
    /\ link = [e \in Ends |-> "up"]
    /\ want = None /\ dialed = None

-----------------------------------------------------------------------------
(* The transport.                                                          *)

(* Close of the local connection; stdioReadWriteCloser.Close does nothing. *)
LocalClosed(e) ==
    [local EXCEPT ![e] = IF e = "client" /\ scheme = "stdio" THEN @ ELSE "closed"]

(* Close of the transport.  TCP drops what it has yet to send when unread  *)
(* data is left, and an HTTP/2 client aborts its stream.                   *)
Kept(e) ==
    IF wire[Peer(e)] # <<>> \/ (kind = "h2" /\ e = "client")
    THEN 0..Len(wire[e]) ELSE {Len(wire[e])}
Hangup(e) ==
    /\ tr' = [tr EXCEPT ![e] = "closed"]
    /\ IF tr[e] \in {"open", "noread"}
       THEN \E k \in Kept(e) : wire' = [wire EXCEPT ![e] = SubSeq(@, 1, k)]
       ELSE UNCHANGED wire

(* http2ReadWriteCloser.Close closes the request's body only; the response *)
(* ends when the handler returns.                                          *)
CloseStream(e) ==
    IF kind = "h2" /\ e = "server"
    THEN /\ tr' = [tr EXCEPT ![e] = IF @ = "open" THEN "noread" ELSE @]
         /\ UNCHANGED wire
    ELSE Hangup(e)

CanWrite(e) == tr[e] \in {"open", "noread"} /\ link[e] # "reset"

(* A message is written.  To a peer that has closed it is lost, and may    *)
(* reset the connection; over a dead network it is lost and the connection *)
(* fails in the end.                                                       *)
Write(e, m) ==
    \/ /\ link[e] = "up"
       /\ tr[Peer(e)] = "open"
       /\ wire' = [wire EXCEPT ![e] = Append(@, m)]
       /\ UNCHANGED <<tr, link>>
    \/ /\ link[e] = "up"
       /\ tr[Peer(e)] # "open"
       /\ \E s \in {"up", "reset"} : link' = [link EXCEPT ![e] = s]
       /\ UNCHANGED <<tr, wire>>
    \/ /\ link[e] = "silent"
       /\ link' = [link EXCEPT ![e] = "reset"]
       /\ UNCHANGED <<tr, wire>>

CanRead(e) == tr[e] = "open" /\ link[e] = "up" /\ wire[Peer(e)] # <<>>
ReadFails(e) ==
    \/ tr[e] # "open"
    \/ link[e] = "reset"
    \/ link[e] = "up" /\ wire[Peer(e)] = <<>> /\ tr[Peer(e)] = "closed"
Received(e) == Head(wire[Peer(e)])
Consumed(e) == [wire EXCEPT ![Peer(e)] = Tail(@)]

(* The network resets the connection, or drops it without a word.          *)
NetworkFails(how) ==
    /\ \A e \in Ends : tr[e] = "open" /\ link[e] = "up"
    /\ link' = [e \in Ends |-> how]
    /\ wire' = [e \in Ends |-> <<>>]
    /\ UNCHANGED <<setup, cpc, spc, local, app, copied, up, down, pinger, tr>>

-----------------------------------------------------------------------------
(* The applications.                                                       *)

AppSends(e) ==
    /\ local[e] = "open"
    /\ ~eof[e]
    /\ e = "client" => cpc # "handshake"
    /\ sent[e] < Limit[e]
    /\ sent' = [sent EXCEPT ![e] = @ + 1]
    /\ UNCHANGED <<setup, cpc, spc, local, eof, copied, up, down, pinger, net>>

AppEnds(e) ==
    /\ local[e] = "open"
    /\ ~eof[e]
    /\ e = "client" => cpc # "handshake"
    /\ eof' = [eof EXCEPT ![e] = TRUE]
    /\ UNCHANGED <<setup, cpc, spc, local, sent, copied, up, down, pinger, net>>

-----------------------------------------------------------------------------
(* Setting up the tunnel.                                                  *)

(* The client's goroutine is over: the deferred Close calls have run, and  *)
(* StartReverseTunnel goes on to its next turn.                            *)
Leave == cpc' = IF Reverse THEN "again" ELSE "done"
Abandon ==
    /\ Leave
    /\ local' = LocalClosed("client")
    /\ Hangup("client")

(* The goroutines start to copy; startPipe starts the pinger as well,      *)
(* unless PingFrequency is 0.                                              *)
StartCopying(e) ==
    /\ up' = [up EXCEPT ![e] = "read"]
    /\ down' = [down EXCEPT ![e] = "read"]
    /\ pinger' \in IF e = "client" /\ kind # "h2" THEN {"on", "off"} ELSE {pinger}

(* A listener accepts, and proxies first read where to go.                 *)
Accept ==
    /\ cpc = "accept"
    /\ local' = [local EXCEPT !["client"] = "open"]
    /\ \E next \in {"handshake", "connect"} : cpc' = next
    /\ UNCHANGED <<setup, spc, app, copied, up, down, pinger, net>>

Handshake ==
    /\ cpc = "handshake"
    /\ \/ cpc' = "connect" /\ UNCHANGED local
       \/ cpc' = "done" /\ local' = LocalClosed("client")
    /\ UNCHANGED <<setup, spc, app, copied, up, down, pinger, net>>

(* connectToTransport: the network connection, from the pool or dialed,    *)
(* and the upgrade request, ...                                            *)
Dial ==
    /\ cpc = "connect"
    /\ cpc' = "request"
    /\ spc' = "request"
    /\ tr' = [tr EXCEPT !["client"] = "open"]
    /\ UNCHANGED <<setup, local, app, copied, up, down, pinger, wire, link>>

DialFails ==
    /\ cpc = "connect"
    /\ Abandon
    /\ UNCHANGED <<setup, spc, app, copied, up, down, pinger, link>>

(* ... its answer, ...                                                     *)
Accepted ==
    /\ cpc = "request"
    /\ reply = "accepted"
    /\ \/ /\ Reverse
          /\ cpc' = IF scheme = "dynamic" THEN "frame" ELSE "dial"
          /\ UNCHANGED <<up, down, pinger>>
       \/ /\ ~Reverse
          /\ cpc' = "pipe"
          /\ StartCopying("client")
    /\ UNCHANGED <<setup, spc, local, app, copied, net>>

(* ... or a refusal, a failure, or for a WebSocket no answer in time.      *)
NotAccepted ==
    /\ cpc = "request"
    /\ reply = "rejected" \/ kind # "h2" \/ link["client"] = "reset"
    /\ Abandon
    /\ UNCHANGED <<setup, spc, app, copied, up, down, pinger, link>>

(* ServeHTTP turns the request down: no token, rules, a bad upgrade.       *)
Rejects ==
    /\ spc = "request"
    /\ spc' = "done"
    /\ reply' = "rejected"
    /\ UNCHANGED <<scheme, kind, want, dialed, cpc, local, app, copied, up, down,
                   pinger, net>>

(* ServeHTTP answers and starts the handler, which knows the protocols of  *)
(* forward and of reverse tunnels and closes the transport of any other.   *)
Serves ==
    /\ spc = "request"
    /\ reply' = "accepted"
    /\ spc' = CASE scheme = "forward" -> "dial"
                 [] Reverse            -> "parked"
                 [] OTHER              -> "done"
    /\ tr' = [tr EXCEPT !["server"] = IF scheme = "stdio" THEN "closed" ELSE "open"]
    /\ UNCHANGED <<scheme, kind, want, dialed, cpc, local, app, copied, up, down,
                   pinger, wire, link>>

(* dialTargetAndMaybeProxyHeader, while the client copies already.         *)
DialsTarget ==
    /\ spc = "dial"
    /\ spc' = "pipe"
    /\ local' = [local EXCEPT !["server"] = "open"]
    /\ StartCopying("server")
    /\ UNCHANGED <<setup, cpc, app, copied, net>>

(* The server's handler is over without having copied.                     *)
ServerGivesUp ==
    /\ spc' = "done"
    /\ Hangup("server")
    /\ UNCHANGED <<setup, cpc, local, app, copied, up, down, pinger, link>>
TargetFails == spc = "dial" /\ ServerGivesUp

(* A reverse tunnel is parked until it has waited for too long ...         *)
ParkedTooLong == spc = "parked" /\ ServerGivesUp

(* ... or handleIncoming takes it for a connection to the listener: for a  *)
(* dynamic tunnel the target frame is written before anything is copied.   *)
IncomingFirst(t) ==
    /\ spc = "parked"
    /\ spc' = "pipe"
    /\ local' = [local EXCEPT !["server"] = "open"]
    /\ StartCopying("server")
    /\ want' = t
    /\ UNCHANGED <<scheme, kind, reply, dialed, cpc, app, copied, net>>
IncomingConnection(t) ==
    /\ spc = "parked"
    /\ scheme = "dynamic" => CanWrite("server")
    /\ spc' = "pipe"
    /\ local' = [local EXCEPT !["server"] = "open"]
    /\ StartCopying("server")
    /\ IF scheme = "dynamic" THEN want' = t /\ Write("server", Frame(t))
                             ELSE UNCHANGED <<want, net>>
    /\ UNCHANGED <<scheme, kind, reply, dialed, cpc, app, copied>>

FrameFails ==
    /\ spc = "parked"
    /\ scheme = "dynamic"
    /\ ~CanWrite("server")
    /\ ServerGivesUp

(* readTargetFrame: the first message has to be the frame.                 *)
ReadsFrame ==
    /\ cpc = "frame"
    /\ CanRead("client")
    /\ Received("client").op = "frame"
    /\ dialed' = Received("client").n
    /\ wire' = Consumed("client")
    /\ cpc' = "dial"
    /\ UNCHANGED <<scheme, kind, reply, want, spc, local, app, copied, up, down,
                   pinger, tr, link>>

FrameErrorLeaks ==
    /\ cpc = "frame"
    /\ \/ ReadFails("client")
       \/ CanRead("client") /\ Received("client").op # "frame"
    /\ Leave
    /\ UNCHANGED <<setup, spc, local, app, copied, up, down, pinger, net>>
NoFrame ==
    /\ cpc = "frame"
    /\ \/ ReadFails("client")
       \/ CanRead("client") /\ Received("client").op # "frame"
    /\ Abandon
    /\ UNCHANGED <<setup, spc, app, copied, up, down, pinger, link>>

(* The reverse client's own connection to the target.                      *)
DialsLocal ==
    /\ cpc = "dial"
    /\ cpc' = "pipe"
    /\ local' = [local EXCEPT !["client"] = "open"]
    /\ StartCopying("client")
    /\ UNCHANGED <<setup, spc, app, copied, net>>

LocalFails ==
    /\ cpc = "dial"
    /\ Abandon
    /\ UNCHANGED <<setup, spc, app, copied, up, down, pinger, link>>

-----------------------------------------------------------------------------
(* Copying: Pipe and PipeRW have the same shape; PipeBiDir differs in how  *)
(* a goroutine ends.                                                       *)

(* The end of "up": a close message, or for HTTP/2 both are closed.        *)
UpClosesBoth(e) ==
    /\ up' = [up EXCEPT ![e] = "end"]
    /\ local' = LocalClosed(e)
    /\ CloseStream(e)
UpStops(e) ==
    IF kind = "h2"
    THEN /\ up' = [up EXCEPT ![e] = "end"]
         /\ local' = LocalClosed(e)
         /\ CloseStream(e)
    ELSE /\ up' = [up EXCEPT ![e] = "bye"]
         /\ UNCHANGED <<local, tr, wire>>

(* Read of the local connection: a piece of data ...                       *)
UpReads(e) ==
    /\ up[e] = "read"
    /\ local[e] = "open"
    /\ taken[e] < sent[e]
    /\ taken' = [taken EXCEPT ![e] = @ + 1]
    /\ up' = [up EXCEPT ![e] = "write"]
    /\ UNCHANGED <<setup, cpc, spc, local, app, got, written, down, pinger, net>>

(* ... EOF after the last one, or an error once it has been closed.        *)
UpReadEnds(e) ==
    /\ up[e] = "read"
    /\ local[e] = "closed" \/ (eof[e] /\ taken[e] = sent[e])
    /\ UpStops(e)
    /\ UNCHANGED <<setup, cpc, spc, app, copied, down, pinger, link>>

UpWrites(e) ==
    /\ up[e] = "write"
    /\ CanWrite(e)
    /\ Write(e, Data(taken[e]))
    /\ up' = [up EXCEPT ![e] = "read"]
    /\ UNCHANGED <<setup, cpc, spc, local, app, copied, down, pinger>>

UpWriteFails(e) ==
    /\ up[e] = "write"
    /\ ~CanWrite(e)
    /\ UpStops(e)
    /\ UNCHANGED <<setup, cpc, spc, app, copied, down, pinger, link>>

(* The deferred close message.                                             *)
UpSaysBye(e) ==
    /\ up[e] = "bye"
    /\ up' = [up EXCEPT ![e] = "end"]
    /\ IF CanWrite(e) THEN Write(e, Control("close")) ELSE UNCHANGED net
    /\ UNCHANGED <<setup, cpc, spc, local, app, copied, down, pinger>>

(* ReadMessage: data for the application, ...                              *)
ReadsData(e) ==
    /\ down[e] = "read"
    /\ CanRead(e)
    /\ Received(e).op = "data" /\ ~Refused(Received(e))
    /\ got' = [got EXCEPT ![e] = Append(@, Payload(Received(e)))]
    /\ wire' = Consumed(e)
    /\ down' = [down EXCEPT ![e] = "write"]
    /\ UNCHANGED <<setup, cpc, spc, local, app, taken, written, up, pinger, tr, link>>

(* ... which Write passes on once the application has taken enough of what *)
(* is before it, ...                                                       *)
Delivers(e) ==
    /\ down[e] = "write"
    /\ local[e] = "open"
    /\ written' = [written EXCEPT ![e] = @ + 1]
    /\ down' = [down EXCEPT ![e] = "read"]
    /\ UNCHANGED <<setup, cpc, spc, local, app, taken, got, up, pinger, net>>

(* ... or a control message.                                               *)
ReadsControl(e) ==
    /\ down[e] = "read"
    /\ CanRead(e)
    /\ Received(e).op \in {"ping", "pong"}
    /\ wire' = Consumed(e)
    /\ down' = [down EXCEPT ![e] = IF Received(e).op = "ping" THEN "pong" ELSE "read"]
    /\ UNCHANGED <<setup, cpc, spc, local, app, copied, up, pinger, tr, link>>

(* The ping handler answers; its error is ReadMessage's.                   *)
Pongs(e) ==
    /\ down[e] = "pong"
    /\ CanWrite(e)
    /\ Write(e, Control("pong"))
    /\ down' = [down EXCEPT ![e] = "read"]
    /\ UNCHANGED <<setup, cpc, spc, local, app, copied, up, pinger>>

(* "down" ends on a close message, an error of the transport or of the     *)
(* local connection.  The local connection is closed, for HTTP/2 the       *)
(* stream as well.                                                         *)
DownFails(e) ==
    \/ down[e] = "read" /\ ReadFails(e)
    \/ down[e] = "read" /\ CanRead(e) /\ Refused(Received(e))
    \/ down[e] = "pong" /\ ~CanWrite(e)
    \/ down[e] = "write" /\ local[e] # "open"
DownOnlyEnds(e) ==
    /\ DownFails(e)
    /\ down' = [down EXCEPT ![e] = "end"]
    /\ UNCHANGED <<setup, cpc, spc, local, app, copied, up, pinger, net>>
DownEnds(e) ==
    /\ DownFails(e)
    /\ down' = [down EXCEPT ![e] = "end"]
    /\ local' = LocalClosed(e)
    /\ IF kind = "h2" THEN CloseStream(e) ELSE UNCHANGED <<tr, wire>>
    /\ UNCHANGED <<setup, cpc, spc, app, copied, up, pinger, link>>

(* startPipe's pinger.  Bound: one ping and its pong are under way.        *)
PingUnderWay ==
    \/ \E e \in Ends : \E i \in DOMAIN wire[e] : wire[e][i].op \in {"ping", "pong"}
    \/ down["server"] = "pong"
NeverTicks == FALSE /\ UNCHANGED vars
Ticks ==
    /\ pinger = "on"
    /\ ~PingUnderWay
    /\ pinger' = "write"
    /\ UNCHANGED <<setup, cpc, spc, local, app, copied, up, down, net>>

Pings ==
    /\ pinger = "write"
    /\ \/ CanWrite("client") /\ pinger' = "on" /\ Write("client", Control("ping"))
       \/ ~CanWrite("client") /\ pinger' = "off" /\ Hangup("client") /\ UNCHANGED link
    /\ UNCHANGED <<setup, cpc, spc, local, app, copied, up, down>>

(* wg.Wait returns at both goroutines' end; the deferred calls of          *)
(* startPipe and of the server's handlers close what is left.              *)
ClientReturns ==
    /\ cpc = "pipe"
    /\ up["client"] = "end" /\ down["client"] = "end"
    /\ Abandon
    /\ UNCHANGED <<setup, spc, app, copied, up, down, pinger, link>>

(* The deferred cancel of startPipe reaches the pinger, unless a tick does *)
(* once more: then its ping fails.                                         *)
PingerStops ==
    /\ pinger = "on"
    /\ cpc \in {"done", "again"}
    /\ pinger' = "off"
    /\ UNCHANGED <<setup, cpc, spc, local, app, copied, up, down, net>>

ServerReturns ==
    /\ spc = "pipe"
    /\ up["server"] = "end" /\ down["server"] = "end"
    /\ spc' = "done"
    /\ local' = LocalClosed("server")
    /\ Hangup("server")
    /\ UNCHANGED <<setup, cpc, app, copied, up, down, pinger, link>>

-----------------------------------------------------------------------------
SetupStep ==
    \/ Dial \/ DialFails \/ Accepted \/ NotAccepted
    \/ ReadsFrame \/ NoFrame \/ DialsLocal \/ LocalFails
ServerStep == Rejects \/ Serves \/ DialsTarget \/ TargetFails \/ FrameFails
UpStep(e) ==
    \/ UpReads(e) \/ UpReadEnds(e) \/ UpWrites(e) \/ UpWriteFails(e)
    \/ UpSaysBye(e)
DownStep(e) == ReadsData(e) \/ ReadsControl(e) \/ Pongs(e) \/ DownEnds(e)

Next ==
    \/ Accept \/ Handshake \/ SetupStep \/ ServerStep
    \/ \E t \in Targets : IncomingConnection(t)
    \/ ParkedTooLong
    \/ \E e \in Ends : \/ AppSends(e) \/ AppEnds(e)
                       \/ UpStep(e) \/ DownStep(e) \/ Delivers(e)
    \/ Ticks \/ Pings \/ PingerStops
    \/ ClientReturns \/ ServerReturns
    \/ \E how \in {"silent", "reset"} : NetworkFails(how)

Spec == Init /\ [][Next]_vars

(* What the scheduler and the timeouts guarantee: goroutines run, dials    *)
(* and handshakes end, the ticker ticks, a parked tunnel is given up after *)
(* the idle timeout.  Nothing is assumed of the applications, not even     *)
(* that they read what is written to them, of connections coming in, or of *)
(* the network failing.                                                    *)
Fairness ==
    /\ WF_vars(SetupStep \/ ClientReturns)
    /\ WF_vars(ServerStep \/ ServerReturns)
    /\ WF_vars(ParkedTooLong)
    /\ \A e \in Ends : WF_vars(UpStep(e)) /\ WF_vars(DownStep(e))
    /\ WF_vars(Ticks \/ Pings \/ PingerStops)

FairSpec == Spec /\ Fairness

-----------------------------------------------------------------------------
(* Properties.                                                             *)

Limits(e) == Limit[e]
Ideal == INSTANCE Duplex WITH Limit <- Limits,
                              got <- [e \in Ends |-> SubSeq(got[e], 1, written[e])],
                              over <- [e \in Ends |-> local[e] = "closed"]

(* The tunnel is a duplex stream: whatever the setup, the framing and the  *)
(* pings do to the transport, each application reads a prefix of what the  *)
(* other one wrote, and nothing after its connection was closed.           *)
IsDuplex == Ideal!Spec

(* Once both ends copy over a WebSocket, what an application sent before   *)
(* it finished reaches the other one, unless the other one finished too or *)
(* the network failed: the close message is sent after the data and stops  *)
(* nothing but the reverse direction.                                      *)
CompleteDelivery ==
    \A e \in Ends :
        /\ kind # "h2"
        /\ link = [f \in Ends |-> "up"]
        /\ eof[e] /\ ~eof[Peer(e)]
        /\ up[e] # "off"
        /\ down[Peer(e)] = "end"
        => written[Peer(e)] = sent[e]

(* A dynamic reverse client dials the target that the connection it serves *)
(* asked for, because the frame that names it is on the wire before any    *)
(* byte of that connection.                                                *)
FrameComesFirst ==
    /\ dialed # None => dialed = want
    /\ (want # None /\ cpc \in {"request", "frame"}
         /\ tr["client"] = "open" /\ link["client"] = "up")
        => wire["server"] # <<>> /\ Received("client") = Frame(want)

(* A goroutine that has returned, on whichever path, has left nothing      *)
(* open.                                                                   *)
NothingLeftOpen ==
    /\ cpc \in {"done", "again"} =>
           /\ tr["client"] \in {"none", "closed"}
           /\ local["client"] = "open" => scheme = "stdio"
    /\ spc = "done" => tr["server"] \in {"none", "closed"} /\ local["server"] # "open"

Over == cpc \in {"done", "again"} /\ spc \in {"none", "done"} /\ pinger = "off"
Silent == \E e \in Ends : link[e] = "silent"
Ending == cpc \in {"done", "again"} \/ \E e \in Ends : eof[e] \/ link[e] = "reset"

(* The application at e reads, so that no Write to it lasts for ever.      *)
AppReads(e) == []<>(down[e] # "write")

(* The end of either application's stream, of the connection, or of the    *)
(* client's goroutine, on whichever error path and even when the server    *)
(* accepts too late, ends the tunnel on both ends, the pinger included, if *)
(* the applications read: no goroutine of Pipe waits for the other one for *)
(* ever.  (A goroutine in a Write that the application does not take is    *)
(* woken by nobody.)  Standard input, which nobody closes, is the other    *)
(* exception.                                                              *)
EndSpreads ==
    (\A e \in Ends : AppReads(e)) =>
        ((scheme # "stdio" /\ Ending) ~> (Over \/ Silent))

(* A client that is copying notices that the network is gone, thanks to    *)
(* its pings, and leaves, if it pings and its application reads.           *)
LossNoticed ==
    AppReads("client") =>
        ((/\ cpc = "pipe" /\ pinger # "off" /\ scheme # "stdio"
          /\ link["client"] = "silent") ~> cpc # "pipe")

-----------------------------------------------------------------------------
(* The inductive invariant behind the proofs.                              *)

Message == [op : {"data", "frame", "ping", "pong", "close"},
            n : Nat \cup Targets, len : Seq(Nat)]

(* How far the two sides have come bounds what the rest of the state is.   *)
Phases ==
    /\ wire \in [Ends -> Seq(Message)]
    /\ spc # "none" => cpc \notin {"accept", "handshake", "connect"}
    /\ reply # "none" <=> spc \notin {"none", "request"}
    /\ cpc \in {"frame", "dial", "pipe"} => reply = "accepted"
    /\ cpc \in {"accept", "handshake"} => scheme = "forward"
    /\ cpc = "frame" => scheme = "dynamic"
    /\ cpc = "dial" => Reverse
    /\ spc = "dial" => scheme = "forward"
    /\ Reverse /\ cpc \notin {"pipe", "done", "again"} => local["client"] = "none"
    /\ cpc \in {"accept", "handshake", "connect", "request", "frame", "dial"} =>
           up["client"] = "off" /\ pinger = "off"
    /\ spc \notin {"pipe", "done"} => up["server"] = "off" /\ local["server"] = "none"
    /\ cpc = "accept" => local["client"] = "none"
    /\ cpc \in {"accept", "handshake", "connect"} => tr["client"] = "none"
    /\ spc \in {"none", "request"} => tr["server"] = "none"
    /\ up["client"] # "off" => reply = "accepted"
    /\ \A e \in Ends :
          /\ up[e] = "off" <=> down[e] = "off"
          /\ up[e] = "off" => taken[e] = 0

(* The pieces of data on a wire w follow the k that were delivered, in     *)
(* order, without a gap and up to at most p, or to p itself.               *)
DataOn(w) == {i \in DOMAIN w : w[i].op = "data"}
Consecutive(w, k, p) ==
    \A i \in DataOn(w) :
        /\ w[i].n \in k + 1 .. p
        /\ \A n \in k + 1 .. w[i].n : \E j \in DataOn(w) : w[j].n = n
        /\ \A j \in DataOn(w) : i < j => w[i].n < w[j].n
Reaches(w, k, p) == \A n \in k + 1 .. p : \E j \in DataOn(w) : w[j].n = n

(* While messages get through, they reach up to the last piece that "up"   *)
(* has passed on.                                                          *)
Passed(e) == IF up[e] = "write" THEN taken[e] - 1 ELSE taken[e]
Flows(e) ==
    /\ link[e] = "up"
    /\ tr[e] \in {"open", "noread"}
    /\ tr[Peer(e)] = "open"
InOrderFrom(e) ==
    /\ \A i \in DataOn(wire[e]) : wire[e][i] = Data(wire[e][i].n)
    /\ Consecutive(wire[e], Len(got[Peer(e)]), Passed(e))
    /\ Flows(e) => Reaches(wire[e], Len(got[Peer(e)]), Passed(e))
    /\ Len(got[Peer(e)]) <= Passed(e)
    /\ up[e] = "write" => taken[e] > 0
InOrder == \A e \in Ends : InOrderFrom(e)

(* The target frame is the first message there is.                         *)
FrameInv ==
    /\ FrameComesFirst
    /\ dialed # None => want # None
    /\ cpc \in {"accept", "handshake", "connect", "request", "frame"} => wire["client"] = <<>>
    /\ scheme = "dynamic" /\ want = None =>
           /\ wire["server"] = <<>>
           /\ up["server"] = "off"
           /\ link["server"] # "up" => link["client"] # "up"
    /\ scheme = "dynamic" /\ want # None => spc \in {"pipe", "done"}
    /\ scheme # "dynamic" => want = None

(* Over a WebSocket whose network has not failed, an end's side of the     *)
(* transport and its local connection stay open until the goroutines that  *)
(* use them have ended.                                                    *)
Undisturbed == kind # "h2" /\ \A e \in Ends : link[e] = "up"
Copied(e) == up[e] = "end" /\ down[e] = "end"
Sides ==
    /\ cpc \in {"handshake", "connect", "request"} => Reverse \/ local["client"] = "open"
    /\ cpc \in {"request", "frame", "dial", "pipe"} => tr["client"] = "open"
    /\ spc \in {"dial", "parked", "pipe"} => tr["server"] = "open"
    /\ cpc \in {"done", "again"} => up["client"] = "off" \/ Copied("client")
    /\ spc = "done" => up["server"] = "off" \/ Copied("server")
    /\ \A e \in Ends : /\ tr[e] # "noread"
                       /\ up[e] # "off" /\ down[e] # "end" => local[e] = "open"

(* "up" stops after the last piece of data, unless "down" has stopped it,  *)
(* and nothing is sent after its close message but pings and pongs.        *)
Closes(w) == \E i \in DOMAIN w : w[i].op = "close"
Tidy(w) == \A i, j \in DOMAIN w : i < j /\ w[i].op = "close" => w[j].op # "data"
ByesFrom(e) ==
    /\ up[e] \in {"bye", "end"} => (eof[e] /\ taken[e] = sent[e]) \/ down[e] = "end"
    /\ Closes(wire[e]) => up[e] = "end"
    /\ Tidy(wire[e])

(* "down" ends once all that either application sent has been delivered,   *)
(* or when the other end has given up before it started to copy.           *)
Delivered(e) == eof[e] /\ Len(got[Peer(e)]) = sent[e]
Gone(e) == up[e] = "off" /\ tr[e] = "closed"
EndingOf(e) == down[e] = "end" => Delivered(e) \/ Delivered(Peer(e)) \/ Gone(Peer(e))

DeliveryInv == Undisturbed => Sides /\ \A e \in Ends : ByesFrom(e) /\ EndingOf(e)

(* What was read from the transport is what was sent, and all of it is     *)
(* passed on, the piece in hand excepted; the last one is lost when its    *)
(* Write fails.                                                            *)
InHand(e) == IF down[e] = "write" THEN 1 ELSE 0
PassingInv ==
    \A e \in Ends :
        /\ \A i \in DOMAIN got[e] : got[e][i] = Chunk(i)
        /\ written[e] + InHand(e) <= Len(got[e])
        /\ Undisturbed => written[e] + InHand(e) = Len(got[e])

InductiveInvariant ==
    /\ TypeOK /\ Phases /\ InOrder /\ FrameInv /\ NothingLeftOpen
    /\ DeliveryInv /\ PassingInv

=============================================================================
