# A TLA+ verification of WarpStream

WarpStream tunnels TCP, UDP and Unix-socket traffic over WebSocket or HTTP/2
between a client and a server. This directory models the parts of it in which
several goroutines share state and one tunnel from end to end, checks them with
TLC on small instances, and proves its safety properties, two refinements among
them, with TLAPS for every instance.

    tlc -workers 2 -config RtmReap.cfg MCReverseTunnelManager
    tlapm ReverseTunnelManagerProofs.tla

`PROJECT.json` lists the components, the runs, the source lines of every
definition, the hazards, the findings and the theorems.

## 1. The system

| Part | Source | State | Operations | Modelled in |
|---|---|---|---|---|
| Reverse tunnel manager | `pkg/server/manager.go` | map of listeners; per listener a queue of parked connections, `active`, `lastUsed`, `quit` | `HandleClient*`, `runListener`, `handleIncoming`, `reapIdleListenersOnce`, `Close` | `ReverseTunnelManager` |
| Reverse UDP sessions, idle timers | `pkg/server/reverse_udp.go`, `pkg/tunnel/idletimer.go` | map of sessions, a channel and a timer each | `runUdpListener`, `push`, `Read`, `touch`, `Close` | `ReverseUdp` |
| Client UDP tunnels | `pkg/client/client.go` | maps `clients` and `timers` | receive loop, expiry, reply reader | `UdpTunnel` |
| Connection pool | `pkg/client/pool.go` | channel `conns`, `closed`, `ctx` | `maintain`, `Get`, `Close` | `ConnectionPool` |
| Certificate reload | `pkg/server/tls_reloader.go`, `pkg/client/client.go` | `cert`, times of the files | `Reload`, `WatchFiles`, `WatchSignals` | `CertReloader` |
| Pipes | `pkg/tunnel/pipe.go` | two goroutines per pipe and end | `Pipe`, `PipeRW`, `PipeBiDir` | `Tunnel` |
| Tunnels of the client, forward and reverse | `pkg/client/client.go` | one transport and one local connection each | `StartTunnel`, `connectToTransport`, `startPipe`, `StartReverseTunnel`, `readTargetFrame` | `Tunnel` (one tunnel) |
| WebSocket transport | `pkg/wst` | one connection | `Dial`, `Upgrade`, `WriteMessage`, `ReadMessage` | `Tunnel` |
| Server requests | `pkg/server/server.go` | none shared | `ServeHTTP`, `handleConnection`, `handleHttp2Connection` | `Tunnel` |
| Restrictions | `pkg/server/restrictions.go` | none | `Validate` | a free choice of `Tunnel` |
| PROXY headers, types, configuration, command line, Caddy module, socket options, self-signed certificates | | none | formatting, parsing, system calls | not modelled |

How they interact. A reverse tunnel client opens a stream to the server, which
parks it in the queue of the listener for the address asked for. A connection
accepted by that listener takes a parked stream and is piped through it. A
forward tunnel of the client takes a transport connection from the pool, or
dials one, and pipes a local connection through it; a UDP tunnel keeps one
stream per source address instead. Certificates are reloaded beside all this
by two goroutines of their own.

What is hard to test here: a timeout that races the use of what it times out
(parked connections, UDP sessions); reference counts raised and lowered in
different goroutines; sleepers on a condition variable that three kinds of
goroutine signal; clean-up by key when the key has a new owner; state read
under a lock and used after it; shutdown against everything else. The hazards
in `PROJECT.json` give the line for each.

## 2. Modules

In every module an action is one critical section, or one step outside locks
that another goroutine can observe. Goroutines are program counters (`wpc`,
`hpc`, `loop`, `reader`, ...). A definition placed just before another one,
with a name that says what is wrong with it (`NotPopped` before `Popped`), is
a faulty variant: substituted for the definition it precedes, it must make a
property fail, which shows that the property depends on that line of code.

### ReverseTunnelManager

| Code | Model |
|---|---|
| `m.listeners`, `m.stop` | `listeners`, `stop` |
| `tunnelListener` | `addr`, `waiting`, `quit`, `socket`, `active`, `idle`, `loop` |
| `waitingConn` and its `HandleClient` | `wpc`, `wl`, `acquired`, `done`, `open` |
| `handleIncoming` | `hpc`, `hl`, `hw`, `clock` |
| reaper and `Close`, after they took listeners from the map | `todo`, `shutting` |
| `getOrCreateListener` | `ReuseListener`, `CreateListener`, `ListenFails` |
| `enqueueWaitingConn` | `EnqueueRejected`, `EnqueueAppend`, `EnqueueSleep` |
| `waitForUseOrTimeout`, `handleWaitTimeout` | `WaitReturns`, `WaitSeesAcquired`, `WaitTimerFires`, `TimeoutChecks`, `TimeoutFinishes`, `TimeoutPurges` |
| `acquireWaitingConn` | `AcquireTakes`, `AcquireGivesUp`, `AcquireSleeps`, `TimerRings`, `DeadlinePasses` |
| `runListener`, `runUdpListener` | `Accept`, `beginIncoming`, `AcceptFails`, `LoopQuits`, `LoopUnmaps`, `LoopCloses` |
| `handleIncoming` | `Handshake`, `Forward`, `PipeEnds`, `FinishForwarding`, `EndIncoming` |
| `reapIdleListenersOnce`, `Close`, `closeTunnelListener` | actions of the same names, `CloserQuits`, `CloserShuts` |

`sync.Cond.Wait` is a state that ends in `Sleep`; `Broadcast` (`WakeWaiters`,
`WakeHandlers`) moves the sleepers of that listener to the top of their loop.
`purgeDoneWaitersLocked` keeps the order of the remaining waiters; `Purged`
builds the new queue from the rank of each of them.

Abstractions. Time is two flags: `idle[l]` (idleTimeout has passed since
`lastUsed`) and `clock[h]` (the wake-up of `acquireWaitingConn` has run; its
deadline has passed). The order of those two is free, because the timer is
armed at line 326 and the deadline computed at line 335. A wake-up that runs
after `acquireWaitingConn` has returned only adds a spurious `Broadcast` and is
left out. A handshake or a pipe is one step that may take for ever: nothing is
assumed of a pipe's end, not even when the server has closed its stream, since a
goroutine of it may be in a `Write` that nobody takes. A socket
whose address is still bound by a listener that is closing makes
`ListenFails` happen. `Close`'s closing of `m.stop` and the emptying of the map
are one action.

`ReversePool` is what the manager promises: a bounded line of clients at each
listener, first come first served, nobody given twice, and clients that leave.
`IsPool` states that the manager implements it, with `line` the queue of each
listener as a purge would leave it and `given` the waiter a handler has taken
(`hw`). A purge, which only removes waiters that are done, changes nothing there;
`finish` is a client leaving.

### ReverseUdp

| Code | Model |
|---|---|
| `runUdpListener`'s `sessions`, `session` | `sessions`, `session`, `loop`, `received` |
| `udpSessionConn` | `peer`, `ch` (how many datagrams are buffered) |
| `IdleTimeoutConn` | `armed`, `callbacks` |
| the `Close` of both, in its three critical sections | `closing` |
| `handleIncoming` and its `Pipe` | `hpc`, `up`, `down`, `replies` |

The three locks (`mu` of the loop, `u.mu`, `c.mu`) are taken one after the other
and never together with a blocking operation, so that a critical section is one
step. A timer's callback is a goroutine of its own: `Reset` after it has started
arms the timer a second time, hence a count of callbacks. An empty datagram does
not touch the timer, so `UpTouches` and `DownTouches` arm it or not. The write to
the client (`UpWrites`) may fail, or wait for a client that does not read.
Whether a client is there for the session, and when `acquireWaitingConn` says so,
is `ReverseTunnelManager`'s subject and a free choice here.

### Tunnel and Duplex

One tunnel with two ends. `scheme` is the kind of tunnel (`"forward"`: a local
connection accepted and dialed to a target; `"stdio"`; `"static"` and
`"dynamic"` reverse tunnels), `kind` the transport. Per end there are the local
connection (`local`, `sent`, `eof`, `taken`), what was read from the transport for
it and how much of that its `Write` has taken (`got`, `written`), the two copying goroutines
(`up`, `down`) and the side of the transport (`tr`, `wire`, `link`); `cpc`, `spc`
and `pinger` are the client's goroutine, the server's handler and `startPipe`'s
ping goroutine.

| Code | Model |
|---|---|
| `runTcpTunnel`, `runUnixTunnel`, `runSocks5Tunnel`, `runHttpProxyTunnel` up to the dial | `Accept`, `Handshake` |
| `connectToTransport`, `Dialer.Dial` | `Dial`, `DialFails`, `Accepted`, `NotAccepted` |
| `ServeHTTP`, `handleConnection`, `handleHttp2Connection` | `Rejects`, `Serves`, `DialsTarget`, `TargetFails`, `ServerReturns` |
| the parked connection and `handleIncoming` | `ParkedTooLong`, `IncomingConnection`, `FrameFails` |
| `StartReverseTunnel`, `readTargetFrame` | `ReadsFrame`, `NoFrame`, `DialsLocal`, `LocalFails` |
| `startPipe`, `startPipeRWC` | `StartCopying`, `Ticks`, `Pings`, `PingerStops`, `ClientReturns` |
| local to transport in `Pipe*` | `UpReads`, `UpReadEnds`, `UpWrites`, `UpWriteFails`, `UpSaysBye` |
| transport to local in `Pipe*`, `ReadMessage` | `ReadsData`, `Delivers`, `ReadsControl`, `Pongs`, `DownFails`, `DownEnds` |
| `WriteMessage`, `ReadMessage`: the length and its limit | `EncodeLength`, `DecodeLength`, `MaxPayload`, `Refused` |

With `PingFrequency` 0 there is no pinger: `StartCopying` takes either case. The
pinger is told to stop by a deferred `cancel` and stops later, after one more ping
perhaps (`PingerStops`). `Delivers` is the application's connection taking what
`down` writes to it; an application that does not read keeps `down` there.
`ReadMessage` refuses more than 10 MB (`Refused`), far above what the pipes' 32 kB
buffers send, which is why `Size` is assumed within that limit.

The network is external: a write to a peer that has closed is lost and may reset
the connection; closing with unread data may drop what was under way (`Kept`);
the network may reset the connection or fall silent, upon which a write succeeds
once and the connection is reset. An HTTP/2 client that closes aborts its stream;
the server's `http2ReadWriteCloser.Close` only closes the request body. Pieces of
data have a number and a size, and arrive as what the decoded length says.

`Duplex` is what a tunnel promises the two applications: each is passed a prefix of
what the other one wrote, and nothing after its own connection was closed.
`Tunnel` instantiates it with the written part of `got`, and with `over` for
`local[e] = "closed"`. "Delivered" means written to the application's connection
throughout; whether the application then reads it is its own affair.

### UdpTunnel

`runUdpTunnel` (`tproxy = FALSE`) and `runTProxyUdpTunnel` (`tproxy = TRUE`);
`Modes` says which of them a run looks at.
`clients` and `timers` are the two maps; a session is a stream with its timer
(`armed`, `expiry`) and its reader goroutine (`reader`). `Receive`, `DialBegins`,
`Dial`, `DialFails`, `Write`, `WriteFails`, `Drop`, `DropCloses` are the receive
loop, which keeps `mu` while it dials (`MuFree` is false): expiries and readers
wait that long. `Fire`,
`Expire`, `ExpireCloses`, `ExpireTProxy` the timer and its callback; `Read`,
`Reply`, `ReadFails`, `Leave`, `LeaveCloses` the reader. Payloads are left out.
Two bounds: the number of sessions ever dialed, and one callback of a timer at
a time (a timer that was re-armed while its callback waits for `mu` fires again
after it).

### ConnectionPool

`conns` is the channel, as the set of its connections: which of them `Get`
receives makes no difference. `open` is the set of open connections,
`maintain`, `get`, `closer` are the program counters, and `dialed`, `got` the
local variables. Where a Go `select` has two cases ready, both actions are
enabled. Connections that were closed stand for new ones, so the state space is
finite without a bound on the length of behaviours. No program calls
`ConnectionPool.Close` outside tests; it is modelled all the same.

### CertReloader

One module for `CertReloader` and `clientCertReloader`, which are the same code.
Files carry the number of the replacement they come from, which is also their
modification time; a pair is good when the numbers agree. Every stat, read and
store is an action, so replacements fall between any two of them.
`EarlyChange` and `Signals` choose the environment.

## 3. Runs

Runs that hold:

| Run | Instance | States | Shows |
|---|---|---|---|
| `rtm_handlers` | 1 listener, 3 clients, queue of 2, 2 incoming, no idle timeout | 0.9 M | `TypeOK`, `ExclusiveUse`, `InUseStaysOpen`, `ActiveCountsHandlers`, `NoLostWakeup`, `IsPool` |
| `rtm_reap` | 2 listener objects on 1 address, 2 clients, queue of 2, 1 incoming | 1.8 M | `ActiveCountsHandlers`, `RegisteredIsServed`, `ReaperSparesHandlers`, `OnlyTimeoutCloses` |
| `rtm_live` | 1 listener, 2 clients, queue of 1, 1 incoming, fair | 0.2 M | `IdleListenerReaped`, `QuitDrains` |
| `reverse_udp` | 1 peer, 2 sessions, buffer of 1, 3 datagrams, 1 reply, fair | 0.3 M | `TypeOK`, `EntryIsOwn`, `ClosedStaysDisarmed`, `OpenCanExpire`, `DrainedAtEof`, `SessionsReclaimed`, `HandlersReturn` |
| `tunnel` | 4 schemes, 2 transports, 2 targets, 2 pieces of data up and 1 down, fair | 0.4 M | `TypeOK`, `CompleteDelivery`, `FrameComesFirst`, `NothingLeftOpen`, `IsDuplex`, `EndSpreads`, `LossNoticed` |
| `udp` | both functions, 2 sources, 2 sessions, fair | 0.1 M | `TypeOK`, `MapsAgree`, `NoDeadSessionMapped`, `ClosedSessionEnds` |
| `pool` | 2 callers, capacity 2, fair | 20 k | `TypeOK`, `OneHolder`, `ClosedPoolIsEmpty`, `DialedFits`, `CloseTerminates`, `KeptFull` |
| `cert` | 3 replacements, poller and signals, fair | 0.2 M | `TypeOK`, `LastGoodStays`, `PollPickedUp`, `SignalPickedUp` |

Runs in which the code contradicts what the repository says of it (the
findings in `PROJECT.json` quote the line):

| Run | Property | What happens |
|---|---|---|
| `rtm_timeout_race` | `InUseStaysOpen` | `handleWaitTimeout` tests `isAcquired`; a handler acquires; `finish(true)` closes the connection in use |
| `rtm_acquire_stuck` | `UnusedListenerReaped` | the only wake-up of `acquireWaitingConn` comes before its deadline; the handler sleeps on and its listener is never reaped |
| `udp_dropped` | `ActiveNotDropped` | the reader of an expired session deletes the map entry of the session that succeeded it, and stops its timer |
| `cert_stale` | `ChangePickedUp` | a signal's `Reload` stores an old pair over the poller's new one, and the poller does not load again |

More disagreements and races show in the models and have no run of their own:

- The reaper may take a listener between `Accept` and `beginIncoming`; the
  accepted connection then finds a queue that has quit and is closed.
- Files that change before the poller's first tick is over are not noticed:
  `PollPickedUp` states that precondition, and fails without it.
- `runTProxyUdpTunnel` looks a session up by source alone, so a datagram for a
  second destination goes out on the session dialed to the first, while
  `README.md:118` says that UDP "recovers each datagram's original destination".
- The server's dispatch does not know the protocol `Stdio`: in `Serves` such a
  tunnel is accepted and closed, while `README.md:71` documents it.
- The client of a reverse UDP tunnel dials its target with `"tcp"`
  (`client.go:962`; `DialsLocal` has one dial for all protocols).
- A parked dynamic reverse client reads the target frame before any pinger
  runs, so it does not notice a network that has fallen silent; `LossNoticed` is
  about clients that copy. `docs/PROTOCOL.md:68` says that pings keep
  connections alive.
- An expiry callback that waits for `mu` closes the session although a datagram
  or a reply has re-armed the timer since (`UdpTunnel`'s `Expire` after `Reset`).
- A goroutine of `Pipe` in a `Write` that its application does not take is woken
  by nobody when the tunnel ends, so that `Pipe` does not return; `EndSpreads`
  has applications that read as its premise.
- A timeout of 0 means 30 s (`client.go:1071`, `server.go:430`,
  `idletimer.go:22`, `reverse_udp.go:89`), while `README.md:81` says that it
  disables expiry.
- With the gorilla library several goroutines write to one connection without a
  lock (`client.go:527`, `client.go:540`, `server.go:500`).

Why the bounds are enough. The interesting cases of the manager need a full
queue with a client outside it and two handlers that compete (`rtm_handlers`),
or a listener and its successor on one address (`rtm_reap`); a second address adds nothing, since listeners of different
addresses share only `m.mu`. A UDP session is disturbed by its successor of the
same source, or by one of another source if clean-up is not by key, hence two
sessions and two sources; larger instances are covered by the proofs. A session
of a reverse UDP listener can only meet its own successor, since everything is
by the peer's key, and three datagrams fill its buffer, overflow it and start the
successor; `Replies` bounds the messages that come back over all sessions, and one
is enough to touch a timer from the other direction. In a tunnel two pieces of data from one side give an order to get
wrong, and the one from the other side a race between data and the close message;
the sizes 126 and 300 need the longer length. In the
pool, a capacity of two and two callers
give every mixture of full, partly filled and empty with `Close` under way. Three
replacements let a `Reload` be overtaken twice. Symmetry is used for
interchangeable model values in safety runs only.

Deadlock checking is off where the system may really stop: when clients,
datagrams and callers stay away the program waits. `CertReloader` never stops,
and its runs check for deadlock.

Fairness. Goroutines are scheduled and timers fire (weak fairness on their
steps); a read of a closed socket or stream returns (weak fairness on the
failing step, only once it is closed). In the pool, `maintain`'s outer `select`
takes `ctx.Done` if it is ready time and again (strong fairness): Go chooses at
random among ready cases, and its ticker is ready only every 100 ms. In
`UdpTunnel` a goroutine gets `mu` if it is free time and again (strong fairness;
`sync.Mutex` starves nobody). In a tunnel dials and handshakes end (their
timeouts), a parked connection is given up (the idle timeout, which is on by
default), and the ticker ticks; an HTTP/2 request has no timeout and needs an
answer or a reset. Nothing is assumed of clients, peers, applications, operators,
of the network failing, or of calls of `Close`; nor of a step that waits for one
of them: the end of a pipe in `ReverseTunnelManager`, `acquireWaitingConn` and a
write to the client in `ReverseUdp`, a dial in `UdpTunnel`, a write to an
application in `Tunnel`.

Where a liveness property needs such a step, it says so:

| Property | Premise or exception |
|---|---|
| `QuitDrains` | a handler may still be in a pipe whose stream the server has closed |
| `IdleListenerReaped` | a handler is at work on the listener (counted by `handleIncoming`'s own state, not by `tl.active`) |
| `SessionsReclaimed` | none |
| `HandlersReturn` | the handler does not wait for ever for a parked client, for its client to read, or for it to answer the close message |
| `EndSpreads` | both applications read; not over a silent network; not for standard input |
| `LossNoticed` | the client pings (`PingFrequency` is not 0) and its application reads |
| `ClosedSessionEnds` | no dial lasts for ever |
| `KeptFull` | dials succeed and callers do not keep taking |

## 4. Proofs

All theorems hold for every value of the constants under the named assumptions
of the modules: distinct model values, a positive capacity, and finitely many
incoming connections (`ReverseTunnelManager`) or connections (`ConnectionPool`);
in `Tunnel`, pieces of data of at most `MaxPayload` bytes.

| Theorem | Statement |
|---|---|
| `ReverseTunnelManagerProofs!TypeCorrect` | `Spec => []TypeOK` |
| `ReverseTunnelManagerProofs!ActiveExact` | `Spec => []ActiveCountsHandlers` |
| `ReverseTunnelManagerProofs!ReaperSafe` | `Spec => ReaperSparesHandlers` |
| `ReverseTunnelManagerProofs!HandedOutOnce`, `MapIsServed`, `WakeupsArrive` | `ExclusiveUse`, `RegisteredIsServed`, `NoLostWakeup` are invariant |
| `ReverseTunnelManagerProofs!UsedStaysOpen` | `~IdleTimeout => (Spec => []InUseStaysOpen)` |
| `ReverseTunnelManagerProofs!TimeoutClosesOnly` | `Spec => OnlyTimeoutCloses` |
| `ReverseTunnelManagerProofs!ImplementsPool` | `Spec => IsPool`: `ReverseTunnelManager` implements `ReversePool` |
| `ReverseUdpProofs!TypeCorrect`, `EntriesExact`, `TimersRun`, `ClosedIsDisarmed`, `NothingAfterEof` | `TypeOK`, `EntryIsOwn`, `OpenCanExpire`, `ClosedStaysDisarmed`, `DrainedAtEof` are invariant |
| `TunnelOrderProofs!LengthRoundTrip` | the length decoded is the length encoded |
| `TunnelProofs!TypeCorrect`, `FrameFirst`, `NoLeftovers`, `DeliveryComplete` | `TypeOK`, `FrameComesFirst`, `NothingLeftOpen`, `CompleteDelivery` are invariant |
| `TunnelProofs!ImplementsDuplex` | `Spec => IsDuplex`: `Tunnel` implements `Duplex` |
| `UdpTunnelProofs!TypeCorrect`, `MapsConsistent`, `MappedAlive` | `TypeOK`, `MapsAgree`, `NoDeadSessionMapped` are invariant |
| `ConnectionPoolProofs!TypeCorrect`, `Ownership`, `CloseComplete`, `RoomForDialed` | `TypeOK`, `OneHolder`, `ClosedPoolIsEmpty`, `DialedFits` are invariant |
| `CertReloaderProofs!TypeCorrect`, `AlwaysGood` | `TypeOK`, `LastGoodStays` are invariant |

The manager's proofs are in two modules. `ReverseTunnelManagerQueueProofs` has
what a step keeps when nothing needs to be counted. It sorts the actions into
five kinds (lemma `Kinds`): a purge of one queue (`Purging`), a wake-up of a
listener's sleepers (`Broadcasting`), one client or one handler moving on by
itself (`ClientMoves`, `HandlerMoves`), and the rest, which touch no queue and no
connection (`Rests`). `ReverseTunnelManagerProofs` adds the arguments that count
and draws the theorems.

Counting. `ActiveCountsHandlers` is not inductive alone: a handler must name
an allocated listener, and a listener that has not been allocated must have no
count and no handlers, or a new registration would start with a wrong count.
`CountInv` adds these facts (`WaiterReferences`, `HandlerReferences`,
`Allocation`) and the types. Types need that a purged queue is a sequence of
waiters, which `RankBijective` and `PurgedLine` give: ranks number the waiters
that stay without gaps. Most steps keep the set of handlers at work
(`HandlersKept`), and `beginIncoming`, `EndIncoming` and the registration of a
listener change set and count together (`CountStep`).
`ReaperSafe` follows: the reaper's test `active > 0` is exact for a registered
listener.

The queue. `ExclusiveUse` needs to know who may be in a queue at all: a client
that has enqueued and has not been acquired, in the queue of its own listener
(`QueueInv`). `RegisteredIsServed` needs that what a closer or a finished accept
loop works on is out of the map (`ServedInv`). `NoLostWakeup` needs `WakeInv`:
besides the sleepers' own condition, that a queue never exceeds its capacity and
that a waiter in it is done only when its own goroutine is about to purge or the
listener has quit; without that a purge could find room nobody was woken for.
For a queue a step leaves it alone (`Quiet`), finishes one waiter (`Finishes`),
purges (`Purges`), or appends or takes and wakes everyone (`Rouses`).

Connections in use. `UseInv` follows a connection from its arrival: while its
listener has not quit, a client in the queue or in a handler's hands is usable,
that is, open and not done, unless its own `HandleClient` is in the course of a
timeout. Without an idle timeout there is none, which gives `UsedStaysOpen`. With
one, the step that closes a connection in use is `handleWaitTimeout`'s
`finish(true)` and no other (`TimeoutClosesOnly`): the race that
`rtm_timeout_race` shows is the only one of its kind.

The line. What a step does to the purged queue depends on what it does to queue
and `done`: nothing (`LineStays`, a purge included), one waiter done
(`LineLoses`, a `Leave`, or nothing if it was in no queue), an append
(`LineGains`, a `Park`) or a take (`LineServes`, a `Give` of the head). The
argument is about `Keep`, the part of a sequence at a set of positions, which is
what `Purged` builds: one position less is one client less, in the same order
(`RankRemoved`, `KeepLess`). `PoolStep` goes through the actions.
The run of `IsPool` has no idle timeout; with one the theorem stands for it.

The reverse UDP sessions. `EntryIsOwn` and the two properties of the timers are
inductive with the types and `Allocation` (nothing happens to a session before it
is allocated). `DrainedAtEof` needs in addition that a reader that has seen EOF has
seen the channel closed (`EofMeansClosed`): from then on `push`, which tests the flag
under the lock the channel was closed under, adds nothing, whenever the loop looked
the session up.

The tunnel. `IsDuplex` needs to know what is under way: the pieces on a wire are
consecutive, begin after what was read from it, and, while messages get through at
all, end with the last piece passed on (`InOrder`). `TunnelOrderProofs` has the
lemmas about appending to, taking from and cutting such a wire, and the round
trip of lengths that makes a piece that is read the one that was sent; that its
length is within the limit makes `ReadMessage` take it. `PassingInv` relates what was
read to what was written on: all of it but the piece in hand, and but the last one
when its `Write` fails, which cannot happen before the end while the network has not
failed. `Phases` says
how far the other parts can be for each state of client and server;
`FrameInv` is `FrameComesFirst` with what holds before the frame is written.
Steps that only copy keep the types if they keep those of `CopyTypes`.
`TunnelProofs` shows `InductiveInvariant` preserved by every action, and each
step a step of `Duplex` or a stutter.

Complete delivery. `DeliveryInv` holds of a WebSocket while the network has not
failed (`Undisturbed`, which is never regained once lost: `StaysDisturbed`). It
has three parts. `Sides`: an end keeps its side of the transport and its local
connection open until both of its goroutines have ended. `ByesFrom`: `up` stops
only after it has passed on all that the application sent, or after `down` has
stopped it, and its close message is behind all data. `EndingOf`: when `down` ends,
all that one of the two applications sent has been read at the other end, or the other end gave up
before it copied. The last part is what has to be argued (`WhyDownEnds`): `down`
ends by a close message, or by the end of a stream whose other side was closed
after both goroutines there had ended. In either case the other `up` had stopped
after its last piece, because its application had finished or because the `down`
beside it had ended before, for which the same holds already. `CompleteDelivery` is the case in which only one
application has finished, with `PassingInv` for what was read and is now written.

UDP. That a mapped session is alive rests on the fact that it was dialed for the
source it is mapped to: the reader that ends removes the entry of its own
source, so its session is no longer mapped, whoever else loses an entry by it
(that other session is what `udp_dropped` is about).

The pool. Ownership is inductive with the types; that `Close` is complete needs
`DrainsLast`, the order of `wg.Wait` and the drain. Counting the channel uses
the finite-set theorems.

The reloader. What a `Reload` has read was on disk, and what it is about to
store matched (`ReadFromDisk`); files only move on.

Only model-checked: liveness (`IdleListenerReaped`, `QuitDrains`,
`SessionsReclaimed`, `HandlersReturn`, `EndSpreads`, `LossNoticed`, `ClosedSessionEnds`,
`CloseTerminates`, `KeptFull`, `PollPickedUp`, `SignalPickedUp`), since fairness
and ENABLED are out of TLAPS's reach. Every safety property of the runs that
hold has a theorem.

## 5. What is not modelled

Formatting and parsing of headers, URLs and tokens, TLS itself, system calls,
configuration and the command line; in `PROJECT.json` each part has its reason.
Time is qualitative throughout: that something happens within a number of
seconds is not stated, and the delay of `StartReverseTunnel` between two turns is
left out. The restrictions and the parsing of tokens are sequential decisions over
their arguments, without state or order of events; `Tunnel` takes either outcome.
The gorilla variants of the transport and the pipes have the shape of the modelled
ones, but what the library does with two writers at once is not stated in the
repository. Bytes of handshakes, PROXY headers and masking (the key is zero) are
data no property tells apart. A modification time that does
not grow with a replacement is outside `CertReloader`.
