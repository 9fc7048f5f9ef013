# Verification of wanopt-proxy

TLA+ models of the concurrent parts of wanopt-proxy, TLC runs that check them on small
instances, and TLAPS proofs of the properties that matter most for every instance.

## 1. The system

An application talks SOCKS5 or HTTP to the *client*, which carries each connection as one stream
of an authenticated QUIC tunnel to the *server*, which dials the destination. UDP travels as QUIC
datagrams. Paths are below `src/`.

| Part | Code | State | Operations |
|---|---|---|---|
| Tunnel server | `internal/server/server.go`, `server/credentials.go`, `internal/tunnel/credentials.go`, `tunnel/auth.go` | `states`, `slots`, the credential snapshot, per connection `authKey`, `authed`, `authTimer` | `Serve`, `handleConn`, `handleControl`, `Authenticate`, `Update`, `ReloadCredentials`, `revokeUnauthorized`, `closeConnections` |
| Proxy streams | `internal/server/server.go` | `active`, `codecs`, per connection `streams` | `serveHTTP`, `handleProxy` |
| Admission | `internal/admission/budget.go` | `slots` | `TryAcquire`, `Release` |
| UDP NAT | `internal/server/udp.go` | `flows`, `pending`, `tokens`, two queues, `closed` | `forward`, `packetWorker`, `worker`, `send`, `write`, `pumpReplies`, `close`, `serveDatagrams` |
| Tunnel client | `internal/client/client.go` | `live`, `ready`, `stopped`, budgets, `udpRoutes` | `Run`, `setConn`, `clearConn`, `getConn`, `OpenTCP`, `Stream.Close`, `NewUDPSession`, `dispatchDatagrams` |
| Policy and dialer | `internal/acl/acl.go` | lookup slots | `Allowed`, `Resolve`, `DialContext` |
| Relay | `internal/proxy/proxy.go`, `server.go` (`pipe`), `tunnel/stream.go` | two copiers on each side, six half-connections | `relay`, `pipe`, `Abort`, `Stream.Close` |
| Block codec | `internal/compress/compress.go` | misses, skip window | `CopyObserved`, `Decopy` |
| Compressed connection | `internal/proxy/compressed_conn.go` | pipe, EOF flag | two workers, `Read`, `Close` |
| HTTP requests | `internal/proxy/http.go` | per request the body's `closed`, `eof` and read deadline | `httpHandler`, `ModifyResponse`, `rejectHTTP`, `progressBody` |
| HTTP transport | `internal/proxy/http.go` | list of pooled streams, `closing` | dial function, `closeAll` |
| Listeners | `internal/proxy/{proxy,http,socks5}.go` | slots, table of connections | `track`, `serveSOCKS`, `serveHTTP`, `handleSOCKS`, `closeConnections` |
| SOCKS connections | `internal/proxy/socks5.go` | what became of the request | `handleSOCKS`, `socksConnect` |
| SOCKS UDP | `internal/proxy/socks_udp.go` | the pinned source | set-up, reader, writer, watcher, join |
| Opening a stream | `internal/client/client.go`, `tunnel/stream.go` | deadline and context callbacks of the stream | `openTunnelStream`, `OpenTCP`, `BindContext` |
| Heartbeat | `client.go` (`runHeartbeat`), `server.go` (`handleControl`) | ticker and deadlines of both ends | ping, pong, timeouts |
| Wire protocol | `internal/protocol/{address,frame}.go` | none | `Validate`, `Encode`, `ReadAddress`, `EncodeDatagram`, `DecodeDatagram`, stream request |
| Configuration | `internal/config/{config,rotation}.go` | none | `LoadServer`, `LoadClient`, `SameRuntimeSettings` |
| Rotation | `cmd/server/{main,reload}.go`, `tunnel/{tls,credentials}.go` | signal channel, files, credential snapshot, pins of the clients | `watchCredentials`, `applyCredentials`, `safefile.Read`, `LoadOrCreateCert`, the pin check |
| Not modelled | `congestion.go`, `metrics`, `decoy`, most of `cmd`, `tools` | see section 7 | |

How they interact: `Serve` accepts a connection and runs `handleConn`, which owns a UDP NAT and
lets the HTTP/3 library call `serveHTTP` per stream. The control stream authenticates the
connection; proxy streams and datagrams are admitted by `authed`. `handleProxy` dials through the
resolver and ends in `pipe`. On the other side `Run` keeps one tunnel alive, `OpenTCP` opens
streams on it for the listeners, and `relay` copies between the application and the stream.

What is hard about it, and what must hold:

- *Key rotation* races with handshakes that matched the old keys. After `ReloadCredentials`
  returns no session of a removed key is open; a key that merely expires has no event and is
  found by a one-second watcher.
- *Shutdown* takes a snapshot of a table into which an accepted connection may not have been
  entered yet. `Serve` must still return with every worker joined.
- *Leases* (streams, codecs, connection slots, pending calls, lookups) are taken and given back
  on many paths, some of them racing. Each must come back exactly once.
- *The UDP NAT* unlocks its table while it dials. Limit, gauge, and socket ownership must survive
  that and a concurrent `close`; established flows must not wait for dials.
- *Waiting for a tunnel* must not miss the notification of the tunnel that comes up meanwhile.
- *Half-closes* cross two relays. A clean end of stream must mean that everything arrived, and
  failures must unblock every copier.
- *An HTTP request* is cut short in many ways: its context ends while its stream is handed over, its
  body is closed twice while a read of it is blocked, its stream ends in the middle of the response.
- *Rotation* is a procedure of many steps by people. Reloads, slips and signals fall between them,
  and a client must not be left without a credential that the server takes.
- *Time*: two ends watch each other by timeouts of their own, and a bucket is refilled only when it
  is asked.
- *The dialer* must connect only to what the policy permits, and the race of two address
  families must not leak the loser.

`PROJECT.json` lists the hazards with their lines and the properties that cover them.

## 2. Modules

| Module | Models | Abstraction |
|---|---|---|
| `TunnelServer` | accept, handshake, rotation, watcher, shutdown | a proof is the key it was made with; a connection is open or closed; time is a bounded counter |
| `Session` | abstract life of a connection: opens, becomes ready, closes, retires; keys rotate | specification that `TunnelServer` implements and `ProxyStreams` builds on |
| `ProxyStreams` | `serveHTTP` and `handleProxy` over the connections of `Session` | requests, replies and dials succeed or fail |
| `Budget` | what `admission.Budget` promises | specification that three modules' leases and slots refine |
| `UdpNat` | the NAT of one connection | datagrams are their flow key; time refills whole tokens |
| `TokenBucket` | the bucket of the NAT by the clock | a tick is the unit; an observer is filled at every tick |
| `Heartbeat` | ping loop of client and server by the clock, from the reply of the authentication on | goroutines take no time; a byte takes up to `Delay` or never arrives |
| `Timers` | `TokenBucket` and `Heartbeat` under one clock | |
| `TunnelClient` | `Run`, `OpenTCP`, streams, UDP sessions | dial and authentication are one step |
| `StreamOpen` | `openTunnelStream`, end of `OpenTCP`, `BindContext` | each operation succeeds or fails |
| `Resolver` | policy, lookup, dial race | hosts, networks and ports are sets |
| `Relay` | application - client relay - tunnel - server relay - destination | a byte is a count; a half is open, ended or cut |
| `CompressedConn` | codec workers under an HTTP connection | frames are counted |
| `RequestBody` | `progressBody` | a deadline is none, armed or past |
| `HttpExchange` | one request: handler, `StreamOpen`, `CompressedConn`, `RequestBody` | `ReverseProxy` and `http.Transport` are external |
| `BlockCodec` | framing, choice of raw or DEFLATE, back-off | DEFLATE is the length of its output |
| `HttpTransport` | pooled dials and `closeAll` | `http.Transport` is external |
| `LocalProxy` | both listeners, their shared table, and `HttpTransport` | `http.Server` is external |
| `Protocol` | addresses, envelopes and requests as byte sequences | a name has letters, dots, dashes and one bad character |
| `SocksUdp` | one UDP association | a datagram's header is valid or not |
| `SocksConn` | one SOCKS connection: `Relay`, `BlockCodec` or `SocksUdp`, with the `Protocol` of its datagrams | the handshake and the request are one step |
| `Config` | what both programs accept, fill in and make of it | numbers are exact, texts are absent, bad or valid; names of files are joined to an absolute directory |
| `Rotation` | reload, pin check and authentication under an operator, with `Config` | a certificate is its name; time passes in days |
| `MCResolver` | policies and answers for TLC | |
| `StreamProofs` | theorems about `ProxyStreams` and `Timers` (with `TokenBucket` and `Heartbeat`) | |
| `WorkerProofs` | theorems about `SocksConn` and its parts `Relay`, `BlockCodec`, `SocksUdp` and `Protocol` | |
| `TunnelProofs` | theorems about `Config`, `Rotation` and `HttpExchange` | |
| other `*Proofs` | theorems about the module they are named after | |

An action is one step between two accesses to shared state: what happens under one lock, one
channel operation, or one call that may block. A variable is named after the field it stands for
(its comment says which), an action after the function or the step of it. Steps that change
nothing (a refused accept, a 403, 409 or 503 answer, a dropped datagram) appear only where a
process has to go on from them. Definitions whose comment starts with *Mutant of* are variants
of the next definition with a plausible bug; nothing uses them in the specification.

### Composition

`ProxyStreams` takes its connections from `Session` (`Conn == INSTANCE Session`), and
`TunnelServer` is shown to implement `Session` (`ImplementsSession`, proved), so that what
`ProxyStreams` shows holds of streams on the connections of `TunnelServer`. `ProxyStreams` and
`TunnelClient` are shown to use each of their leases as `Budget` describes (`UsesBudgets`, proved),
and so is `Resolver` with its lookup slots (in `DialEnds`, and proved as `LookupSlots`). That the
counters then equal the number of holders is proved in each of the three.

`HttpExchange` joins three modules along one request: the body is read only once `StreamOpen` has
handed the stream over, `CompressedConn` runs on that stream, and the handler reacts to all of them.
`SocksConn` runs what a SOCKS request asks for, one of three modules that share no variable; `Parts`
proves that it implements each of them, so that their theorems hold of it.
`LocalProxy` holds the pool of `HttpTransport`, which the HTTP listener closes before it returns.
`Rotation` runs the reload on the files that `Config` accepts. `Timers` gives two modules one clock;
the server's end of the heartbeat ends the flows that ask the bucket.

## 3. Runs

All instances are small enough to be explored completely. A run named like a module has that
module's constants in the `.cfg` of its name; `Resolver` runs through its MC module. The last two runs
check what the code's own comment or document says and does not hold (section 6).

| Run | Instance | Shows |
|---|---|---|
| `TunnelServer` | one connection, two keys, two instants, cancellation, fairness | `NoRemovedKeySession`, `ReadyBeforeReply`, `ImplementsSession`; `ShutdownCompletes`, `UnacceptedExpelled` |
| `ProxyStreams` | two connections, three streams, two leases, one slot per connection, one codec, fairness | `HandlerOwns`, `UsesBudgets`; `ClosedRetires` |
| `UdpNat` | three keys, one socket, two workers, two flows allowed, queues of one, fairness | `TableExact` (limit, gauge, one dial per key), `SocketOwned`, `NothingBeforeAuth`; `ServedOrClosed` |
| `Timers` | two tokens per second, three ticks per second, six pairs of idle timeouts, delays up to two ticks | `RateExact`, `DetectorExact` |
| `TunnelClient` | two callers, two tunnels, two sessions (one allowed), one lease each, fairness | `NoLostWakeup`, `UsesBudgets`, `NoSessionOutlivesRun`; `EndsSettle` |
| `Resolver` | two calls, one lookup slot, eight policies, TCP and UDP, fairness | `OnlyPermittedDialled`, `ConnectionOwned`; `DialEnds` |
| `HttpExchange` | one request, one frame, fairness | `CleanEndKept`, `StreamWhole`, `UploadSettled`; `ExchangeEnds` |
| `LocalProxy` | two connections, two slots, one pooled dial, fairness | `SlotsExact`, `ReturnLeavesNothing`; `ListenersReturn` |
| `SocksConn` | fairness; a relay of two bytes up, one down, windows of one; block lengths and encodings at every threshold; two source ports, one reply; names up to 255 bytes, payloads up to 851, session ids of one to ten bytes | `CleanEndIsComplete`, `OnlyFaultsCut`, `FramesDecode`, `DatagramsExact`, `BacksOff`, `SourcePinned`; `EndReaches`, `RelaysReturn`, `AssociationEnds` |
| `Rotation` | two clients, overlaps of up to two days, two days, two kinds of slip, fairness; pairs of limits at and beside their edges | `LoadedIsSound`, `NoLockout`; `SignalApplied` |
| `FalseEOF` | `HttpExchange`, without fairness | a violation of `NoFalseEOF` |
| `EmptyPair` | `Rotation`, without fairness | a violation of `InvalidPairRejected` |

Every property is preceded by a comment that states it, and each one that holds fails when one mapped
definition is replaced by its mutant (`mutants` in `PROJECT.json`). Each `TypeOK` is a conjunct of one
of its module's invariants or proved. `LoadedIsSound` and `DatagramsExact` quantify over inputs of pure
functions and are evaluated before the first step of what they are about; the proofs take every input.
`OpenIsReachable` of `TunnelServer` is proved; no run checks it on its own.

### Why the bounds are enough

- One connection races with scans, the watcher, the timer and shutdown; two keys are needed for one
  to be removed, two instants for one to expire. The proofs hold for any number of connections, keys
  and instants.
- Three streams on two connections are the least with which each of the three limits refuses
  somebody while the other two still have room.
- Three flow keys with two flows allowed are the least with which both a second dial of one key
  and a dial beyond the limit are possible. Sockets are reused, so that one is enough for flows
  to end and return; a dial that finds none fails, as in the code when it runs out of them.
- Two tunnels are one that dies and one that follows it. Two sessions with one allowed make the
  limit bind.
- Two calls with one slot make a lookup be refused; three answers hold both families with a
  duplicate, one family, and none.
- A window of one with two bytes makes a writer block on a reader that does not read.
- `BlockCodec` takes the real thresholds (32768, 256, 90 %) and block lengths on both sides of
  them; only the skip window is shorter (1024 for 262144), so that it is passed in one block or in a few.
- One frame is enough for the reader of `HttpExchange` to end before, at and after it; `CleanEOF` is
  proved for any number. One dial and two connections let `LocalProxy` close what is being opened and
  what is listed.
- The pairs of idle timeouts in `Timers` are the defaults, short ones on one side and on both, and a
  server's just longer than the client's interval and the delays; and two pairs whose server is too
  impatient for the client, of which only the second half of `DetectorExact` speaks. Three ticks to a
  second make a token take one and a half.
- `Protocol` takes the longest and shortest legal value of each part and one beyond it, so that the
  largest envelope (1119 bytes) is among them.
- Two days are an overlap in force, expired, and asked for one day too early; `RotationLocksNobodyOut`
  holds for any number of days and clients. Every file that
  `LoadServer` refuses has the effect of the slip that is modelled. The decoys of `LoadedIsSound` have
  a relative, an absolute and no directory.

Deadlock is checked for `TunnelServer`, `ProxyStreams`, `TunnelClient`, `Timers` and `Rotation`. The
other systems come to an end in normal use (a call returned, a connection closed, a transfer done);
their liveness properties say that they end where they should.

### Fairness

Each `Fairness` is preceded by its justification. In short: a goroutine that can run does run (weak
fairness, one condition per goroutine the property depends on); timers and deadlines fire; a goroutine
that waits for a mutex, or for one case of a `select` of which others are ready again and again, gets
its turn (strong fairness: Go's mutexes do not starve a waiter and `select` picks at random). Peers owe
nothing: they need not connect, authenticate, send, read or close, with one exception. In `Relay` the
endpoints read what arrives, and in `HttpExchange` the transport keeps reading; otherwise nothing bounds
a transfer and the code does not claim to. In `HttpExchange` a read of the body owes nothing before its
deadline has passed. Where every step of a group is taken finitely often (`Runs` of `HttpExchange`,
`Copies` of `SocksConn`) one condition on their disjunction stands for one on each. `SocksConn` owes
nothing before its request. `Rotation` assumes only that the watcher runs.

## 4. Proofs

| Theorem | Statement |
|---|---|
| `TunnelServerProofs!TypeCorrect` | `Spec => []TypeOK` |
| `TunnelServerProofs!Revocation` | `Spec => []NoRemovedKeySession` |
| `TunnelServerProofs!Readiness` | `Spec => []ReadyBeforeReply` |
| `TunnelServerProofs!Reachability` | `Spec => []OpenIsReachable` |
| `TunnelServerProofs!Refinement` | `Spec => ImplementsSession` |
| `StreamProofs!Leases`, `Ownership` | `Spec => UsesBudgets`, `[]HandlerOwns` |
| `TunnelClientProofs!Leases`, `Wakeups`, `SessionsEnd` | `Spec => UsesBudgets`, `[]NoLostWakeup`, `[]NoSessionOutlivesRun` |
| `TunnelClientProofs!Counting` | `Spec => []Accounting` for each of its three budgets |
| `UdpNatProofs!Table`, `Sockets`, `Gated` | `Spec => []TableExact`, `[]SocketOwned`, `[]NothingBeforeAuth` |
| `ResolverProofs!Approval`, `Ownership` | `Spec => []OnlyPermittedDialled`, `[]ConnectionOwned` |
| `ResolverProofs!LookupSlots` | `Spec => Lookups!Spec /\ []Lookups!Accounting` |
| `LocalProxyProofs!Slots`, `Shutdown` | `Spec => []SlotsExact`, `[]ReturnLeavesNothing` |
| `TunnelProofs!CleanEOF`, `HandOver`, `Uploads` | `ExchangeSpec => []CleanEndKept`, `[]StreamWhole`, `[]UploadSettled` |
| `WorkerProofs!Parts` | `SocksSpec => RelaySpec /\ CodecSpec /\ AssociationSpec` |
| `WorkerProofs!Decoding`, `BackOff` | `CodecSpec => []FramesDecode`, `BacksOff` |
| `WorkerProofs!Pinning` | `AssociationSpec => SourcePinned` |
| `StreamProofs!Exactness`, `Detection` | `BucketSpec => []RateExact`, `TimersSpec => []DetectorExact` |
| `WorkerProofs!CleanEnd`, `FaultsCut` | `RelaySpec => []CleanEndIsComplete`, `[]OnlyFaultsCut` |
| `TunnelProofs!ServerFilesSound`, `ClientFilesSound` | `ServerSound`, `ClientSound` of every file, on every day, for every longest overlap |
| `TunnelProofs!RotationLocksNobodyOut`, `RotationLoadsSound` | `RotationSpec => []NoLockout`, `[]LoadedIsSound` |
| `WorkerProofs!DecodersAgree` | `ReadAddress(b) = DecodeAddress(b)` for every sequence of bytes |
| `WorkerProofs!EnvelopeRoundTrip`, `SocksRoundTrip`, `RequestRoundTrip` | the decoder returns what was encoded, or fails, for every address, id and payload |
| `WorkerProofs!CutEnvelopeRefused` | a proper beginning of an envelope, without its payload, is refused |
| `WorkerProofs!DatagramForms` | `AssociationSpec => []DatagramsExact` |

The assumptions are those on the constants, named in the module that declares them: limits are positive,
sets that are counted (streams, callers, flow keys, dials, connections) are finite, the "none" values
are not members of the sets they stand beside, a block fits 16 bits (`CodecAssumption`), `TokenBucket`
tells lags of up to a second apart (`BucketAssumption`), days are natural numbers
(`RotationAssumption`), and a lookup answers with a list of addresses (`ResolverAssumption`).
`TimersAssumption` says that delays are natural numbers and shorter than `HandshakeTimeout`, and idle
timeouts at least three ticks (the code asks for five seconds); what a path must leave room for is a
condition of the property (`Tolerates`). Everything else, the sets of connections, keys, tunnels,
sessions, workers, policies and answers and the size of every limit, is arbitrary.

**Tunnel server.** `NoRemovedKeySession` is not inductive: it speaks of moments when no reload is
running. `IInv` adds

- `HandshakeOrder`: which of key, readiness, timer and reply exist at each step of the control
  handler;
- `OpenIsReachable`: an open connection is newly accepted or in the table, and has its control
  handler;
- `ScanDiscipline`: who holds the mutex and what the `todo` and `doomed` sets of a scan contain;
- `RemovedKeyPending`: an open connection that has passed the recheck and has a removed key is still
  ahead of the running reload scan, or already doomed by it.

The argument turns on the order in the `ready` callback: the handler stores its key *before* it
checks that the key is still accepted. A reload publishes its snapshot before it scans, so either
the check sees the new snapshot and fails, or the scan sees the stored key. `NextIInv` has one step
per action. `Refinement` maps each action to a step or a stutter of `Session`, in lemmas by kind of
step.

**Block codec.** `CodecInv` adds to the properties that with three misses the bytes still to be skipped and
the bytes passed since the last probe make up the window, which is what `BackOff` needs. `FitsHeader`,
`RawDecodes` and `FlateDecodes` say of the operators that a length below 2^16 survives its two bytes
and that each kind of frame decodes.

**Token bucket.** The invariant is `RateExact` itself: what the lazy bucket would hold after a refill
and what the ideal leaky bucket has left sum to its capacity. `SecondFills` says why a bounded lag
loses nothing.

**HTTP exchange.** The three components share no variable, so each has an inductive invariant of its
own. `Reasons` lists why the pipe of the compressed connection may be closed, in the two steps of
`abort`: the decoder's clean end, which is stored in `readEOF` before, a failure, or `Close`. `OpenInv`,
that only a done context resets the stream and that both callbacks are settled before the context is
asked for the last time; `BodyInv`, that a body closed during a read left an expired deadline.
`ExchangeKeeps` shows a step of the composition to be a step of one of them.

**Proxy streams.** `Struct` ties what a handler holds to its progress, so each step takes or gives
back at most one lease of each kind (`ActiveStep`, `CodecStep`, `SlotStep`), which is `Leases`.
`Ownership` adds that the counters equal the number of holders.

**Tunnel client.** `Captured` says what it means that a caller's ready channel is still open: neither
`setConn` nor the end of `Run` has come since it was read. `Ending` says that `stopped` is set before
the sessions are stopped, and that an open session is registered. `Counting` equates each
counter with the number of its holders (`ActiveCounted`, `CodecsCounted`, `PendingCounted`), by the
cardinality facts of `FiniteSetTheorems`.

**UDP NAT.** `Keys` gives each dialling worker a pending key of its own, `Objects` each socket one
owner, `Gate` says that nothing happens before authentication and `Joined` what close has waited for;
`Counts` (on top of them) bounds flows and pending dials and equates the gauge, by `FiniteSetTheorems`.

**Resolver.** The loops of `Resolve` and `DialContext` over addresses are the operator `Keep`, a
recursive function. `KeepFacts` says what it computes for every list: a list without duplicates of
exactly the wanted addresses. Its proof is an induction, done over sets of naturals (`SetInduction`,
from the least element of a non-empty set), since a theorem that takes a predicate cannot be used;
`KeepExists` shows that the recursion defines a function. `DialInv` then ties the branches of a race
to the progress of the call: nothing is dialled before the lookup, a branch that dials has an address
left, and a call that returned is done, so a branch still connected will see the context and close.

**Listeners.** `Pool` says of the transport that once `closeAll` has begun no dial registers a stream, so
that the list it copied holds everything that is left to close, and that it waits for the dials under
way. `Table` says which connections are tracked, that a listener hands over one connection at a time
and leaves its accept loop only when it has, so that its sweep misses none. Both counters are equated
with the sets they count.

**UDP association.** Reader and writer use the source without a lock. `Association` says why it works:
while the reader checks a datagram, what it loaded is still the source, because nobody else stores it;
and `done` and `remaining` together account for the workers that ended, so the channel never blocks.

**Heartbeat.** `DetectorExact` speaks of timers that expired; `BeatInv` says how much is left of each.
While the path works and is tolerated (`Working`), the client's deadline outlasts the reply it waits
for, the server's deadline, which has been running since that reply was sent, lies beyond the next tick
and the delay of its ping, and the client's beyond the pong that is on its way. Once it is silent
(`Silent`), what is left of a deadline and the length of the silence sum to no more than the timeouts.
`Room` gives the arithmetic of `heartbeatInterval` and `heartbeatTimeout` for every idle timeout.

**Relay.** `Copied`: a copier has sent exactly what it has read, and its output has ended cleanly only if
its input has, and was read to the end. Along a path of two copiers this gives `CleanEndIsComplete`.
`Faultless`: without a fault a relay is aborted only once both of its copiers have passed on an end,
so that the aborts at the end of `relay` and `pipe` cut nothing.

**Configuration.** `ServerFiles` and `ClientFiles` are all records that a YAML file may decode to: any
integer for each number, and texts of any set that holds the defaults. `ServerNumbers` and
`ClientNumbers` say that filling in is idempotent and that a zero in place of any number leaves the
others valid; the one coupling is that fewer streams lower the default of the codecs. `Joins` says that
a joined name is not joined again, `QUICInOrder` gives the order of the windows. `LoadedIsSound`, which
TLC evaluates at the edges of every pair of limits, is an instance.

**Rotation.** `NoLockout` speaks of what is in force; it is inductive only together with what is on its
way there. `RotationInv` therefore says of the file in force, the one a reload has loaded and, unless it
is a slip, the one on the disk that each is `Safe`: the first file, an overlap that no client with the
old key outlives, or the last file once every client has the new key. It says further that nothing older
is asked for once the new key is in force, that the certificate read belongs to the file loaded (`Read`,
`Made`), and that each client has the configuration of a step of the procedure and, while it proves its
key, a key of the snapshot that `Authenticate` loaded. `SlipsRefused` shows that no slip gets past
`LoadServer` and the comparison of settings. The proof has a lemma for the watcher's steps, the
operator's edits, a client's restart, the passing of a day and a client's connection. The number of
clients, the longest overlap and the length of time are arbitrary; the slips and the four steps are
those of the module.

**Addresses and datagrams.** The encoders concatenate parts whose lengths vary, and the decoders cut by
lengths that they read. `FourParts` says where each part of a concatenation lies; `EncodeShape`, that
`Encode` writes a type, a host and two bytes of port; `DecodeFront` and `DecodeCut`, that `DecodeAddress`
takes exactly that from the front of whatever follows, and refuses it when it is cut short.
`AppendForm`, `UvarintFront` and `UvarintCut` say the same of a session id, given by its up to ten digits
at base 128, and `ValidLength` bounds a valid name by 253 bytes, from which it follows that
`MaxUDPDatagramSize` suffices. The round trips hold for every address whose host has the length of
its type, any 16-bit port and any payload; `DatagramForms` derives the run's property from them, and
shows of each name that the run tries why it is valid or not.

Only model-checked: all liveness, also where the safety of the same component is proved. It needs
fairness and `ENABLED`, out of the prover's reach. Every invariant and every action property that a run
checks is also proved.

## 5. Correspondence to the code

`map` in `PROJECT.json` gives the lines of every definition. Points where the model takes a liberty:

- That `ServeQUICConn` joins its handlers, and all of `http.Server`, `http.Transport`, QUIC streams
  and TCP, are external and modelled from how the code uses them.
- `ScanConn` reads `authKey` and evaluates `Accepts` in one step; `authKey` is written once.
- `LocalProxy` takes the snapshot of `closeConnections` and the closing in one step.
- A copier of `Relay` reads and writes a block in one step; `Close` of a TCP connection by a relay is
  a cut, although its peer may see an orderly end.
- `Resolve` takes a free lookup slot or notices the end of its context by choice, as `select` does.
- In `TunnelServer` the credential file watcher (`cmd/server/reload.go`) is the unrestricted caller of
  `Update`; its own steps are in `Rotation`, which in turn takes the scan of open sessions for granted.
- In `UdpNat` time refills the bucket by any whole number of tokens; `TokenBucket` has the clock. The
  rounding of `float64` is abstracted: a token is divided into as many parts as a second into ticks.
- In `Heartbeat` goroutines take no time: it passes only when none has a step to take.
- `HttpExchange` lets the transport close the body and the connection whenever `http.Transport` may; a
  response may be complete by its length at any moment.
- `Protocol` stands for letters, digits and underscores by one byte; which names parse as an IP address
  is decided by one example (`IsIP`).
- `Config` keeps of a text whether it is absent, bad or which valid value it is. The directory of the
  configuration file is absolute, as in the deployments of the repository.
- A Read of a `net.Pipe` looks at its own end, at the other end, and then waits for both; `CompressedConn`
  keeps the outcomes of that, not each look.
- The relay of `SocksConn` counts bytes whether or not they are encoded, and its encoder is followed
  alone.

## 6. Observations

Met on the way, and reflected in how the properties are stated:

- `FalseEOF`: a comment in `compressedHTTPConn.Read` (`internal/proxy/compressed_conn.go:59`) says "Local
  cancellation and malformed frames remain errors, never successful EOF". `abort` (line 50) closes the
  application's end of the pipe, then the bridge. A Read that has found its own end open and then finds
  the bridge closed gets `io.EOF` from `net.Pipe`, and nothing turns it into an error: a stream that
  failed is reported as complete, and so is a response whose length is not given. What does hold
  is `CleanEndKept`: no false end while the stream has not failed, and a clean end is never an error.
- `EmptyPair`: `docs/operations.md:43` says that "invalid key/certificate pairs ... leave the current
  snapshot active". A reload that finds both files of a pair *empty* does not fail: `LoadOrCreateCert`
  (`internal/tunnel/tls.go:74`) tests the contents, not the paths as its comment says, generates a
  self-signed certificate, and `applyCredentials` publishes it. No client verifies that certificate, so
  `NoLockout` has it as its one exception. Completing the files before the config names them, as the
  document asks, avoids it.
- The idle timeouts of the two ends are validated apart (5 to 3600 seconds each). A server with, say, 5
  seconds closes an idle tunnel of a client with the default 60, which pings every 10. That a
  healthy tunnel is kept is therefore stated for pairs that leave room for the delay (`Tolerates`): the
  server's timeout exceeds the client's interval and *two* delays, since it runs from when the reply of
  the authentication is sent and the interval from when it arrives. With one delay TLC finds a first
  ping that comes too late.
- The authentication timer tests `authed` and closes the connection in two steps, so it may close a
  connection that authenticates in between. The client reconnects.
- A session whose key expires stays open until the watcher's next tick; new streams on it are refused
  at once. `UnacceptedExpelled` is therefore a liveness property.
- Once the upload of a stream has ended, an abort by the client does not wake the server's download
  copier while the destination is silent: `pipe` watches the connection, not the stream. `RelaysReturn`
  is stated for a copy that fails at the server and for the end of the tunnel.
- `misses` is not reset when the skip window has passed, so one more failed probe opens it again.
- `closeConnections` of one listener closes the connections of the other one too; both stop together.
- With the default limits the client's `pending` slots (256) cannot run out before `active` (128).

## 7. Not modelled

- *The parsing of SOCKS requests*, `ParseAddress` and `ensurePort`: text and bytes read by one
  goroutine; the address format they end in is in `Protocol`.
- *Commands* (beyond the server's start and signals), *metrics and operations endpoint*, *cover site*,
  *opening of files*, *TLS and QUIC settings* beyond the ones in `Rotation` and `Config`: wiring of
  libraries and I/O. The one gauge with a correctness condition is in `UdpNat`.
- *Cryptography*: a proof matches exactly under the key it was made with.
- *Real time* outside `Timers` and `Rotation`: durations are events that may come at any moment.
- *DEFLATE*, the encoder pool, QUIC flow control beyond a window.
- `UDPSession.Send` (it touches no shared state beyond `getConn`) and the client half of the handshake
  (one step of `TunnelClient`).
- *Benchmark and validation tools*.

## 8. What could follow

`UDPSession.Send` could join `TunnelClient` with `Protocol`, and the client half of `Authenticate` could
join `TunnelClient` with `TunnelServer`. The round trips of `Protocol` could be stated of every rule of
`net.ParseIP` instead of the one example.
