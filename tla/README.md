# A TLA+ model of IRTT

IRTT measures round-trip time, one-way delay and loss with UDP packets that a
client sends at a fixed interval and a server echoes. This directory holds TLA+
modules of its protocol and of the state machines in its client, server and
recorder, the configurations that check them with TLC, and proofs that TLAPS
checks. Line numbers are those of the Go files in `src/`.

## Contents

1. [The system](#the-system)
2. [The modules](#the-modules)
3. [The runs](#the-runs)
4. [Bounds](#bounds)
5. [Fairness](#fairness)
6. [The proofs](#the-proofs)
7. [What the runs found](#what-the-runs-found)
8. [What is not modelled](#what-is-not-modelled)
9. [Plan](#plan)

## The system

| Part | State it keeps | Operations | Talks to |
|---|---|---|---|
| **server** (`server.go`, `irtt_server.go`) | shutdown channel, flag and mutex; its listeners | `ListenAndServe`, `Shutdown` | its listeners' goroutines, a watcher, whoever calls `Shutdown` |
| **server listener** (`server.go`) | socket, `closed` and its mutex, one packet, a `connmgr` of its own | read a packet, dispatch it, reply, shut down | client over UDP; `ListenAndServe` through a channel |
| **server connection** (`sconn.go`, `connmgr` in `server.go`) | token, address, first and last use, token bucket, last sequence number, received count and window | `accept`, `serve`, `serveEcho`, `serveClose`, `expired`, `put`, `get`, `remove`, `removeSomeExpired` | called by its listener only |
| **client connection** (`conn.go`) | socket, connection token | `dial`, `open`, `send`, `receive`, `close` | server over UDP; `open`'s goroutine through a channel |
| **negotiation** (`params.go`, `restrictParams`, `checkParameters`, `validate`) | the test parameters, as asked and as given | restrict, compare, refuse | carried by open request and reply |
| **client run** (`client.go`) | `closed` and its mutex, errors of both goroutines | `Run`, `send`, `receive`, `wait`, `close` | both goroutines share the connection and the recorder |
| **recorder** (`recorder.go`) | round trips in an array or, in stream mode, a ring; counts and statistics | `recordPreSend`, `recordPostSend`, `removeLastRoundTrip`, `recordReceive` | called by both goroutines under its mutex; calls the handler back |
| **result** (`result.go`, `rstats.go`) | loss attribution, percentages, statistics | `newResult` | reads the recorder after the run |
| **timers, averagers, waiters** (`timer.go`, `averager.go`, `waiter.go`) | average timer error; none; none | sleep, correct; time to wait for late replies | called by the send goroutine and `wait` |
| **packets** (`packet.go`, `fbuf.go`, `bytes.go`) | a buffer with fields, their offsets and lengths | add, remove and set fields, stamps, HMAC | used by both ends |
| **times and delays** (`time.go`, `RoundTripData` in `recorder.go`) | a wall and a monotonic value each | difference, midpoint, keeping one clock; round-trip time, one-way delays, variation | stamps in packets; recorder |
| **listen addresses** (`conn.go`, `net.go`) | none | resolve, sort and bind addresses | called once by `ListenAndServe` |
| **globs, fillers, clock sources, events, CLI** | small or none | pure or I/O | — |

### What is hard in it

* **Two goroutines and one socket.** Either goroutine of a run may end first and
  closes the connection under the other; `closedM` and the order of `isClosed` and
  `close` decide whose error is reported. `cconn.receive` closes the socket without
  that lock when the server says so.
* **A goroutine that outlives its caller.** `open` starts a goroutine that writes the
  client's parameters and token, resends its request on every timeout and may return
  while that goroutine is between reading a reply and handing it over.
* **A network that loses, repeats and reorders.** Each copy of an open request makes a
  connection of its own on the server. Windows and counts in replies arrive out of
  order, and the direction of a loss is derived from them.
* **Steps in two halves.** A send is recorded before and after the write; a reply may
  come in between. In stream mode the slot of the packet before may be gone by then.
* **Numbers at their edges.** Sequence numbers are unsigned differences, percentages
  unsigned subtractions, indices walk around a ring, the send times are multiples of
  the interval chosen by a half-way rule.
* **Layout by agreement.** A packet does not say which fields it has. Both ends work that
  out from what they agreed on, in one buffer per listener whose bytes move as fields come and
  go.
* **Clocks that are not one another's.** Four of them in a round trip, and one may be adjusted.
* **Timers that learn.** A timer that compensates its errors sleeps for less than it is asked.
* **Stopping from everywhere.** A signal, the user and each failing listener shut the server down
  at once, while listeners are still starting.
* **Limits that meet each other.** Rate limit, duration limit, timeout and its
  fourth, their graces, and the client's own schedule: each side must keep what the
  other enforces.
* **Expiry by sampling.** Only a few connections are looked at on each open, and one
  that was never used has no time of last use.

### What makes each part correct

* *Server connections*: nobody is answered more than the rate and the duration allow,
  no well-paced request is dropped, a connection changes only by its owner's packets,
  the close flag tells the truth, and expired connections go away.
* *Opening*: a test runs with the parameters the server keeps for the client's own
  token, within the limits of both sides; nothing writes to them afterwards; every
  way out ends, and tells a server whose connection it held, or at least tries to.
* *Client run*: our own close is never reported as an error, a real one is never lost,
  a close packet is written before the socket closes unless writing fails, and `Run` returns.
* *Send schedule*: no more packets than the recorder has room for, and none that the
  server drops, expires or cuts off.
* *Recorder*: a reply is recorded in the round trip of the packet it answers, once, and discarded
  as aged out only when that is gone.
* *Packets*: whatever the packet was used for before, each datagram is read as its sender
  meant it, accepted when the keys agree, and brings its payload back.
* *Delays*: they are the network's, whatever the clocks show.
* *Server's life*: it serves on each address asked for, once, or refuses; it stops altogether
  when told to or when a listener fails, and then `ListenAndServe` returns.
* *Loss*: a packet marked lost on the way down really was received by the server, and
  one marked lost on the way up was not, as long as requests arrive in order.

`PROJECT.json` lists each place where these can go wrong, with the property that
watches it or the reason why none does.

## The modules

```
  SConn ───────┬── Server ── MCServer            Negotiation ─┬─ Session ── MCSession
    │          ├── SendLoop ── TimedLoop ── MCTimedLoop       │
    │          └── Loss                          FieldBuffer ─┴─ Packet ─┐
  RoundTrips ──┼── Loss                                       Delays ────┴─ Exchange ── MCExchange
               └── Recorder                      ListenAddrs ─── Listeners ── MCListeners
  ClientRun                                      Lifecycle ───────┘ (refined by it)
```

`SConn`, `RoundTrips`, `Negotiation`, `FieldBuffer`, `Packet`, `Delays` and `ListenAddrs` have no
state.
They define what the methods of one Go object do to it, as operators on a record, or what
a pure function computes, and other modules give the record a life. Each module with state that has
theorems has them in a module of its own, named after it with `Proofs`.
A definition that says *Faulty variant of X* is not part of the model. It is X with a
mistake somebody could make, kept to show that a property notices.

### SConn and Server

`SConn.tla` is one `sconn`. Times are ticks. The bucket, a `float64` of packets in
the code, is kept in ticks (packets times `MinInterval`), so that one idle tick earns
one unit exactly. `Refill`, `ShortInterval`, `Throttled`, `ExceededDuration`,
`SinceLast`, `Slide` and `Received` are the steps of `serveEcho` in the order of the
code. `sinceLastSeqno` is unsigned (sconn.go:163): the branch for late packets is
never taken, and the model says so by not having it.

`Server.tla` is the goroutine of one listener with its table. One action is the
handling of one packet (`readOneAndReply`), with everything it calls: an open with the
`removeSomeExpired` of its `put`, an echo request with the deletion of an expired
connection in `get` (which is still served once), a close, packets with unknown
tokens or foreign addresses. `out` is the reply sent or the reason for the drop. `Tick`
is the clock.

### Negotiation and Session

`Negotiation.tla` has `restrictParams`, the choice of a filler in `accept`, and
`checkParameters`, each parameter with the rule of the code. `RestrictInterval` keeps
the order of the tests: a fourth of the timeout overrides the minimum interval.
`Invalid` is what even a loose client refuses, `Restricted` what a strict one refuses
as well.

`Session.tla` is the life of a connection: `SendOpen`, `TimeOut`, `Answered`,
`Cancelled` and `GiveUp` are the loop of `open` and its `select`; `Receive`,
`ReceiveFails` and `Parse` the goroutine that reads the reply, writes parameters and
token, and offers its error on an unbuffered channel; `Check`, `Test` and `Close` the rest of
`Run`; `Accept` and `ServeClose` the server. After the last timeout the deferred
`nconn.close` runs before the deferred `close`, so no close packet goes out even if a
token has just been written. The network keeps every packet and may deliver it
never, once or again, in any order. The branch of `accept` for another protocol
version is in the model and cannot be taken, because `restrictParams` has already
overwritten the version; the client's own comparison is what keeps versions apart.
`ConnClose` closes the socket whether or not the close packet could be written: a failing
`setFields` or `send` (conn.go:338, 347) returns, and the deferred `nconn.close` runs and its
error replaces that one. `unsent` has the tokens of close packets that were not written.
The encoding of parameters leaves out zeros, which the reader puts back: for the
values here it keeps what it is given. A damaged packet is a `ReceiveFails`.

### ClientRun

`ClientRun.tla` takes over where `Session` has its step `Test`. It has both goroutines
as fine as Go may interleave them: the channel on which `send` starts `receive`, each
read, write and sleep, the two halves of `cconn.close` (write a close packet, close the
socket in any case), taking and leaving `closedM`, asking `isClosed`, `wg.Wait`, and the context,
which a signal cancels. `told` has what became of the close packets that were tried: written, or
failed. `raised` is what `send()` and `receive()` returned, `reported`
what is left of it in the `Result`.

### SendLoop and TimedLoop

`SendLoop.tla` is the schedule of `Client.send`, in ticks: `Send`, `Prepare` (the next
payload, the choice of the next slot, the break at the end) and `Sleep`. The Timer may
wake early, as one that compensates its errors does, or late. Requests reach the
server after a delay that varies or not at all, and `Serve` asks of the same `SConn`
operators as `Server` what becomes of them. The module assumes of its constants what
`Session` shows of the parameters a test gets (`WithinLimits`).

`TimedLoop.tla` puts the program's Timers in the place of `Sleep`: `SimpleSleep`,
`CompSleep`, `HybridSleep`, `BusySleep`, with the Averagers a compensating one learns from
(`PushWindow`, `PushExponential`, `PushCumulative`, `Average`), and `OtherSleep` for a Timer of somebody
else's. The system adds a latency to each sleep; a `CompTimer` divides the sleep by the average
error factor before, and learns from it after. Factors are numbers in `Scale`-ths. `Schedule` is
`SendLoop` with wake-ups up to `HalfInterval` early, half an interval rounded up, and `KeepsSchedule` says
that this is all a Timer of the program does as long as latency stays within `1/LatencyShare` of a sleep.

### RoundTrips and Recorder

`RoundTrips.tla` is the `Recorder` as a record: the slice that is a ring once it is
full, `sentIndex`, the prior sequence numbers and the counts. Of a round trip it keeps
which send it was made for and whether it was answered. `Recorder.tla` lets a send
loop and replies use it: `recordPreSend`, the write, `recordPostSend`, a failed send
that takes its round trip back, and replies that are late, repeated or aged out, each
with the callback of the handler. `AgedOutMeansOverwritten` names the one reply that is discarded though its
round trip is there: that to the first packet, after a failed send that was taken back. `HandlersGivenTheirs` speaks of
a buffer that does not wrap: in a ring that has wrapped, the code does hand over the wrong round trip (see below).

### Loss

`Loss.tla` follows the received window from `serveEcho` through `recordReceive` to the
nested loops of `newResult`, over a network that loses, repeats and reorders both ways.
`Lost` is the loops as written; `Attribution` is what they mean. `UpstreamLoss` and
`DownstreamLoss` are the differences of result.go:154-162 modulo the width of `uint`.

### FieldBuffer, Packet, Delays and Exchange

`FieldBuffer.tla` is `fbuf`: an array of fixed capacity, the fields that are set in it, the
length and the target length. A byte carries the value it was encoded from and its place in the
encoding, so bytes that were shifted wrongly, overlap or were left over read as `Garbled` or as something
else. `Grow` is `setFieldLen` of a field that is added: the bytes after it move.
Its shrinking is left out, because `remove` is never called on a field that is set: a packet
keeps its key for life, and statistics and stamps are removed only from packets that have been
given the fields of a request.

`Packet.tla` is `packet`: flags, token, sequence number, statistics, stamps, key, the checks of
a packet that was read, and the parameters in an open packet. `PutAll` puts statistics and stamps in the
order of `serveEcho` and `setTimestamp`, one `PutGiven` each. `ParseParams` says what the loop of `parseParams`
comes to: of each parameter the last one counts. A hash is the pair of the key and the
hashed bytes. `Delays.tla` has `Time` with its two clocks and the
delays `RoundTripData` computes.

`Exchange.tla` lets clients and one listener talk in these packets. `SendOpen`, `HearOpen`, `SendEcho`,
`HearReply`, `SendClose` are the client's, which sends one packet over and over and receives
into another; `Accept`, `Echo`, `Close`, `Drop` the listener's, which turns the packet it read into its reply in
place, field by field in the order of `serveEcho`. Every datagram keeps, beside its bytes, what its sender
meant by it; the properties compare that with what is read. `Tick` is true time, `Adjust` somebody
setting the server's wall clock.

### ListenAddrs, Listeners and Lifecycle

`ListenAddrs.tla` goes from bind addresses to listen addresses: a host, nothing, or a pattern of
interface names, resolved, sorted, each once and checked. The comparison of conn.go:636 is not an
order (it is true both ways round of two addresses of which one has the smaller IP and the other the smaller
port). So what the sort makes of a list depends on the algorithm: `Sortings` is one list, that of the insertion
sort which Go's `sort.Slice` does on up to twelve elements (`InsertionSorted`), and any rearrangement of a longer
one. `ResolveListenAddrs` is the set of what may come of it. `BindAddrs` is
the set of what may be configured; that an address they resolve to has an IP, a port and a zone is
what `ListenersAssumption` asks of a configuration.

`Listeners.tla` is `ListenAndServe` with its loop of `listen` calls, the goroutine of each
listener with its deferred calls in their order, the watcher of the shutdown channel, and the callers of
`Shutdown`, `ListenAndServe` among them. `errC` is unbuffered: `Report` takes both sides.
`closedMtx` is held by the watcher between closing a socket and setting the flag
(`Held`). `SetUpFails` has two causes: an option that the system refuses, and a TTL that is to be set on a
socket the watcher has closed. What a listener does with packets is in `Server`.

`Lifecycle.tla` is what the caller of `ListenAndServe` is promised, in six actions: refuse, or serve
everywhere, then stop altogether. `Listeners` implements it: `PhaseSeen` and `Up` say which state
of it a state of the server is.

## The runs

| Run | Asks | Shows |
|---|---|---|
| `Server` | two clients, two tokens, packets of either with any token, at any spacing over five ticks | `RateBound`, `LifetimeBound`: packets answered are bounded by the burst, the rate and the duration; `NoConformingDrop`: a dropped request came too soon after the one before; `CloseFlagTruthful`; `OnlyOwnerOrExpiry`; `ExpiredRemoved` (liveness) |
| `Session` | six requests, eight servers, lossy network, resends, loose and strict, with and without test | `ParamsAgree`, `StrictGetsAsked`, `WithinLimits`, `LooseRefusals`, `ToldAtEnd`, `Settled`; `RunEnds` (liveness) |
| `ClientRun` | every interleaving of a run of two packets | `OwnCloseNotReported`, `FirstErrorKept`, `ToldBeforeClosed`; `RunReturns` (liveness) |
| `TimedLoop` | a whole test of six intervals under each Timer and Averager, with slow sends, jitter and a lost request | `FitsBuffer`, `PacedServed`, `StaysOpen`, `NotCutOff`; `KeepsSchedule` (refinement of `SendLoop`) |
| `Recorder` | seven packets through a ring of three, and three into a buffer of three | `ReplyFindsRoundTrip`, `AgedOutMeansOverwritten`, `CountedOnce`, `HandlersGivenTheirs` |
| `LossWindow` | five packets, a window of three | `WindowSound`, `LoopAgrees`, `DownTruthful`, `UpTruthfulInOrder` |
| `Exchange` | eight scenarios of keys, stamps, clocks, statistics, lengths and fillers | `KeysDecide`, `ReadAsMeant`, `PayloadReturned`, `AgreedTerms`, `DelaysTrue` |
| `Listeners` | two listeners, two callers of `Shutdown`, failures anywhere; thousands of bind configurations | `ClosedOnce`, `ErrorsReported`, `ReturnMeansStopped`, `ListensWhereAsked`; `KeepsLifecycle` (refinement of `Lifecycle`, with its liveness) |
| `ServerIdle` | a connection nobody uses | finds `IdleConnectionsClosed` violated |
| `LossPercentages` | duplicates | finds `PercentagesAsDocumented` violated |
| `TimedOverflow` | the default Timer, one long latency | finds `FitsBuffer` violated |
| `MidpointClock` | a client that wants the monotonic clock of a server that allows one stamp | finds `ReadAsMeant` violated |

A module is run directly where its
configuration needs only numbers and model values; the `MC` modules define
sets for their configurations. The modules with state have a `TypeOK`, which is proved. In
`Listeners` and `TimedLoop` the types are part of the inductive invariant; `Exchange` has none, since a state of the wrong
type would be read as something nobody meant. `CHECK_DEADLOCK FALSE` stands where the system stops by
design: a run or a server returns, a session ends, the last packet of a schedule is sent, and the
packets and deliveries of `Loss`, `Recorder` and `Exchange` are used up.

To check one: `tlc -config Session.cfg MCSession`.

## Bounds

* `Server`: the burst and the duration are two, the timeout is three, so that in five ticks
  refilling, expiry and the cut-off all happen, in either order, and a connection can expire
  and be replaced; two tokens and two addresses are the least for a packet of the wrong owner.
  `MaxCount` 4 is no less than the rate limit lets through in that time.
  The clock stops at `MaxTime`; expired connections then stay
  expired, so the liveness property is not helped by the bound.
* `Session`: two open timeouts are the least with a resend, three deliveries
  (`MaxAccepts`) the least with a resend and a duplicate. Requests and servers differ
  from a plain pair in one or two parameters each, so that every rule of
  `restrictParams` and every test of `checkParameters` makes a difference in some pair,
  with the fourth of the timeout above, below and equal to the other bounds. The token 0,
  which `newCtoken` may draw and the client refuses, is among the tokens.
* `ClientRun`: two packets give a first packet, one that a sleep precedes, and a wait
  with a reply missing; one stray open reply.
* `TimedLoop`: an interval of 4 makes the half-way rule matter; the duration 21 is not
  a multiple of it; early, late, slow and jitter bounds are the largest the assumption
  admits together, so each margin is used up. A third of a sleep is the largest latency from which a
  compensating Timer cannot learn to wake more than half an interval early; `TimedOverflow` has a larger
  one, with the default Timer's own parameters in hundredths and thousandths.
* `Recorder`: seven packets wrap a ring of three twice; `MaxDuplicates` bounds
  replies that are counted as duplicates.
* `LossWindow`: five packets are more than the window of three, so a window ends inside the
  test. `SeqnoMod` leaves room for unsigned differences to be large; wrapping of sequence
  numbers inside a test is ruled out by `LossAssumption`, as 2^32 packets rule it out in practice.
* `Exchange`: field capacities are scaled down to one and two bytes (`SmallFCaps`), which keeps which
  field is longer than which; the MTU of 26 holds every header and a payload. Two scenarios have
  two clients whose packets differ in fields, length and payload share a listener, one with a server that limits
  lengths to less than a header; one has a client without the server's key; five measure the delays of
  two packets in two or three ticks, with a processing time of up to two and one adjustment of the wall clock,
  which falls between packets and never within a processing time: a reply is made in one step.
  Times pass only while a client tests, the only phase that looks at them.
* `Listeners`: two listeners (`::` and `0.0.0.0`) are the least of which one fails and the other is
  shut down for it; two callers and `ListenAndServe` itself are the least for a race of three.
  Lists of three bind addresses, of nine kinds, with interfaces that share a link-local IP, are resolved with
  every address taken by another program, so that binding stops at once and only the list is looked at; lists
  of four that name one IP with two ports, one of them taken, stop at one bind or another.
  No list has more than twelve addresses (`FewAddrs`, which `MCListeners` asserts), which is where Go's sort is an
  insertion sort. With more, or with an IPv4 address in its two byte forms, two equal addresses might not become
  neighbours. A host has no zone here, since the code drops it.

## Fairness

* `Server`: the clock ticks, and clients keep opening connections such that each
  token in the table is looked at again and again. Go's map iteration starts at a random
  element; that it reaches every element sooner or later is what the comment at
  server.go:362 relies on, and what the fairness of `AcceptChecking` states. Nothing is
  assumed of the owner of the connection.
* `Session`: weak fairness of `Run`'s own goroutine: a `select` with a timeout is never
  blocked. The user's `Cancelled` is no part of it. Nothing is assumed of the network, the server or the goroutine of `open`.
* `ClientRun`: weak fairness of what the Go scheduler must run (the send goroutine with
  its timers, the receive goroutine's steps after a read has returned) and that a read on
  a closed socket fails. Nothing is assumed to arrive.
* `Listeners`: weak fairness of `ListenAndServe`, of the watcher, of each call of `Shutdown` that has
  begun (Go's mutexes do not starve), and of the listeners together: a goroutine
  that can go on does, a read of a closed socket fails, and an option cannot be set on one. A
  socket need not fail, and nobody need call `Shutdown`.

The safety runs use the specifications without fairness or do not depend on it.

## The proofs

All theorems hold for every value of the constants that satisfies the `ASSUME` of the
module they are about. Each proof module has the same shape: lemmas on the operators, an
inductive invariant made of named parts, one lemma per action, and theorems that read
the property off the invariant. The typing lemmas of `SConn`'s operators, and `UpTo`, induction up to a number (see
below), stand in each module that cites them.

* **`ServerProofs`**: `TypeCorrect`, `RateLimited`, `LifetimeLimited`,
  `AccountBalanced` (of `Accounting`), `ConformingAnswered`, `OwnerOnly`, `CloseFlagTold`. `RateBound` is not
  inductive: it forgets the unspent credit. `Accounting` adds it (packets paid for and credit left never
  exceed the burst and the time in use) and the order of a connection's times, and is.
  `LifetimeBound` needs one more observation: flooding requests that are dropped never
  reach the check of the duration, but they are not answered either.
* **`SessionProofs`**: `TypeCorrect`, `Agreement`, `StrictTests`, `LimitsBind`,
  `NoLateWrites`, `ServerTold`, `LooseAccepts`. The invariant says what packets there can be (`Honest`: every
  reply has the restricted parameters, and its connection is in the table until a close packet is sent),
  what the goroutine has written when (`Writing`), and that `Run` goes on only with what was
  handed over (`Handed`). The lemmas on `RestrictParams` bound each parameter; `StrictCheck` shows that
  the comparisons of `checkParameters` together imply equality. `ToldAtEnd` and `LooseRefusals` need to
  know how a session gets to its end (`Ending`): a refusal or a test takes a reply that was handed over, with a
  token, and only the last timeout closes the socket before. `ToldAtEnd` says no more than the code does: a close packet
  is on its way, or writing it failed.
* **`SendLoopProofs`**, of `SendLoop`: `TypeCorrect`, `BufferFits`, `PacedIsServed`, `StaysConnected`,
  `NeverCutOff`. `NextSlotLater` is the heart: whatever the Timer did, within its bounds, the
  half-way rule picks a later slot, in the future, at most two intervals away. From it
  `Counting` (at most a packet per slot), `Opening` (how far the slot is from the last
  request that arrived) and `Paying`: the bucket holds a reserve of a burst less one packet, less the
  time by which packets were ahead of their slots.
  And of `TimedLoop`: `TimersKeepSchedule`, the refinement, and `TimersServed`, by which all that is proved of
  `SendLoop` holds with the program's own Timers. Both assume `LatencyShare >= 3`. The invariant
  (`TimedInvariant`) is that what each Averager gives lies in `Factors`, between 1 and the error of the
  slowest sleep: no average is outside the range of what went into it, after any number of sleeps and for
  any weight or window (`Averaging`; `SumBounds` for the window). A factor of at most `(LatencyShare + 1) /
  LatencyShare` shortens a sleep of up to two intervals by at most half of one, since latency only adds to it
  (`SleepsWake`). `TimersServed` is stated for `MaxEarly = HalfInterval`, the earliest wake-up there is.
* **`ClientRunProofs`**: `TypeCorrect`, `OwnCloseHidden`, `OneErrorKept`, `ServerTold` (a close packet was
  written before the socket closed, or writing one failed).
  The invariant relates the holder of the mutex to where it is (`LockHeld`), the socket to
  who is shutting it (`Shutting`), and errors raised to errors reported (`Reports`, `Kept`).
* **`RecorderProofs`**: `TypeCorrect`, `RingFound`, `ReplyRecorded`, `AgedOutOverwritten`, `EachCountedOnce`,
  `HandlersServed`, for rings of any capacity after any number of wraps. The invariant gives the slot of each
  live packet (`Position`, `Ring`, `Layout`). `CountedOnce` needs to know that the count of round-trip times
  is that of the packets counted (`Counts`), and that no two slots hold the round trip of one packet, so that the
  slot of a counted packet says so (`Marked`). A failed send taken back leaves the slice as long as `priorSent`, so
  that packet 0 alone counts as out of it (`AgedOutFirst`).
* **`LossProofs`**: `TypeCorrect`, `WindowsSound`, `LostDownGuaranteed`, `LostUpInOrder`, `LoopsAgree`. A window
  never has a bit too many (`WindowSound`); as long as requests arrive in order it has none too few either
  (`Complete`), which is what `UpTruthfulInOrder` takes. `LoopsAgree` goes through the nested loops of
  `newResult` one packet at a time: `Status` is what a packet's mark is after the windows of the first `n`.
* **`ListenersProofs`**: `NeverClosedTwice`, `ReportsTrue`, `AllStopped`, `ListensOnceEach`, `ImplementsLifecycle`,
  for any number of bind addresses, listeners and callers. `Mutex` says who of the callers can be inside, and
  what the flag then is; `ListenInv` what a listener's place, socket, flag and event say of one another, with
  `closedMtx` for the moment between; `LoopInv` that the results received are those of the listeners that are
  done, which is why a `ListenAndServe` that returns has heard from all. `ImplementsLifecycle` is the
  safety part of the refinement: each action is shown to be one of `Lifecycle` or to leave `PhaseSeen` and
  `Up` alone. Its leads-to part is checked by TLC.
  `ReportsTrue` is about a read that fails because of the shutdown: that is never reported as an error. A listener that the
  shutdown finds before its TTL is set does report one, since `listenAndServe` returns before it asks `isClosed`.
  `ListensOnceEach`, with the hypothesis `FewAddrs`, is about the sort: an insertion that stops at the first element the new one is not less than
  keeps every earlier element less than or equal to every later one (`Ascending`), though that is no order, and
  leaves no element between two equal ones (`Grouped`). So removing repeated neighbours removes all
  duplicates (`DuplicatesGone`), and no bind can fail for an address the server has itself (`Bound`).
* **`ExchangeProofs`**: `InvariantHolds`, `KeysAlwaysDecide`, `TermsAlwaysAgreed`, `AlwaysReadAsMeant`,
  `PayloadAlwaysReturned`, `DelaysAlwaysTrue`, for any clients, keys, field capacities, lengths, clocks and scenarios.
  The proofs go upwards in layers:
  1. The room that fields take and where each starts (`Room`, `Start`): fields have bytes of their own (`RoomAdds`),
     and one more field moves those after it by its capacity.
  2. What an array has laid in it (`Lay`: values in the places of their fields, then a payload; `Holds` with the
     fields of a packet, `Snug` with nothing after them), and what `Put`, `Grow`, `SetLen`, `SetFields`, `AddFields` and
     `FillPayload` make of that. This is where a field reads as it was put, and `Put` leaves each other field and the payload.
  3. Signing and taking. `Signed` bytes have the hash of themselves with a blank hash, `Taken` is a packet they were
     read into, over anything; `Valid` holds exactly under the sender's key.
  4. The parameters in an open packet, which `ParseParams` reads as `Encoded` wrote them.
  5. The bytes of each kind of datagram from its sender's operations, and what the other end hears of them.
  6. The invariant `Inv == ListenerOK /\ ConnsOK /\ ClientsOK /\ NetOK`, with one lemma per action (`SendOpenKeeps`,
     `HearOpenKeeps`, `EchoKeeps` and so on).

  No property of a datagram is inductive alone: that a reply is read as it was meant depends on the fields its client
  reserved, which depends on the open reply that client read before, and on what the connection kept. So `NetOK` says
  that each datagram is one of five kinds, with the values laid in it and the key that signed them, and that the times
  a reply was stamped with are those of the host (`Timely`); `ClientsOK` and `ConnsOK` that both sides of a token keep what
  `RestrictParams` makes of the request. `Inv` has existentials over functions and sequences of any
  size, so TLC checks the properties that follow from it rather than `Inv` itself.

Loops and recursive functions in the other modules are followed without the library's induction theorems, which
take an operator: `UpTo` says of a *set* that contains 0, and with each number below `n` the next, that it
contains `n`. It follows from the pigeonhole principle, and is cited for the loops of `newResult`, the sum of
a window, the sort, and sequences put together. The recursive functions themselves are CHOSEN, so each of
those lemmas first shows that there is one.

Where an assumption limits a result: `SendLoopAssumption` says that a Timer is early by
at most half an interval, that sends and delays stay within the graces of the server, and that
no two requests in a row are lost. With larger errors the properties do not hold: `TimedOverflow` has
one that the program's own Timer makes, with a latency of more than a third of a sleep.
`LossAssumption` keeps sequence numbers from wrapping. `ListensOnceEach` has the hypothesis `FewAddrs`, that no configuration
resolves to more than twelve addresses: longer lists Go does not sort by insertion, and of those the model promises only
that the addresses listened on are the ones asked for, maybe one of them twice. The theorems of `Exchange` have a hypothesis that its `ASSUME` does not
have, since nothing in the code sees to it: `GrantsFit`, that the length granted is not more than the listener's packet. Of a
longer request the rest is cut off, and its hash no longer fits. Three of them also have `GrantsPlain`, which leaves out exactly
the midpoint stamp with one clock, where `MidpointClock` shows that they fail. `ScenariosAssumption` of `MCExchange` has TLC
evaluate both for the scenarios of the runs: the run `Exchange` satisfies them, `MidpointClock` only the first.
`ExchangeAssumption` has a server's processing time below the code's `InvalidDuration`.

Only model-checked: all liveness (`ExpiredRemoved`, `RunEnds`, `RunReturns`, and what `KeepsLifecycle` has
of it), which is outside the prover's reach. Every invariant and every safety property of the passing runs is the
subject of a theorem.

## What the runs found

* **A connection that was never used stays for ever** (`ServerIdle`, sconn.go:269).
  `expired` needs a time of last use. Every duplicate of an open request, and every client that
  refuses the server's parameters without its close packet arriving, leaves one behind.
* **Loss percentages that wrap around** (`LossPercentages`, result.go:157). Counts of two ends,
  duplicates included, are subtracted as unsigned numbers.
* **More packets than the buffer has room for** (`TimedOverflow`, timer.go:97). One wake-up late by
  most of an interval teaches the default Timer a factor near 2; the next sleeps are then so short
  that the loop sends twice in an interval.
* **A midpoint stamp with a clock nobody asked for** (`MidpointClock`, sconn.go:220). The midpoint of the
  receive time keeps both of its clocks; the client has reserved one field and reads the
  wall clock as monotonic.

Seen while modelling, without a run of their own:

*Opening and closing*
* `accept` never closes a connection for its version, though it has the branch and the event
  (sconn.go:65): `restrictParams` has overwritten what it compares.
* `dial` and `Run` provide for a connection accepted and closed (conn.go:175, client.go:63);
  the goroutine of `open` clears the error that would lead there.
* `open` returns on a too short timeout before it has set its deferred close (conn.go:185), and
  leaves its socket open. `listenAll` leaves the sockets it has when a later one fails (conn.go:386).
* `cconn.close` drops the error of a close packet that could not be made or sent (conn.go:338, 347): the deferred
  `nconn.close` overwrites it, and the server is left to find the connection idle.
* `--loose` is documented to "accept and use any server restricted test parameters" (doc/irtt-client.md:223-225);
  `checkParameters` refuses even then an interval below `minRestrictedInterval` that a short server timeout forces
  (client.go:224). `LooseRefusals` says exactly when.
* After its last timeout or a cancelled context, the goroutine of `open` stays at its channel.
* A second open reply ends the test: the comment at client.go:415 has such packets dropped, the code
  returns `UnexpectedOpenFlag`.
* An open reply is read into a buffer of `maxHeaderLen` bytes (conn.go:203) and may be longer, with a long
  filler name or large values.
* `wait` sets the error of `Run` on a cancelled context (client.go:140), while the comment at
  client.go:37 has it nil once a test ran.

*Recorder and result*
* `OnSent` is handed the last slot whenever the newest packet is in slot 0 (recorder.go:123 and 542): right for the
  first packet of all, and another packet's round trip once the ring of stream mode has wrapped. In the
  same mode the "previous" round trip of the oldest slot is the newest one.
* A failed send outside stream mode takes the round trip back but not the counts made before it, and a reply
  to packet 0 is then discarded as aged out.
* `sinceLastSeqno` is unsigned, so `rwinValid` never becomes false (sconn.go:163-199).
* The comment on `RTT` (recorder.go:253) has the processing time subtracted only if it is not more than the
  round-trip time; the code does not compare them.

*Packets*
* `setFieldLen` would copy a shrinking field's followers over the field before; `setLen` keeps a target length
  above the capacity; errors of `addFields` are ignored by the client. None of these is reached.
* The client's checks of stamps (`StampAtMismatch`, `ClockMismatch`) compare fields it has itself set, and cannot fail.
* A clock that shows exactly 0 is taken for one that is not there.

*Server*
* A `Shutdown` that comes before a listener has set its TTL makes that fail, and an orderly stop is reported as
  `ListenerError`.
* A host may be written with an IPv6 zone (doc/irtt-server.md:118-120), but `resolveListenAddr` looks the name up as
  an IP, which has none, and makes the listen address of that (conn.go:596-608): the zone is dropped.
* The comparison of listen addresses is no order (conn.go:636); see `ListenAddrs` above for when it does not matter.
* A reply that cannot be sent, with an error that is not temporary, ends the server (server.go:235).

*Names*
* The hybrid timer's sleep factor is 0.95 in the documentation and 0.90 in defaults.go.
* `Bitrate.String` has Pbps for 10^12.

## What is not modelled

* Name resolution, system calls, sockets and their options (DF, TTL, DSCP, source addresses); the
  parsing and printing of flags, addresses, times and results; JSON; the benchmarks of the command line.
* The encoding of one integer or name: a value is one token on its bytes.
* The arithmetic of statistics, averages and bit rates in floating point. `TimedLoop` has factors in whole
  fractions, rounded down.
* The bytes a filler makes, and the matching of names by patterns: a filler is a value, a pattern the set of
  names it matches.
* How long a client waits for late replies: it is one action of `ClientRun` that ends some time.
* A crash and restart: neither program keeps anything on disk, and a restarted one is a new one with other
  tokens.

`PROJECT.json` gives the reason for each component.

## Plan

What is left, in the order in which it would be done:

1. **An abstract connection**: opened, served, closed, as its client sees it, which `Server` implements for each token;
   and an abstract recorder, a function from packets to what became of them.
2. **Waiters** (`waiter.go`): the time waited from the statistics at the end, as a bound that `ClientRun`'s wait keeps.
3. **Glob** and the fillers' names as algorithms on short sequences against a reference definition.

Runs are few on purpose: a new question goes to the run of its module where there is one.
