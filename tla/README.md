# A verification of the tw_client clients

The repository holds two clients of a pitaya game server, written after each
other: one in Go (`src/main.go`, `src/client`, `src/packet`, `src/message`) and
one in C++ (`src/pitaya_cpp`).  Both speak the same protocol over one TCP
connection: a JSON handshake, then packets of four header bytes and a payload;
a data packet holds a message, which is a request, a notification, a response
or a push.  An application calls `Request` and `Notify` from its own threads; the
client answers heartbeats and hands responses to the callers that wait for
them.

This directory is a TLA+ model of both, with TLC configurations that check it
on small instances and TLAPS proofs of what matters most for every instance.

## 1. Inventory

### Components

| component | code | state it keeps | operations |
|---|---|---|---|
| Go client engine | `client/client.go` | `idSeq`, `pending`, `sendCh`, `conn`, `onMsg` | `Request`, `Notify`, `OnMessage`, `Close`; goroutines `readLoop`, `writeLoop` |
| Go set-up and packet reading | `client/client.go:229-290`, `client/handshake.go` | a `bytes.Buffer` for each phase | `handleHandshakeResponse`, `readPackets` |
| Go packet codec | `packet/packet.go` | none | `Encode`, `Decode`, `ParseHeader` |
| Go message codec | `message/message.go` | the route dictionary (never filled) | `Encode`, `Decode` |
| Go console | `main.go` | the last room, the user | the menu, `login`, `register`, `CreateRoom`, `JoinRoom`, `EnterGame` |
| C++ client | `pitaya_cpp/src/client.cpp`, `include/client.h` | `id_seq_`, `pending_`, `send_q_`, `stop_`, `sock_`, `on_message_`, two `std::thread` | `Start`, `Stop`, `Request`, `Notify`, `OnMessage`, destructor; `SendThreadFunc`, `RecvThreadFunc` |
| C++ set-up and packet reading | `client.cpp:242-344` | a byte vector for each phase | `handleHandshakeResponse`, `recvSome`, `readPackets` |
| C++ packet codec | `packet.cpp`, `packet.h` | none | `Codec::Encode`, `Codec::Decode` |
| C++ message codec, route dictionary | `message.cpp`, `message.h` | the static route dictionary | `Encode`, `Decode`, `SetDictionary` |
| C++ driver | `pitaya_cpp/src/main.cpp` | none | one request, then a loop on `IsStop()` |
| generated protobuf, vendored JSON | `proto/*.pb.*`, `nlohmann/json.hpp` | none of the client's | not modelled |
| pitaya server, TCP | not in the repository | | external, modelled from how the clients use them |

### How they interact

- Go: a caller draws an id (atomic), registers its channel in `pending` (under
  `pendMu`), and puts its message on `sendCh` (capacity 128).  `writeLoop` takes,
  encodes and writes.  `readLoop` reads packets, looks a response's id up in
  `pending` and sends the message to the channel found there; it answers
  heartbeats by `NotifyBytes`, that is through `sendCh`, and so do callbacks.
- C++: a caller draws an id (under `pending_mtx_`) and pushes an item with its
  promise on `send_q_` (under `send_mtx_`, unbounded).  The send thread waits on
  `send_cv_`, takes an item, writes it, **then** records the promise in
  `pending_`.  The receive thread sets promises, answers heartbeats by `Notify`,
  which waits until the send thread has written the answer, and calls `Stop` when
  its loop ends.  `Stop`, called by the owner or by the receive thread, sets
  `stop_`, shuts the socket down, notifies, joins both threads and closes.

### What is hard, and what makes each component correct

- **Correlation.**  A reply must reach the caller of its own request, once,
  whatever the interleaving of callers, writer, reader and a server that answers
  in any order and more than once.  The two clients register a request on
  different sides of the write.
- **Waiting.**  The Go reader waits for room in a queue its own writer empties;
  the C++ receive thread waits for its own send thread, and `Stop` waits for both.
  Wakeups must not be lost, and someone must notice the end of the connection.
- **The end.**  Either side may end at any point: before the threads of a C++
  client are assigned to their members, while a caller waits, between a write
  and what follows it.  The socket must not be closed under a thread that uses it.
- **Bytes.**  TCP cuts anywhere.  What remains of a batch must be the start of the
  next, and nothing that is complete may be held back for ever.
- **Numbers.**  Three-byte lengths, one-byte route lengths, 32-bit ids.

`PROJECT.json` lists the hazards with their lines and the properties about them.

## 2. Modules

```
RpcCalls           what Request promises        PacketStream  what packet reading promises
   ^       ^                                        ^
GoClient  CppClient                               Stream         Messages
   ^         ^                                      |             |     |
GoConsole    |                                  PacketCodec  MessageCodec  RouteDict
```

The proofs are in modules of their own, each of which extends the module it is about and
those below it:

```
GoConsoleProofs             StreamProofs          MessagesProofs
       |                         |                      |
GoClientProofs  CppClientProofs  PacketCodecProofs  MessageCodecProofs
       \______________\___________________/___________________/
                               DataLemmas
```

An `MC...` module extends each of `GoClient`, `CppClient`, `Stream` and `Messages`, and
holds the sets and symmetries their configurations use.  `DataLemmas` has the facts about
numbers and sequences that the proofs share: induction, functions defined by recursion,
division, parts of sequences, and what adding to, taking from and cutting a queue does.

### RpcCalls (abstract)

A request is issued, served, and resolved: at most once, by its own reply, after
the server produced it.  It says nothing about termination.  It is the
abstract specification of both clients.

### GoClient

`client.go` once `NewClient` has returned.  One `pc` for each calling goroutine;
`RequestBytes` is three steps (`TakeId`, `Register`, `EnqueueRequest`), because
another goroutine can run between the atomic addition, the locked map access and
the channel send; `Await` is the caller's receive.  `WriterTake` / `WriterWrite` /
`WriterFail` are `writeLoop`, `ReadPackets` ... `HandleIgnored` are `readLoop`,
with one action for each case of its switch and `ReaderNotify` for the moment it
waits inside `NotifyBytes`.  `stopCh` is no variable: `NewClient` makes it and
nothing closes it.  `reply[r]` is the history of a request's channel, of which
the channel holds the first element at most; a second send would block, and is
guarded so.

`held` is what `readPackets` has in its buffer and has not decoded: after a `Read`
that came back full, whole packets that are not looked at until another `Read`
returns, and are lost if that one fails; and after bytes at which `packet.Decode`
fails (the packet kind `garbage`), everything from then on, since the error is logged
and the buffer kept.  A packet is an item, so whether a `Read` comes back full is a
choice of `ReadPackets`.

Here the application is any callers at all, some of which never receive (a request may
stay in `await` for ever, as `login`'s does), and a callback that sends
`mjhaeb.player.message`.

### GoConsole

`main.go` on top of GoClient: main is one thread that starts a command, is inside
`cli.Request`, waits for the reply, looks at it, and calls `EnterGame`.  Each of its steps
is an action of GoClient with a condition on where main is, so GoClient itself is the
abstract specification of the composition by construction, and what is proved of GoClient
holds below the console.  `login` and `register` differ in what they print only,
`CreateRoom` and `JoinRoom` in what they ask for, so each pair is one command.  A reply
does one of three things: it is the ack that was asked for, it does not parse, or it is an
ack of another type and the type assertion panics.  The process ends by that panic, by
`os.Exit` on "q", or by a panic of `message.Decode` on readLoop (`Panic`), which a
truncated message causes.  `announced` is the set of requests reported as successful.

### CppClient

`client.cpp` from line 61 on, where `Start` creates the threads.  `thread` holds
where the owner, the send thread and the receive thread are; both the owner and
the receive thread can be inside `Stop`, whose five steps are actions with the
thread as their parameter.  `SpawnRecv` and `AssignRecv` are two steps, because a
thread runs before the `std::thread` is assigned to its member.  `send_mtx_` is
visible as the place `park`: the send thread has evaluated its predicate and
holds the mutex until it waits; nobody can push there, but `Stop`, which notifies
without the mutex, can pass.  `joinable` is what `join` and the destructor look
at.  A process that was terminated by an exception (`aborted`), or died of a
signal or of undefined behaviour (`killed`), does nothing more: `Alive` guards every step.

The destructor is two steps.  `DestroyClose` is the body of `~Client`, which calls `Close`,
at any moment at which the owner may let the client go: after its own `Stop`, or while the
threads run, as `main.cpp` does.  `DestroyMembers` is what the compiler adds: `pending_` and
`send_q_` go, and with them every promise in them, so that a future that outlives the client
gets `broken_promise`; then the two `std::thread`s, and a joinable one terminates the
process, if a thread that still used the members has not killed it or hung the destructor
before.  A process survives the end of its client in one case only: the owner called `Stop`,
and `Stop` came to its end, which takes a receive thread that had stopped before `recv_th_`
was assigned (section 6).

Undefined behaviour is a choice: a push handled while `OnMessage` assigns the
`std::function` is handled, skipped or kills the process.  `::write` on an ended
connection is `SIGPIPE` or an error that `SendThreadFunc` does not act on.

### PacketCodec

The packet format of both languages as pure operators; the base of the length
digits (`Radix`) is a parameter, 256 in the code, 2 in the runs, so that the
largest packet has 8 bytes and not 16 MB.  Decoding is a recursive function, not
a `RECURSIVE` operator, so that proofs can use the module.

### PacketStream (abstract), Stream

The bytes between the packet codec and the clients: a server that encodes packets, a wire
that hands over any prefix up to the size of one read, and `readPackets` of either client
(chosen in `Init`) with the buffer of each phase: `handleHandshakeResponse` has one, the
loop has another.  They implement PacketStream: the packets delivered are a prefix of the
packets sent, up to the first packet of the largest size (`Sound`), whose length both
`Encode` functions write as zero.

`GoClient` and `CppClient` take packets as items that arrive in any grouping;
that is what Stream shows to be right, with the exceptions it names
(`held` of a full read; a C++ read that ends inside the first packet, `Fragments`).

### MessageCodec

The message format of both languages as pure operators on bytes below `Base` (256 in the
code, 8 in the run): the id in groups of seven bits, the route spelled out behind one
length byte or as a two-byte code, the data.  The two encoders are the same up to the
check on the length of a route, which only C++ has; the two decoders are written apart
where they differ (an id without an end, an id too large, a route length that is not
there, compressed data).

### RouteDict, Messages

RouteDict is the static dictionary of `message.cpp`: two maps, each operation under
`s_mu`.  Messages puts it between the codecs: clients of either kind connect, a C++ client
registers the dictionary of its server one entry after the other while other clients do
the same or are already exchanging messages, the application unregisters routes, and a
message is encoded under the dictionary of one moment and decoded under that of another.
A message that cannot be read ends the process of a C++ client, and all clients in it;
of a Go client an error ends `readLoop`, and the panic of `message.go:161` the process.
Servers encode and decode like `message.go`, each with the dictionary it has announced.
`ServerGarbage` sends bytes no encoder makes.

### Slips

Each module has a section of actions with one mistake in them (an increment that
is not atomic, a push without its mutex, a response that stays in the table).
They are not part of any specification.  Putting one in the place of the action
it is modelled on makes a property fail, which shows that the property depends
on that piece of the code; `PROJECT.json` says which is for which.

## 3. Runs

| run | instance | shows |
|---|---|---|
| `go_client` | 2 requests, one of which may be answered twice, 1 oversize notification, `sendCh` of 1, 1 packet each way, 1 unsolicited packet of any kind, full reads and undecodable bytes; about 510 000 states | a channel gets one message; a request stays in `pending` until it is answered; nothing is lost while `writeLoop` runs; the client goes mute only after an oversize message; the inductive invariant; GoClient implements RpcCalls; a reply reaches its caller, `readLoop` gets out of `NotifyBytes`, the end of the connection is noticed, with the exceptions the properties state |
| `go_client_calls_return` | 1 request, 2 notifications, `sendCh` of 1 | **violated**: a call on a closed client may block for ever |
| `console` | 3 commands, 2 `EnterGame`s, `sendCh` of 2, 2 packets each way, 1 unsolicited packet of any kind, full reads; about 260 000 states | order of commands; the reply a command acts on is its own; what an announced success is worth; an answered command ends |
| `cpp_client_safety` | 2 requests, 2 packets each way, 2 replies each, any unsolicited packet, fragments; about 3.4 million states up to symmetry | types; a promise is destroyed by the destructor only; when the socket is closed; the inductive invariant; CppClient implements RpcCalls |
| `cpp_client_liveness` | 1 request that is too large, 1 notification, any unsolicited packet; about 117 000 states | no wakeup of the send thread is lost; `Notify` returns while the send thread lives; `Stop` ends or hangs in the one stated way; what is left when the process survives the client |
| `cpp_client_response`, `_kick`, `_terminate`, `_callback` | 1 or 2 calls | **violated**: see the findings |
| `stream` | either client, 4 packets (the handshake response and three more), four payloads, reads of at most 9 bytes, lengths in base 2; about 150 000 states | the packets handed over are those sent; what may hold one back; a Go client that has met undecodable bytes is deaf |
| `stream_fragment` | the same, C++ | **violated**: see the findings |
| `messages` | 2 clients of either kind, 3 connections, 3 dictionaries (two agree, one does not), 3 routes, one of them too long; about 1.8 million states | the dictionary's halves agree; a message that is read is read as it was meant; why one is rejected; where the decoders agree |

**Why the bounds suffice.**  Two requests are the fewest that can be confused,
and a reply can only be confused with one other at a time.  `IdSpace` is 4, above
the number of requests: what happens when ids come round is outside these runs (so the
one branch of `SendRecord` that meets an occupied entry is not taken), and section 5 says
which theorems need that it does not happen.  A queue of 1 is both empty and full in short runs, and the waits on it are the same as on 128.  Two packets in a
direction are the fewest that can be reordered within a batch or split over two
reads, two replies the fewest that duplicate.  In `go_client` there is one packet in a
direction: `held` and `batch` still hold several, since reads go on while earlier packets are
held, and `console` has two in each.  `Fragments`, duplicate replies and oversize calls are
each in the run whose properties they can break, and not in all of them.  Payloads are chosen for what the
codec could confuse them with: none; the start of a header; a whole packet; and one of
`MaxPacketSize`, whose length is lost and whose bytes are then taken for packets.  Every cut
occurs: in a header, between header and payload, in a payload, behind a packet, exactly at
the size of the read, and behind two packets and the start of a third.  In `messages` the
ids are the ones of one byte and of as many bytes as an id has, the data could be an id or a
route, and the garbage has up to three bytes, so that each of its fields can be missing.
The console's third command is the one that can find `sendCh`, of capacity 2, full; its
requests are chosen in a fixed order, since nothing distinguishes them.

**Deadlock** is not checked: a client may stop for good, and so may a model whose
application makes no more calls and whose server sends no more packets.

### Fairness

The Go scheduler and the operating system run every thread that can run, so the
loops (`WriteLoop`, `ReadLoop`, `SendThread`, `RecvThread`), a call once begun and
`Stop` once begun have weak fairness.  Weak is enough: a goroutine waiting for
room in `sendCh` competes with others, and the properties do not claim that a
particular caller gets it unless the condition is stable.  Whether a call is made
at all, when `Close` or `Stop` is called, and whether a condition variable wakes
for no reason, have none.  The server reads its socket (otherwise any client may
block in `write`, which no code here could help); it owes no reply, no heartbeat,
and may vanish at any time.

## 4. What the properties say

The exceptions in a property are part of the finding: each disjunct after the
goal is a way the code really can go, and leaving any of them out makes TLC find it.

Go:

- `Correlated`, `RepliedOnce`, `PendingUntilReplied`: registering before the
  message is queued, and deleting the entry when it is used, are what makes
  replies safe even from a server that answers twice or at once.
- `NothingLostWhileWriting`, `MuteOnlyByOversize`: `writeLoop` returns on the first
  message it cannot encode or write.  If the reason is the size of the message,
  the connection stays open, and nothing is sent any more, heartbeats included.
- `ClosedOrJammed`: after that, once `sendCh` is full and a heartbeat arrives,
  `readLoop` blocks as well and does not notice the end of the connection.
- `ReplyDelivered`: a reply in flight reaches its caller unless the connection is
  closed, or `writeLoop` has ended, or the reply is in the buffer of `readPackets` for good
  (`Stranded`): behind a `Read` that came back full, and the server sends nothing
  more (`client.go:272`), or with bytes at which `packet.Decode` fails (`client.go:281`).
  A caller that waits when the connection closes is not told: nothing closes the channels
  in `pending`, so the test for a nil response in `CreateRoom` and `JoinRoom`
  (`main.go:178`) is never true.

Console:

- `InOrder`: commands reach the server in the order typed, a login before the room created
  after it, although login does not wait for its reply.
- `AnnouncedArrives`: "登录成功" (login succeeded) is printed when the request is queued.  It
  does reach the server, as long as the connection and `writeLoop` last; what the server
  says to it is never looked at.
- `AckIsOfCommand`: the reply whose ack main looks at is the server's reply to the request
  of the command it is executing, whatever replies to logins nobody received.  So the type
  assertion of `main.go:195` fails only on a server that answers with the wrong ack.
- `AnsweredReturns`: main gets back to its menu, or the process ends, once a reply has been
  sent, unless the connection or `writeLoop` has ended or the reply is `Stranded` as above:
  then it waits for ever and reads no key, "q" included.

C++:

- `PromiseKept`: as long as the client exists no promise is destroyed, so `future::get` of a
  lost request does not throw `broken_promise`; it waits for ever.  The destructor breaks
  the promises that are left.
- `ClosedWhenUnused`: although `Stop` may run on the receive thread before `recv_th_` and
  `send_th_` are assigned, its `close` happens only when neither thread will use the
  descriptor again.  The destructor's `close` can come under running threads, as on the path of
  `main.cpp`; but then one of them is joinable, and the destructor does not return.
- `NothingLeftBehind`: where the process does survive the destructor, both threads have ended,
  and every future and every `Notify` that still waited has been answered or broken.  It
  depends on `Stop` joining both threads.
- `StopEnds`: the exception is real: `Stop` ends the send thread while the receive thread
  waits in `Notify` for a heartbeat, and then waits for it.

Streams:

- `HandedOver` and `HeldOnlyByFullRead`: a Go `Read` that returns exactly 1024 bytes is
  followed by another one before anything is decoded.  A handshake response of
  that size makes client and server wait for each other.
- `DeafOncePoisoned`: `readPackets` logs an error of `packet.Decode`, returns no packets and
  leaves the bytes in its buffer: every later read fails at the same place, so that not even
  the packets in front of them are handled, and the client does not close the connection.

Messages:

- `ReadAsMeant`: a message that is decoded is the message that was encoded, whatever happened
  to the dictionary in between, if codes and routes are one to one.  The exceptions: a route
  of 256 bytes or more from the Go client, whose length byte wraps, and compressed data in
  C++, where inflating is commented out (`message.cpp:170`).
- `RejectedOnlyFor`: the reasons for an error.  The first one is sharp: the Go client prints the
  server's dictionary and never registers it, so the first push with a known route ends
  `readLoop`.
- `DecodersAgree`: the same bytes are the same message to both decoders, or to neither, with
  the exceptions stated; `data[offset]` of `message.go:161` panics only where C++ throws.
- `HalvesAgree`: both halves of the dictionary say the same unless a route was registered
  under two codes or a code for two routes.

### Findings (runs that TLC refutes)

1. `client.go:92`, `:115`: nothing closes `stopCh`; "client stopped" is never returned.
2. `client.cpp:168`: a response that overtakes the recording of its promise is dropped,
   and its caller waits for ever.
3. `client.cpp:208`: the `break` under kick leaves the loop over the batch, not the
   loop that reads.
4. `client.cpp:236`: the receive thread joins itself and `std::terminate` is called,
   whenever the server goes away; or `main` destroys joinable threads first.
5. `client.cpp:144`: `OnMessage` assigns the callback without a lock after `Start` has created
   the receive thread, which may be calling it; `client.h:72` says that registering is thread
   safe.
6. `client.cpp:326`: a read that ends inside the first packet is taken for the end of the
   connection, although `packet.cpp:42` says to wait for more bytes.

One more is proved and not run: both `Encode` accept a payload of exactly
`MaxPacketSize` bytes, and its length is written as zero (`LargestLengthIsLost`).

## 5. Theorems

All are checked by TLAPS, for every value of the constants that satisfies the assumption
of its module:

| assumption | says |
|---|---|
| `ConstantsAssumption` (GoClient, CppClient) | finite sets of calls, disjoint names, capacities of at least one, at least one id |
| `RadixAssumption` (PacketCodec) | lengths are written in a base of at least two |
| `StreamAssumption` | payloads are sequences of numbers, a read can return at least one byte |
| `CodecAssumption` (MessageCodec) | a group of an id holds at least one bit, and the largest id of the C++ client's width takes as many groups as `Decode` looks at (`Half` = 128, `IdSpace` = 2^32 and `Groups` = 5 in the code) |
| `MessagesAssumption` | announced codes fit in two bytes, the ids of requests in the C++ client's width; routes and data are bytes |

Every invariant, action property and refinement that a passing run checks is a theorem;
the properties that are not are the liveness properties.

### The Go client (`GoClientProofs`, `GoConsoleProofs`)

- `TypeCorrect`, `ByIdAlways`, `RepliedOnceAlways`, `NothingLostAlways`,
  `MuteOnlyByOversizeAlways`, with no further assumption.
- `CorrelatedAlways`, `PendingUntilRepliedAlways` and `GoClientImplementsRpcCalls`, each under
  `NoWrap`: fewer requests are made than there are ids (2^32 in the code).
- `ConsoleTypeCorrect` and `ConsoleKeepsClientSafe`: no announced request is lost while
  `writeLoop` runs, and the client goes mute only after an oversize message.
- `InOrderAlways` and `AckIsOfCommandAlways`, under `NoWrap`: commands reach the server in the
  order typed, and a command acts on its own reply.

`PendingUntilReplied` is not inductive: that an entry is not evicted
needs that no other request has its id, and that it is not taken away by somebody
else's response needs that every response in flight carries the id of the request it
answers.  The invariant has two layers.  `ById` is inductive however many requests are made,
and so is true of a client whose ids have come round:

- `WireFaithful`: wherever a message or a packet is (`sendCh`, `task`, the wire, the
  server, `held`, `batch`) it carries the id of its request, which has been sent;
- `PendingFaithful`: an entry of the table is a registered, unanswered request under its
  own id;
- `RepliesById`: a channel holds nothing or one reply, to a request with the same id,
  produced by the server; this is all that `RepliedOnce` needs;
- `PendingOrDisplaced`: a request that is registered and unanswered is in the table unless
  another one has been registered under its id.

`Correlated` adds what holds as long as `idSeq` has not come round:

- `IdsUnique`: `idSeq` is the number of ids drawn, and no two requests share one;
- `RepliesFaithful` and `PendingUntilReplied`, which follow from `ById` and `IdsUnique` without
  a look at the steps: a request with the same id is the same request.

`WireFaithful` is stated with the sets `GoodMessages` and `GoodResponses`, which grow
when requests advance (`FaithfulGrows`); so a step that moves an item from one
queue to the next keeps it by the queue lemmas alone.  The heart is
`HandleResponseById`: the entry found under a response's id belongs to a
request with the id of the one the response is for.  The refinement maps `TakeId` to `Issue`, a first
`ServerReply` to `Serve`, a `HandleResponse` that finds an entry to `Resolve`, and
everything else to a stutter.  `MuteOnlyByOversize` needs that what is on `sendCh` was put
there by a call that has got that far (`Made`).

`InOrder` says that ids rise along the messages read, on the socket, in the hands of
`writeLoop` and in `sendCh`, in this order.  What could break it is the request that is
added at the end, and `OrderInv` says why that one is the latest: while main makes a request
its id is `idSeq`, and by `Correlated` no message sent has a higher one or the same.  This
holds because main is one thread; GoClient, whose callers may draw their ids in one order
and reach `sendCh` in another, does not have the property.

`AckIsOfCommand` rests on `Correlated` and on where main is: from the menu on, `cur` is a request
drawn for this command, it is announced only by a login, which never gets to `reply`, and
main gets there only by receiving on the channel of `cur` (`AckInv`); a channel that has had
its reply keeps it (`RepliesStay`), and by `Correlated` it is the right one.

### The C++ client (`CppClientProofs`)

- `ThreadsOrdered`, `ClosedWhenUnusedAlways`, `TypeCorrect`, `ByIdAlways`, `NothingLeftBehindAlways`,
  with no further assumption.
- `CorrelatedAlways`, `PromiseKeptAlways` and `CppClientImplementsRpcCalls`, each under `NoWrap`.

The argument has four layers, each of which uses the one before.

1. `Ordered`: how far the owner, the receive thread and the send thread can be from each other
   during Start, Stop and the destructor.  It is about `thread`, `joinable`, `stop` and `sock` alone, and
   `ClosedWhenUnused` follows from it.  Its core: a receive thread that gets past `joinRecv`
   is one that `recv_th_` did not hold yet, so there is no send thread, and `stop_`, already set,
   will keep one from its first look at the queue.  A thread that is not joinable has ended,
   or the owner is about to make it so; hence a destructor that returns leaves none behind, and
   one that has closed the socket under a running thread meets it joinable.
2. `Sound` adds types and `QueuedOnce`: an item is in one place at a time and its call still
   waits for it.  That bounds `send_q_`, and rules out that a promise is set twice.
3. `ById` adds wire, table and futures as in the Go client, with two differences.  The
   promise of a request is in `send_q_`, in the hands of the send thread, or in `pending_`, and
   moves from one to the next after the request may have been answered.  And where ids meet it
   is the new promise that goes: `ResultsById` says that a promise is broken only if another
   request has its id, or by the destructor.
4. `Correlated` adds `IdsUnique`, and with it each future gets its own reply and no promise is
   broken while the client exists.  A response that comes too early changes nothing, so the
   refinement maps it to a stutter, and the destruction of promises too.

`NothingLeftBehind` needs one thing more (`Emptied`): a `Notify` that waits and has no answer has
its item on `send_q_` or in the hands of the send thread, and after `DestroyMembers` neither
the queue nor the table holds anything.

### Packets and streams (`PacketCodecProofs`, `StreamProofs`)

- `LengthReadBack` (every length below `MaxPacketSize` survives `IntToBytes` and `BytesToInt` in
  every base) and `LargestLengthIsLost` (`MaxPacketSize` itself, which both `Encode` functions
  accept, is written as three zero bytes).
- `StreamProofs!TypeCorrect`, `HeldOnlyByFullReadAlways`, `DeafOncePoisonedAlways` and
  `StreamImplementsPacketStream`, with no further assumption: for both clients, every size of a
  read, every set of payloads and any number of packets.

The two `Decode` functions are recursive functions of the place in the buffer where the next
packet starts, and what they return is found by induction over that place, from the end of
the buffer backwards.  The theorems of the library that would serve for that take a predicate
as their parameter; `DataLemmas` proves its own, about sets: a set that has 0 in it and is
closed under successors has every number in it (`NatSetInduction`), which follows from what
the library says of finite sets.

A buffer and the bytes still on the wire are related to the packets sent by `Pending`: together
they are the encodings, one behind the other, of the packets that have not been handled.
`StreamInv` is that, while no packet of the largest size has been handled (`OnTheWay`), and that
the packets handled are those sent as far as the first such packet (`InOrder`).
The properties alone are not inductive, since they say nothing about bytes.  A read that takes
any piece of the wire keeps the invariant by `DecodeFollows` (what either `Decode`
makes of the front of such bytes are whole packets, the next ones) and `PendingDrop` (what
`Consumed` takes off the front are exactly these).  Behind a packet whose length was lost
nothing is said of what is decoded, only that no byte is used twice (`NothingInvented`), which
is what `TypeOK` needs.  `HeldBack` carries `HeldOnlyByFullRead` from one read to the next, and
`FailureStays` says that `Decode`, when it fails, fails on every longer buffer too, which
makes a poisoned buffer last.  The refinement maps the packets handled to the safe ones
among them (`Seen`): a server's `Send` appends to what was sent or maps to a stutter, and a
read delivers the next packets.

### Messages and the dictionary (`MessageCodecProofs`, `MessagesProofs`)

- `IdReadBack`: the number read from the groups of an id is the id, for all ids of the C++
  client's width.
- `ReadByGo`, `ReadByCpp`: what either encoder wrote of a message, spelled out or under a code,
  either decoder reads back, whatever its own dictionary, but for a route whose code means
  another there; it rejects only a code that it does not know.
- `DecodersAgreeOnBytes`: the two decoders agree about any sequence of bytes, with the exceptions
  the theorem names, each of which `DecodersAgree` lists.
- `MessagesProofs!TypeCorrect`; `DictInvInductive` and `HalvesAlwaysAgree`.  `HalvesAgree` is not
  inductive: a pair that is registered must not share its code with an old route that is no
  longer there.  `Recorded`, which says that what is in either half was registered, makes it
  so.
- `ReadAsMeantAlways`, `RejectedOnlyForAlways`, `DecodersAlwaysAgree`, with no further assumption.

`ReadAsMeant` and `RejectedOnlyFor` speak of one state, but the message was encoded in an
earlier one, under a dictionary that the handshake of another client and the application may
have changed since.  `MeansInv` says what is left of that: the bytes of a message on its way are
the encoding of what it means, under a code that was *once* registered for its route, or that its
server has announced (`Encoded`); a C++ client has registered what its server announced, up to
the entries that are still to come (`Announced`); and what was registered is there unless the
application has taken it out (`Kept`).  If all that was registered is one to one, a code
that was once registered for a route can only lead back to that route, by `Recorded` and
`HalvesAgree`; and a message can then only be rejected because its entry is gone or never was
there.

### Only model-checked

Liveness, which the prover does not handle: `ReplyDelivered`, `ReaderUnblocks`, `ClosedOrJammed`,
`AnnouncedArrives`, `AnsweredReturns`, `PushedIsTaken`, `NotifyReturns`, `StopEnds` and `HandedOver`.
The claims that the code refutes have counterexamples and no proofs.

## 6. What is not modelled, and why

- `proto/*.pb.cc`, `*.pb.h`: written by protoc, and `nlohmann/json.hpp`: a vendored library.
  Together they are 37 391 of the 38 293 lines of C++ here.  They are accessors, serialisers
  and a parser without a state of their own: the clients hand them a message and get bytes,
  or the other way round, or a failure, which is how the models have them.
- JSON and protobuf contents: payloads are opaque; the handshake's JSON parses or not.  (The
  two clients do not write the same handshake: `handshake.go:7` has the keys
  `clientBuildNumber` and `clientVersion`, `client.h:22-29` has `buildNumber` and `version`,
  under a comment that calls the structures consistent.  No state depends on it.)
- `net.Dial`, `socket`, `connect`, `inet_pton`: system calls that succeed or fail before
  the modelled state exists.
- `Close` of the C++ client called directly by an application: nothing in the repository does.
- A second `Start` on one C++ object.  An owner's `Stop` comes to its end in one case
  only, when the receive thread has already ended without joining itself, which it can do only
  before `recv_th_` is assigned; in all others the process is terminated or hangs
  (`StopEnds`).  So there is no client left that could be started again.  A `Start` that fails
  and is repeated leaks its first descriptor, which no other state depends on.
- Inflating compressed data is external: `Zip` marks data, and data that is not marked
  cannot be inflated.
- Runs in which ids come round.  In Go the entry of a request that still waits is
  overwritten, in C++ the new promise is dropped and the reply resolves the old one.  Both
  branches are in the models, and `ByIdAlways` says what still holds after them; no run has as
  many requests as ids.

## 7. Plan

Done, in this order, each resting on the one before: correlation and shutdown of the two
clients; the bytes below them; the messages and the dictionary; the console; the proofs of
section 5, first of the clients, then of the codecs, the streams and the messages.  What is
left, in order of what it would add:

1. A run of each client whose ids come round, with `ById` as its invariant, and the stronger
   fact that the reply goes to the last caller with its id (Go) or the first (C++).
2. The safety halves of the liveness properties as theorems: that an exception, once it
   holds, holds for good (a client that is mute stays mute, a `Stop` that hangs stays hung),
   and that while `notify_one` is under way no item is on `send_q_` that nobody looks at.
3. CppClient composed with Messages: the dictionary that another client of the process changes
   while a request is in the hands of the send thread.
