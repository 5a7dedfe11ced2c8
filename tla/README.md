# netio: specifications, model checks and proofs

netio is a small C++ networking library: epoll loopers, a TCP server and client,
a length-prefixed packet format, sessions with idle timeouts, a message looper and
an asynchronous log. This directory holds TLA+ modules of its core, TLC
configurations that check them on small instances, and TLAPS proofs. Paths such as
`TcpConnection.cpp:59` are relative to the source tree. `PROJECT.json` lists the
components, the runs with their properties, the lines each definition stands for,
the hazards the properties are for, and the findings.

## 1. The system

| Component | State it keeps | Operations | Interacts through |
|---|---|---|---|
| `MultiplexLooper`, `EventChannel` | `_runnables` under `_rqMutex`, `_looping`, two eventfds, the epoll set | `startLoop`, `stopLoop`, `postRunnable`, `wakeup`, channel registration | eventfds, epoll, closures posted by any thread |
| `Channel`, `TcpConnection` | `_attached`, event mask, the socket, handlers | `attach`, `detach`, handlers of read, write, hup, error | callbacks from its looper, calls from client threads |
| `TcpServer`, `TcpAcceptor`, `LooperPool` | `_connSet`, `_lastLooperIdx`, listening channel | accept, `removeConnection`, `startWork`, `stopWork` | main looper, connections' loopers, client callbacks |
| Receive path: `TcpConnection::handleRead`, `VecBuffer`, `FLNPack`, `NetPackDispatcher` | `_rcvBuf` (bytes, offset, size) | `readv`, replace, `enlarge`, `readMessage`, `dispatch` | bytes of the socket; the client's message handler |
| Send path: `send`, `sendInternal`, `markSended` | `_sndBufList` | append, `writev`, erase what was sent, arm EPOLLOUT | posted closures, the write event |
| `HashedWheelTimer`, `TimerWrap` | `_ticked`, buckets, per timeout rounds and state | `addTimeout`, `cancel`, `tick` | timerfd, tasks that call the timer again |
| `SessionManager` | `_cidMap`, `_uinMap`, weak pointers to timeouts | heartbeat, remove, touch | timer tasks, application |
| `MessageLooper`, `Daemon` | `_mq`, mutex, condition variable | `postMessage`, `startLoop`, `stopLoop` | threads, signal handler of the application |
| `UdpEndpoint` | `_sndList`, `_rcvBuf`, the channel's mask | `send`, `handleRead`, `sendInternal`, `attach`, `detach` | closures posted by any thread, edges, a message handler that may send |
| `TcpClient`, `TcpConnector` | connector, connection, own looper thread | `startWork`, `stopWork`, connect, disconnect | one descriptor in two channels; client code that holds the connection |
| `Logger`, `SingleCache`, `DailyLogFile` | cache with fill level, queue of chunks, writer thread | `append`, flush, write, destruction | all logging threads |
| `BitmapTree`, `FixedBuffer` | layers of bitmaps, memory pool | `bitRequire`, `bitTurnback`; construction and destruction of a buffer | callers |
| `Dispatcher` | two tables of handlers | register, dispatch | callbacks |

What makes it hard: connections are created in one looper, run in another and
removed in the first; `_attached` and the epoll registration are two pieces of
state changed by plain statements of different threads; epoll and posted closures
hold plain pointers; sockets are edge triggered, so a byte that is not read, or a
wakeup consumed too early, waits for ever; timer tasks change the list that is
being walked; maps are erased by key while several objects share the key; a full
socket makes a send loop spin in the looper's thread; `stopLoop` overtakes what
was posted before it; a shift is done in a type that is too narrow. The
hazards in `PROJECT.json` name the lines.

What makes each part correct: nothing posted is lost, repeated or slept on, and
`stopLoop` ends the loop; no assertion of a connection's life fails, no dead
connection is touched, its end is told once, after the close, and everything is
reclaimed; a stream comes out as the messages that went in, in a bounded buffer;
what is sent arrives once and in order; a timeout runs once, in its tick, unless
cancelled; sessions, maps and timeouts agree; datagrams go out and are handed on in
order, each as it is, and the endpoint goes on; a client hands its connection over
once, open, and closes what it opened; the tree of bitmaps is the set of the free
places; messages are handled in order and an
ordinary stop drains them; lines logged by any thread get into the file once, in
one piece, also those that are cached or queued when the logger is destroyed.

## 2. Modules

```
Mailbox  <--- refines ---  MultiplexLooper
   |  (the queues of TcpServer and TcpClient are the mailbox's)
ConnLife <--- refines ---  TcpServer
TcpClient
VecBuffer <--- extended by --- TcpReceive
TcpSend
Dispatcher, VecBuffer <--- extended by --- UdpEndpoint
HashedWheelTimer <--- extended by --- SessionManager
MessageLooper
LogPipeline
BitmapTree
```

| Module of proofs | Proves theorems of |
|---|---|
| `MultiplexLooper_proofs` | `MultiplexLooper`, and `TcpClient`, which owns a loop |
| `TcpServer_proofs` | `TcpServer` |
| `TcpConnection_proofs` | `TcpReceive` and `TcpSend`, the two directions of a connection |
| `UdpEndpoint_proofs` | `UdpEndpoint`, and `BitmapTree`, whose pool its header includes |
| `SessionManager_proofs` | `HashedWheelTimer` and `SessionManager` |
| `MessageLooper_proofs`, `LogPipeline_proofs` | the module of that name |
| `SequenceLemmas` | lemmas that several of these use |

Every `MCx` module is the small instance of `x`. A definition introduced by a comment
`Faulty:` is a plausible wrong version of the definition after it, used to show that a
property notices it.

**Mailbox** states what a looper promises: closures run in the order they were
posted, each once, until the loop is over.

**MultiplexLooper** is `MultiplexLooper.cpp` and its header. The loop's position
(`loopPc`) goes through the flag test, `epoll_wait`, dispatch of each reported
eventfd, and the run of the swapped vector. Posting is two steps, push under the
lock and write of the eventfd, as is stopping. The kernel's part is each eventfd's
counter and the edge triggered ready list. Any thread, the loop's own included,
may call; closures that call back run in the middle of `executeRunnables`.

**ConnLife** and **TcpServer** follow connections. A looper thread executes a stack
of small operations (`todo`), one per access that another thread can see: test of
`_attached`, `epoll_ctl`, setting the flag, close, close handler, erasing from
`_connSet`, dropping a reference. An event is what `epoll_wait` put in its array,
so it may be stale when dispatched. `AttachInline` says whether the connection
handler attaches the connection itself, as `test.cpp` does, or posts the call to
the connection's looper; `Kicks` and `MaxSends` let a client thread call
`removeConnection` and `send`; `Resets` lets peers reset. Of `sendInternal` this
module has what it does to the connection. A buffer that is not empty leaves the
channel as it is, because what `writev` returns is positive or, as `size_t`, -1.
With `EmptySends` a client may also send an empty one: `writev` returns 0 and the
errno that is there decides. Either `EnableWrite` makes the mask that of a one shot
write (`watch`), or `Cut` closes the socket under a channel that stays attached and
calls the close handler, whose `removeConnection` detaches a descriptor that is
gone (`cut` says which connections).

**TcpReceive** has one connection's stream as positions, with the message bounds
as a constant. The peer writes as many bytes at a time as it likes; a constant
`Ahead` says how many messages one that waits for answers sends, and `burst` is
true once the peer has written more. One `readv` with its two iovecs is one step,
and goes round again when it filled both; so is one message taken by `readMessage`,
and so is the return that makes room for the next one. `spilled` is true once a
`readv` has put bytes into the second iovec, which `handleRead` copies but does not
count. `Received` is what holds until then, `Contained` what peers that wait may
rely on. `LenField` is the length as the sender's header has it.

**TcpSend** has the send list as ranges of positions. `writev`'s -1 is the largest
`size_t`, as in the code. `markSended` is a loop: `Left` is what remains of `sended`
when it comes to a buffer, `Stops` are the buffers that end it, and the first of
those splits the list. What the read past the end yields is chosen
nondeterministically. `CloseAndTell` is the error branch, with the call of the close
handler counted in `told`.

**VecBuffer** is a buffer as a value: vector size, offset of what is readable, its
length, and the operations on them. **Dispatcher** has the list of handlers for
everything, the map of those for a command, and `visit`, the walk that `dispatch` is
in. `TcpReceive` takes the buffer's operations from VecBuffer. **UdpEndpoint** extends
both: its looper takes a posted send or an event, receives one datagram per step,
calls the handlers one by one, and sends one buffer per step of the send loop. A
handler may answer, which runs the send loop in the middle of the read loop, or
register another handler. The kernel's part is a queue of datagrams, a send buffer
that fills and drains, failing calls, and the edge and one shot rules of epoll.

**TcpClient** has the client code's thread (`phase` and the rest of the statement
it is in, `todo`), the client's own looper thread (`lpc`), the looper's queue, and
the descriptor: whether this client still owns the number (`fd`) and who is
attached to it. `connect` blocks the looper; the client code decides when it lets
go of the connection. `OthersOpen` lets the rest of the program open a descriptor
that gets the number just closed.

**BitmapTree** keeps each layer as a set of bit numbers, with words of `LongBits` bits
and a shift in a type of `IntBits`. `Require` and `Turnback` walk the layers;
`shifted` remembers that a shift has set another bit than the one that was meant, and
the properties hold until then: in every word the shift is right for the bits of the
half that an `int` reaches, other than the int's sign. `Construct` and `Destruct` are
the two uses of the pool by `FixedBuffer`.

**HashedWheelTimer** has the wheel and the timerfd that drives it. A tick is a walk
with steps of its own, because a task runs in the middle of it and may add and
cancel. History variables keep the clock at `addTimeout`.

**SessionManager** extends the timer: a heartbeat, or the
application's `touchSession(cid)` (`TouchByCid`), adds a timeout and cancels the one
before, and the timer's step that runs a task is joined with `removeSession`.
The application's logout calls `cancelTimeout` before `removeSession`, which
itself leaves the timeout armed; a timeout that stays armed would remove the next
session of the same connection (`LogoutArmed` shows it).

**MessageLooper** has the mutex, the condition variable with spurious wakeups, and
the message taken, with the `what` that decides its way: `MSG_TERM` ends the loop,
`MSG_FUNC` is a functor, and any other goes to the handler. The mutex is held while
one of these runs, as in the code.

**LogPipeline** follows the bytes of log lines through `SingleCache`, the queue of
chunks and the file. `PrintLogLn` has a line of the size that `LineSize` gives: its
prefix and text, cut where the line buffer (`BufSize`) ends, and the end of the line.
A text of no bytes is not logged. It reserves room under the cache's mutex, with the
flush when there is none; `CopyByte` is the `memcpy` that runs after the mutex is
free. The writer thread's test of the queue and its sleep are two steps that hold
`DailyLogFile::_mutex`, so that a notification without the mutex would be lost. It
runs before `createNewFile` has opened the file, as in the constructor. `phase` is
the thread that makes and destroys the logger; destruction begins when no thread
logs any more. History variables say which lines were flushed before they were
copied (`late`) and which were copied over by those (`hit`).

## 3. Runs

| Run | Instance | Shows |
|---|---|---|
| `looper` | two posting threads and the loop's, 2 closures, 2 calls of stop or wakeup | no closure, wakeup or stop is lost; the loop refines `Mailbox`; under fairness everything posted runs and `stopLoop` ends the loop |
| `server_one_looper` | 1 looper, 2 connections, attach in the handler; resets, removals and a send, of an empty buffer too, by a client thread | no assertion fails but after a `sendInternal` that closed a connection under its channel; flag and epoll in step for all others; a connection that is not reset ends in order, whatever happens to the other |
| `server_two_loopers` | 2 loopers, 2 connections, attach posted | no assertion fails and no dead connection is touched across loopers; refines `ConnLife`; an end that comes apart from data is reclaimed |
| `receive` | 9 messages of 3 to 8 bytes in buffers of 20 and 2; a peer that waits for the delivery of each group of one to three, or writes up to all 43 bytes at once | `ReceiveInv`: stream and delivery as sent until a `readv` reaches the second iovec, bounded buffer for the peer that waits; the socket is emptied whatever comes; no whole message stays behind; what was sent is delivered |
| `send` | batches of up to 3 buffers of 0, 2 or 3 bytes, 2 per `writev`, a socket that fills and fails | the list stays well formed; order and completeness where the code keeps them: equal buffers, written whole |
| `udp` | one client thread and handlers that answer, 2 sends, 2 datagrams of 0, 1 or 3 bytes with an mtu of 2, a full socket, failing calls, detach and attach | order and completeness in both directions, handlers in the order of registration, no edge lost; what is posted is sent unless the endpoint closes |
| `client` | 1 start, `stopWork` at any time, a connection that is kept, a number that is used again | the connection is handed over once and open, `stopWork` returns, no assertion fails as long as the handler does not attach, the descriptor is closed or its closure was overtaken |
| `pool` | 35 places, words of 6 bits, shifts of 3 | while shifts are right the tree is the set of the free places and the search ends in null exactly when there is none |
| `timer` | 2 timeouts, wheel of 3 rounded to 4, delays of 0, 1, 4, 5 ticks, two lost expirations | runs once, not when cancelled, not early, late only by lost expirations; what is pending ends |
| `session` | 2 users with a connection each, 2 sessions, touched by heartbeats and by connection until the clock is 2 | maps and timeouts agree, only idle sessions are removed, and at last |
| `message` | 2 threads, 3 messages | order, drain; callers get through, what is posted is handled |
| `log` | 2 threads, 3 lines of 3 or 4 bytes, one kind cut at the line buffer's end, a cache of 6, a file that may not open | all room gets into the file once; only a flush before the copy damages lines; what is flushed is written, with or without a destruction; the destructor returns |

Bounds. Two posting threads and the loop's own exhibit every pairwise race of the
looper; a second closure is needed for order to be disturbed. Two connections are
needed for the round robin and for events of one while the other is handled; one
thread per looper is the code's structure; a watch that changes needs one send. In
`receive` the 43 bytes of the stream are more than one `readv` takes (22), and the
buffer of 20 is no multiple of a message or a group: both iovecs fill, the loop goes
round, `enlarge` and the replacement of an empty buffer happen, and a message is cut
at every byte. In `pool` a shift is right for the last two of the six bits of a word,
on the leaves and above, so that places are given back in the right way, alone and
one after the other, also when both words had become 0, and are taken again; a tree
that is exhausted, in part refilled and exhausted again is among the states.
`MCBitmapTree_deep` checks the same on three layers of words of four bits.
The wheel's bounds let a timeout go a whole round and be added in the bucket under
the walk. Three lines of three or four bytes in a cache of six, where two short ones
fit and nothing else does, give two flushes, one of them under a copy, and a rest for
the destructor. The constants named "bound" in the modules only cut off the
environment: what peers send, what clients call, how far the clock goes.

Some properties hold of a part of the behaviours only, and say so in their
statement: `NoUseAfterFree` excepts resets and sends, `OrderlyEnd` the connection
that is reset, `OnlyCutsFail` the assertions after `sendInternal` closed a connection
and the flag of that connection, `Received`, `NoMessageLeft` and `SentIsDelivered`
what comes after a `readv` reached the second iovec, `Contained` a peer that does not
wait, `EqualSentInOrder` unequal, empty or partly written buffers,
`EndIsReclaimed` an end that arrives behind data that is still unread,
`IntactUnlessLate` lines that were flushed too early or hit by one,
`NoStrandedDatagram` an endpoint whose watch for reading was replaced by one for
writing, `PostedIsSent` one that closed, `TreeIsFreeSet` and `NullWhenExhausted`
a tree in which a shift missed. `ServerInv` contains `NoUseAfterFree`. In each case
the model shows a run of the code that breaks the unrestricted property.

### Where the code disagrees with its own statements

Each of these ends in the violation named here, checked with the property for
its only one: either in a configuration that stands beside the runs, or in a run's
configuration, with one constant changed where the table says so. They delimit what
the passing runs claim.

| Configuration | Property | What happens | Stated at |
|---|---|---|---|
| `MCTcpServer_two` with `AttachInline = TRUE` | `NoAssertFailure` | attach in the handler of another looper's connection, as `test.cpp:142` does, races the end of stream: `epoll_ctl` fails | `include/MultiplexLooper.hpp:168` |
| `MCTcpServer_two` with `Kicks = TRUE` | `NoAssertFailure` | two loopers detach one connection | `include/MultiplexLooper.hpp:168` |
| `MCTcpServer_coalesced` | `EndIsNotified` | data and end of stream in one edge: the short read ends the loop, the end is never seen | `include/TcpConnection.hpp:74` |
| `MCTcpServer_one` | `NoAssertFailure` | an empty buffer is sent and the errno is stale: the socket is closed, the channel stays attached, and the removal deletes a descriptor that is gone | `include/MultiplexLooper.hpp:168` |
| `MCTcpServer_one` | `NotifiedAfterClose` | EPOLLHUP: close handler called with the descriptor open | `include/TcpConnection.hpp:179` |
| `MCTcpReceive_long` | `StreamIntact` | bytes read into the pending buffer are copied but not marked: the next read overwrites them | `TcpConnection.cpp:43`, `TcpConnection.cpp:51` |
| `MCTcpReceive_header` | `DecodeAccepts` | a header without content fails an ASSERT | `netpack/FieldLenNetPack.hpp:263` |
| `MCTcpReceive_huge` | `NoMessageLeft` | an unsigned length read as signed | `netpack/FieldLenNetPack.hpp:148` |
| `MCTcpSend_mixed` | `SentOnceInOrder` | the wrong buffer's size is subtracted; bytes are sent twice | `include/TcpConnection.hpp:137` |
| `MCTcpSend_full` | `NothingVanishes` | EAGAIN: -1 in a `size_t` counts as everything sent, the list is dropped | `TcpConnection.cpp:96-99` |
| `MCTcpSend_full` | `SendSurvives` | the end of the list is dereferenced | `test.cpp:138` |
| `MCSessionManager_places` | `FoundByUinOrCid` | one session's end takes the user's other session out of one map | `netpack/Session.hpp:168` |
| `MCLogPipeline_torn` | `LinesIntact` | the cache is flushed between the reservation of a line and its `memcpy`: the chunk has old bytes, and the copy lands in another line's room | `include/SingleCache.hpp:39` |
| `MCSessionManager_users` | `BoundToUser` | a heartbeat of another user on the same connection is ignored | `netpack/Session.hpp:12-13` |
| `MCUdpEndpoint` | `SendReturns` | an error of `sendto` closes the socket and the loop goes on with it for ever | `include/UdpEndpoint.hpp:183` |
| `MCUdpEndpoint` with `Errors = FALSE` | `ReceivingGoesOn` | after the first EAGAIN the channel watches for writing, once, and for nothing after that | `include/UdpEndpoint.hpp:184` |
| `MCUdpEndpoint_payload` | `ReadablePartIsSent` | a datagram carries the part of the buffer that is not written yet | `include/UdpEndpoint.hpp:46-52` |
| `MCTcpClient` with `AttachInHandler = TRUE` | `NoAssertFailure` | attaching the connection fails: its descriptor is in epoll already | `include/MultiplexLooper.hpp:168` |
| `MCTcpClient` with `MaxStarts = 2` | `NoAssertFailure` | a second `startWork` meets what the first one left | `include/MultiplexLooper.hpp:168` |
| `MCTcpClient` | `ClosesItsOwn` | connection and connector both close the number, the second time somebody else's | `include/InetSock.hpp:55` |
| `MCTcpClient` | `StopCloses` | `stopLoop` overtakes the closure that closes the socket | `TcpClient.cpp:23-28` |
| `MCTcpClient` | `DataIsRead` | a connection that is not attached is never read; one that is cannot be attached | `TcpClient.cpp:19` |
| `MCBitmapTree_turnback` | `TurnedBackIsFree` | with words of 64 bits and an `int` of 32 a shift sets other bits; `OneHolder` fails there too | `include/BitmapTree.hpp:56` |

Worth knowing, though no statement in the code denies it: a timeout that is added
from a task while an expiration is unread can run one tick early, because the next
tick begins at once (`NeverEarly` says so); and every expiration that is read
together with another one makes all timeouts of the wheel later by one tick.

### Fairness

`startLoop`'s thread, and a call under way in a posting thread, keep running:
weak fairness of their steps. No fairness is assumed of callers' decisions or of
peers. `TcpServer` has weak fairness of each looper. The timer:
weak fairness of the clock and of a walk under way, strong fairness of the read
because the owner may detach the timer between two reads, and the owner starts a
stopped timer again. `MessageLooper` and `LogPipeline`: a weakly fair mutex, and
spurious wakeups end at some point; nobody has to log or to destroy a logger, but a
destructor that has begun goes on. `UdpEndpoint`: weak fairness of the looper and of
the network, which takes what is in the send buffer while the loop spins on EAGAIN.
`TcpClient`: weak fairness of the looper's thread, whose `connect` ends by success
or failure, and of the statements of a `startWork` or `stopWork` that has begun;
nobody has to stop a client.

## 4. Proofs

Checked by TLAPS for every value of the constants that satisfies the modules'
assumptions.

**MultiplexLooper_proofs.** `LoopInv` is inductive: types, that the local vector
and the event array are empty outside their loops (`LocalsScoped`), and the four
safety properties of the loop. The properties are not inductive alone: that a
wakeup is still ahead depends on `EventReadNeverBlocks` (an event that is reported
has a nonzero counter) and on where the loop is. One lemma per action shows that
it preserves the invariant. From it: `LoopInvariant`, `Conservation`,
`WakeupKept`, `StopKept`, `ReadsNeverBlock`; `LoopRefinesMailbox` shows that every
step is a step of `Mailbox` or a stutter, with the local vector in front of
`_runnables` as the mailbox's queue.

**TcpConnection_proofs.** Receiving: lemmas on ranges of stream positions
(`BytesConcat`, `BytesPart`) turn appending and splitting of buffers into arithmetic.
The hypotheses are about what is sent. `Encodable`: each message is longer than a
header and below half of the length field's range. For every peer that sends such
messages, whatever it writes at a time, `Received` is inductive with the types: `rcv`
is the stream from the last message that was taken to the last byte read, until a
`readv` reaches the second iovec, whose bytes the code loses. From it
`DeliveredUnchanged` and, with a second invariant about the loop's exit
(`NothingWhole`), `NoMessageStays`. `Modest` adds the peers that wait: they send
messages in groups, each when the one before was delivered and at most half of
`_predMsgLen`. For them `Contained` is inductive. Its part that matters is `RestFits`:
the rest of the group that began fits behind what is in the buffer, so that `readv`
never gets to its second iovec and `ensure` never enlarges; between groups the buffer
is empty and `handleRead` replaces it when less than half is left. From it:
`BufferStaysSmall` and `ReceiveInvariant`. `SocketEmptied` needs no such assumption:
for every stream and every peer no byte stays in the socket without an edge. Sending:
`SendInv` is `SendSpec`'s invariant. `SendTypeOK` alone is inductive for any buffers
and any results of `writev`, because `MarkSended` always leaves a tail of the list
whose first buffer has lost a part of its front (`Left`, `Stops` and `Min` on them;
what `Minus` wraps to does not matter). That the close handler is told once, also when
more is sent on a closed socket, is part of it: the -1 of a closed descriptor counts
as positive and never gets to the error branch. `EqualSentInOrder` is not: it needs
`Whole`, that while every `writev` took all it was given the list is what was queued
behind the wire, in ranges of one size that touch each other. Then `writev`'s result
is a multiple of that size, the loop of `markSended` erases as many buffers, and the
wrong size that it subtracts is the right one. From it, without a hypothesis:
`SendInvariant`, `ListWellFormed`, `EqualBuffersArrive`.

**MessageLooper_proofs.** `LooperInv` and `StopDrains` together are inductive.
`LooperInv` carries what `StopDrains` needs: that the numbers of messages are
accounted for (`Accounted`) and that what was posted before an ordinary message is
ahead of it in the queue or seen already (`WaitsBehind`). One lemma for each part
and step; the lemmas on sequences say where an element is after a push in front or
behind. From it: `LooperInvariant`, `OrdinaryStopDrains`.

**SequenceLemmas.** The library's induction theorems take an operator as a
parameter. What is needed is stated for sets instead: induction over a set of
naturals (`SetInduction`) and that a recursive function on `0 .. n` has the values
its equation says (`RecursionExists`), both from the well-founded theorem for sets.
They give `1 << s` of the wheel, the releases of a swapped vector, the sizes and
offsets of the tree's layers and `Left` of `markSended` their meaning. `FlattenSeq`
is the community modules' fold; `FlattenConcats` turns it into such a function, and
`FlattenAppend` and `FlattenHead` follow.

**TcpServer_proofs.** Hypothesis `Calm`: peers do not reset, no client thread asks for
removals or sends an empty buffer, and a connection handler that attaches does so in
the connection's own looper (`AttachInline` with one looper, or the posted attach).
These are the instance of `server_two_loopers`, for any loopers and connections and
with sends of buffers that are not empty; `server_one_looper` has resets, removals and
empty buffers, and its properties, `OnlyCutsFail` and `OrderlyEnd`, stay with TLC. The
hypothesis is needed: removals by client threads, attaching across loopers and empty
buffers break `ServerInv`, resets break `NotifiedAfterClose` (the last table of
section 3). The properties speak of flags, epoll and the descriptor, but what makes
them true is what is left to do: `Works(s, c, w)` says that the operations on `c`
among the statements and closures of a thread are exactly the word `w`. `Stage` lists
the seven situations of a connection, each with its word in its own looper and in the
main one and the values of every variable about it: between `add` and `set` epoll
knows it and the flag does not, and so on. `IInv` is `Stage` of every connection, and
that reported events are of connections that rest in the same looper (`EventsRest`),
so that no stale event meets a connection that ends. One lemma per statement moves a
connection from stage to stage, and one says that what others do leaves its stage
alone. From it: `ServerInvariant`, `OneOrderlyEnd`, and `LifeCycleImplemented`, the
refinement of `ConnLife` with its stages as the steps.

**SessionManager_proofs.** The wheel: `LateByLost` speaks of the clock, the code of
slots and rounds. `Due(p)`, for a place `p` of a bucket, is the tick whose walk lets
the timeout there run: what is ticked, the way of the hand to the slot (a whole round
if the walk has passed the place), and a round for each of `rounds`. `WheelInv` says
that a pending timeout is in exactly one place (`OnePlace`, `Listed`), that the clock
is what was ticked, lost and not read yet (`Counted`), and that `Due` is neither later
nor sooner than asked (`NotLate`, `NotSoon`; the second has a case for an add from a
task in the middle of a walk). Adding computes slot and rounds from the delay; that
this gives the `Due` that was asked is `DivMod` and `SumMod`, for every power of two
and every delay. Removing from a list under the walk moves places, and with them the
hand. From it: `WheelInvariant`, `NoTimeoutOverlooked`, and from the invariant the
action properties `TaskRunsOnce` and `TaskNotEarly`.

The sessions: on top of `WheelInv`, which every step of the sessions
keeps because it is a step of the timer: each map entry is of its own connection
(`OwnPeer`), each live session's timeout was added at its last touch
(`OwnTimeout`), and `ArmedWhileLive`. From it, for any users and connections:
`TimeoutsAreOfSessions` and `IdleTimerRemovesIdle`, which combines `OwnTimeout` with
`TaskNotEarly`'s argument. `SessionsAgree`, the whole of `SessionInv`, has the
hypothesis `OneConnectionEach`: `MCSessionManager_places` shows that a user with two
connections breaks it.

**UdpEndpoint_proofs.** No hypothesis beyond the constants' types: errors, full
buffers, answers and registrations from handlers are all in. `EndpointInv` adds to
the four properties where the looper is (`Stage`, the read loop's place with the send
loop left aside), that the receive buffer is fresh when a receive begins
(`FreshBuffer`), what a walk has called so far (`WalkInOrder`), that a reported write
event is not of a socket that watches for reading (`EdgeKept`), and that the mailbox
has no message of the looper, so that an answer may overtake it. From it:
`DatagramsSentInOrder`, `DatagramsHandedAsArrived`, `HandlersCalledInOrder`,
`EdgeNotLost`.

The pool, in the same module: `TreeInv` is `TreeIsFreeSet` and `NullWhenExhausted`
with what makes them inductive, until a shift misses: the layers are a `Tree`, bits
within the sizes of the layers, each layer the image of the next under division by
the word; a slot behind the last place has no holder. `Stack` says what the
constructor's recursion over sizes makes, for every size: the root is one word, each
layer has a bit per word of the next. `Path` is a bit per layer, each the word of the
next; `SearchFinds` shows that the search goes down such a path of bits that are 1 if
the root is not 0, and `SearchFails` that it ends in -1, at no word behind a layer, if
it is. `TreeWithout` and `TreeWith` show that taking a bit off a path upwards as long
as words become 0, and setting one as long as they were, keeps a tree. From it:
`TreeInvariant`, `FreeSetKept`, `PlaceWhenFree`, for pools of 0 and 1 places too,
which have no layers.

**LogPipeline_proofs.** `PipeInv` is what both properties need. `LogInv` is about
lengths only, and inductive with `Phases` (nothing is logged after the last flush,
and the writer leaves no chunk behind when it is told to stop). `IntactUnlessLate`
speaks of bytes: it needs where each line is (`Tiled`: lines follow each other, and a
flush comes between two of them), what each copy under way may write (`Writes`: its
own line's room, unless it is late), and which bytes are in the cache (`InCache`) and
in the chunks (`InChunks`) for lines that are neither late nor hit. A copy that
lands in the room of another line marks that line as `hit`; `HitByLate` says that only
late copies do. From it: `BytesAccounted`, `LinesIntactUnlessLate`, and
`IntactWithoutLate`: the early flush is the only cause of a damaged line.

**The client**, in MultiplexLooper_proofs. `OrderInv`: the statements that are left of
a call (`CallInv`); once `stopWork` has posted its closure the last of the queue is
that closure, or the queue is empty and the descriptor closed; and a looper that is in
`connect` has the descriptor open. It holds for any number of starts and handlers that
attach, and gives `ClosedOrLeft` and `HandedOverInTime`. `AttachInv` adds where the
connector's channel is: in epoll exactly from `attach` to `detach`, while nothing is
queued that closes the descriptor. It has the hypotheses under which `NoAssertFailure`
holds, and says so in `NoFailureInOneStart`: a handler that does not attach the
connection, and the time before a second `startWork`.

Each inductive invariant was checked by TLC as an invariant of the component's run
before it was proved.

Only model-checked: all liveness, because fairness and ENABLED are beyond the prover
(`MailboxSpec` is proved but for its fairness, as `MailboxSafety`); `OnlyCutsFail` and
`OrderlyEnd` with resets, removals by client threads and empty buffers, which are not
`Calm`.

## 5. What is not modelled

- Destructors of `TcpServer` and `LooperPool`, a detached pool, failures of accept,
  reuse of a descriptor number while a stale registration is deleted, or after
  `sendInternal` closed a connection under its channel.
- Handlers replaced while a connection is attached; calls of the timer and of
  heartbeats from other threads than the timer's looper; a timeout cancelled by its
  own task: these are data races or destroyed running closures, with no outcome to
  state.
- Handlers of a `MessageLooper` that post to their own looper: they wait for the
  mutex their own thread holds.
- A log line longer than the cache (`LOG_BUF_SIZE` excludes it), a tag that overruns
  the line buffer, failing writes, and `recreateNewFile`, which nothing calls.
- Destroying a `UdpEndpoint` while closures of `send` are queued (they capture a plain
  `this`), and replacing its handler while it is attached.
- The memory behind the places of a `FixedBuffer` pool and the template arguments of
  `FixedBuffer`, which it passes on in the other order (`include/FixedBuffer.hpp:74`):
  layout, not state.
- Client sockets' addresses and options; a `connect` that never returns.
- `ConsumerLooper` and `TcpPump.cpp`: dead code. Socket wrappers, byte order, time
  and file helpers: system calls and stateless functions.

## 6. Plan

Done, in this order: the looper with its abstract mailbox and proofs; the life of
connections; the receive path with proofs; the send path; the timer and the sessions;
the message looper; the log; the datagram endpoint with the dispatcher; the client;
the tree of bitmaps; the proofs of the safety properties the runs check, those of
`server_one_looper` excepted. Next:

1. Proofs: `OnlyCutsFail` and `OrderlyEnd` for one looper with resets, removals and
   empty buffers, whose stages have the words of two ends that overlap.
2. An abstract log, a sequence of lines that grows and is cut into a file, that
   `LogPipeline` implements when one thread logs.
3. The destructors of the server and of the pool; an endpoint destroyed with sends
   queued.
