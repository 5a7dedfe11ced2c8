------------------------------ MODULE TcpServer ------------------------------
(* src/TcpServer.cpp, src/include/TcpServer.hpp with the parts of             *)
(* TcpAcceptor, TcpConnection, Channel and LooperPool that decide how long a  *)
(* connection lives: which thread attaches, detaches, closes and destroys it  *)
(* while its looper reports events on it.                                     *)
(*                                                                            *)
(* Each looper thread runs a stack of calls; todo[l] is what is left of it,   *)
(* the next statement first, one entry per access to memory or to epoll that  *)
(* another thread can see.  A looper's posted runnables are the queue of      *)
(* Mailbox, which MultiplexLooper implements.  Connections carry their        *)
(* epoll registration, the _attached flag, their descriptor and the holders   *)
(* of their shared_ptr.                                                       *)
(*                                                                            *)
(* The client code is part of the model only as far as it drives the server:  *)
(* its connection handler keeps the connection and attaches it, its close     *)
(* handler forgets it and calls removeConnection; a thread of its own may     *)
(* call removeConnection and send.                                            *)
(* A definition introduced as "Faulty" is a wrong version of the definition   *)
(* after it that a property has to reject.                                    *)
EXTENDS Naturals, Sequences, FiniteSets

CONSTANTS
  Conns,          \* the connections peers open
  Loopers,        \* the pool: a sequence of distinct loopers
  AttachInline,   \* the connection handler calls attach() itself (test.cpp:142);
                  \* otherwise it posts attach() to the connection's looper
  Resets,         \* peers may reset a connection
  Kicks,          \* a client thread may call removeConnection
  MaxSends,       \* bound: connections a client thread calls send on
  EmptySends,     \* send may be given a buffer with nothing readable in it
  MaxChunks       \* bound: how often a peer sends on one connection

Pool == {Loopers[i] : i \in DOMAIN Loopers}
Main == Loopers[1]       \* _mainLooper: the first getLooper() of the pool

ASSUME ServerAssumption ==
  /\ Loopers \in Seq(Pool) /\ Loopers # <<>>
  /\ {AttachInline, Resets, Kicks, EmptySends} \subseteq BOOLEAN
  /\ {MaxSends, MaxChunks} \subseteq Nat

VARIABLES
  \* -- the peers and the kernel
  data,        \* bytes are waiting in the socket
  chunks,      \* how often the peer has sent
  fin, rst,    \* the peer ended its stream, reset the connection
  backlog,     \* established connections that are not accepted yet
  registered,  \* connections in the interest list of their looper's epoll
  edge,        \* connections on the ready list
  fdOpen,      \* connections whose descriptor is open
  \* -- the server
  listening,   \* "no", "yes", "stopped": the acceptor's channel
  nextLooper,  \* LooperPool::_lastLooperIdx + 1
  connSet,     \* _connSet
  looperOf,    \* the looper a connection was built with
  attached,    \* Channel::_attached
  state,       \* "none", "live", "destroyed": the TcpConnection object
  \* -- the looper threads
  queue,       \* posted runnables
  batch,       \* events of the last epoll_wait that are not dispatched yet
  todo,        \* rest of the call being executed
  \* -- the client code
  kept,        \* connections the client code holds a shared_ptr of
  asked,       \* connections removeConnection was called for
  sent,        \* connections send was called for
  hollow,      \* connections whose send was given an empty buffer
  watch,       \* the channel's events: "read", "write" (one shot), "spent"
  \* -- history
  cut,         \* connections sendInternal closed
  apart,       \* connections whose stream ended when no data was waiting
  notified,    \* calls of the close handler
  early,       \* connections whose close handler was called with the fd open
  failure      \* "none", "assert" or "uaf"

peer == <<data, chunks, fin, rst, backlog, apart>>
epoll == <<registered, edge, fdOpen>>
server == <<listening, nextLooper, connSet, looperOf, attached, state>>
threads == <<queue, batch, todo>>
sends == <<sent, hollow, watch, cut>>
client == <<kept, asked, sent, hollow, watch, cut>>
history == <<notified, early, failure>>
vars == <<data, chunks, fin, rst, backlog, apart, registered, edge, fdOpen,
          listening, nextLooper, connSet, looperOf, attached, state, queue,
          batch, todo, kept, asked, sent, hollow, watch, cut, notified, early, failure>>

Op(k, c) == [op |-> k, c |-> c]
OpKinds == {"hup", "err", "read", "attach", "add", "set", "detach", "del",
            "clear", "close", "notify", "remove", "erase", "release", "send", "mod"}
Ops == [op : OpKinds, c : Conns]
Posts == {o \in Ops : o.op \in {"attach", "remove", "send"}}
EventKinds == {"accept", "run"}
Events == [kind : {"conn"}, c : Conns, hup : BOOLEAN, op : {"read", "send"}]
            \cup [kind : EventKinds]

\* TcpAcceptor's constructor: the socket listens, its channel is not attached.
AcceptorInit == listening = "no" /\ backlog = {}

Init ==
  /\ data = [c \in Conns |-> FALSE] /\ chunks = [c \in Conns |-> 0]
  /\ fin = {} /\ rst = {} /\ apart = {}
  /\ registered = {} /\ edge = {} /\ fdOpen = {}
  /\ AcceptorInit
  /\ nextLooper = (1 % Len(Loopers)) + 1       \* Main is taken
  /\ connSet = {}
  /\ looperOf = [c \in Conns |-> Main]
  /\ attached = {}
  /\ state = [c \in Conns |-> "none"]
  /\ queue = [l \in Pool |-> <<>>]
  /\ batch = [l \in Pool |-> {}]
  /\ todo = [l \in Pool |-> <<>>]
  /\ kept = {} /\ asked = {} /\ sent = {}
  /\ hollow = {} /\ watch = [c \in Conns |-> "read"] /\ cut = {}
  /\ notified = [c \in Conns |-> 0]
  /\ early = {} /\ failure = "none"

Running == failure = "none"

------------------------------------------------------------------------------
(* Peers *)

\* What epoll watches for puts a registered socket on the ready list.
Arrives(c, masks) ==
  edge' = IF c \in registered /\ watch[c] \in masks THEN edge \cup {c} ELSE edge

Connect(c) ==
  /\ Running /\ state[c] = "none" /\ c \notin backlog
  /\ backlog' = backlog \cup {c}
  /\ UNCHANGED <<data, chunks, fin, rst, apart, epoll, server, threads, client, history>>

PeerOpen(c) == Running /\ (c \in backlog \/ c \in fdOpen) /\ c \notin fin \cup rst

PeerSend(c) ==
  /\ PeerOpen(c) /\ ~data[c] /\ chunks[c] < MaxChunks
  /\ data' = [data EXCEPT ![c] = TRUE]
  /\ chunks' = [chunks EXCEPT ![c] = @ + 1]
  /\ Arrives(c, {"read"})
  /\ UNCHANGED <<fin, rst, backlog, apart, registered, fdOpen, server, threads, client,
                 history>>

PeerEnd(c) ==
  /\ PeerOpen(c)
  /\ fin' = fin \cup {c}
  /\ apart' = IF data[c] THEN apart ELSE apart \cup {c}
  /\ Arrives(c, {"read"})
  /\ UNCHANGED <<data, chunks, rst, backlog, registered, fdOpen, server, threads, client,
                 history>>

PeerReset(c) ==
  /\ Resets /\ PeerOpen(c)
  /\ rst' = rst \cup {c}
  /\ Arrives(c, {"read", "write"})
  /\ UNCHANGED <<data, chunks, fin, backlog, apart, registered, fdOpen, server, threads,
                 client, history>>

------------------------------------------------------------------------------
(* epoll: one round of MultiplexLooper::startLoop *)

Readable(c) == data[c] \/ c \in fin \cup rst

\* A hangup is always watched for, until a one shot event is spent.  A socket
\* that watches for writing has room: nothing but an empty buffer was sent.
Ready(c) ==
  \/ watch[c] = "read" /\ Readable(c)
  \/ watch[c] = "write"
Event(c) ==
  [kind |-> "conn", c |-> c, hup |-> c \in rst,
   op |-> IF watch[c] = "read" THEN "read" ELSE "send"]

Reported(l) ==
  {Event(c) : c \in {d \in edge : looperOf[d] = l /\ Ready(d)}}
  \cup (IF queue[l] # <<>> THEN {[kind |-> "run"]} ELSE {})
  \cup (IF l = Main /\ listening = "yes" /\ backlog # {} THEN {[kind |-> "accept"]} ELSE {})

Idle(l) == Running /\ todo[l] = <<>>

\* epoll_wait: an array of Channel pointers; edge triggered channels leave the
\* ready list, a one shot event is spent, the listening socket is level
\* triggered and stays.
EpollWait(l) ==
  /\ Idle(l) /\ batch[l] = {} /\ Reported(l) # {}
  /\ batch' = [batch EXCEPT ![l] = Reported(l)]
  /\ edge' = {c \in edge : looperOf[c] # l}
  /\ watch' = [c \in Conns |-> IF c \in edge \ edge' /\ watch[c] = "write" THEN "spent"
                               ELSE watch[c]]
  /\ UNCHANGED <<peer, registered, fdOpen, server, queue, todo, kept, asked, sent, hollow, cut,
                 history>>

Take(l, e) == Idle(l) /\ e \in batch[l] /\ batch' = [batch EXCEPT ![l] = @ \ {e}]
Begin(l, s) == todo' = [todo EXCEPT ![l] = s]

\* The dispatch of one array element: handleClosed, handleError, and handleRead
\* or handleWrite, which is sendInternal.
DispatchConn(l, e) ==
  /\ Take(l, e) /\ e.kind = "conn"
  /\ Begin(l, (IF e.hup THEN <<Op("hup", e.c), Op("err", e.c)>> ELSE <<>>)
              \o <<Op(e.op, e.c)>>)
  /\ UNCHANGED <<peer, epoll, server, queue, client, history>>

\* The shared_ptrs that runnables are bound to; the closure of send holds a
\* plain pointer.
Releases(q) ==
  LET f[n \in 0 .. Len(q)] ==
        IF n = 0 THEN <<>>
        ELSE IF q[n].op = "send" THEN f[n - 1] ELSE Append(f[n - 1], Op("release", q[n].c))
  IN  f[Len(q)]

\* executeRunnables: swap, run each, then the vector goes with what it holds.
DispatchRun(l, e) ==
  /\ Take(l, e) /\ e.kind = "run"
  /\ Begin(l, queue[l] \o Releases(queue[l]))
  /\ queue' = [queue EXCEPT ![l] = <<>>]
  /\ UNCHANGED <<peer, epoll, server, client, history>>

\* LooperPool::getLooper, round robin.
GetLooper == nextLooper' = (nextLooper % Len(Loopers)) + 1

\* TcpServer::onNewConnection on the next looper of the pool; the client's
\* connection handler keeps the connection.
OnNewConnection(c) ==
  /\ state' = [state EXCEPT ![c] = "live"]
  /\ looperOf' = [looperOf EXCEPT ![c] = Loopers[nextLooper]]
  /\ GetLooper
  /\ connSet' = connSet \cup {c}
  /\ kept' = kept \cup {c}

\* TcpAcceptor::handleRead, one accept per event, onNewConnection, and the
\* client's connection handler, which attaches the connection or posts that.
DispatchAccept(l, e, c) ==
  /\ Take(l, e) /\ e.kind = "accept" /\ c \in backlog
  /\ backlog' = backlog \ {c}
  /\ fdOpen' = fdOpen \cup {c}
  /\ OnNewConnection(c)
  /\ IF AttachInline \/ Loopers[nextLooper] = Main
     THEN /\ Begin(l, <<Op("attach", c), Op("release", c)>>)
          /\ UNCHANGED queue
     ELSE /\ Begin(l, <<Op("release", c)>>)
          /\ queue' = [queue EXCEPT ![Loopers[nextLooper]] = Append(@, Op("attach", c))]
  /\ UNCHANGED <<data, chunks, fin, rst, apart, registered, edge, listening, attached, asked,
                 sends, history>>

------------------------------------------------------------------------------
(* The statements of a looper thread *)

\* Touching an object that is gone is a use after free.
At(l, k, c) ==
  /\ Running /\ todo[l] # <<>> /\ Head(todo[l]) = Op(k, c)
Goes(l, s) == todo' = [todo EXCEPT ![l] = s \o Tail(@)]
HasData(c) == c \in fdOpen /\ data[c]
Ended(c) == c \notin fdOpen \/ c \in fin \cup rst      \* readv: EBADF, 0, ECONNRESET
Fails(c, broken) ==
  failure' = IF state[c] = "destroyed" THEN "uaf" ELSE IF broken THEN "assert" ELSE failure

\* Faulty: the handler is told before the descriptor is closed.
ReadNotifiesFirst(l, c) ==
  /\ At(l, "read", c)
  /\ \E full \in BOOLEAN :
       Goes(l, IF HasData(c)
               THEN IF full THEN <<Op("read", c)>> ELSE <<>>
               ELSE IF Ended(c)
                    THEN <<Op("detach", c), Op("notify", c), Op("close", c)>>
                    ELSE <<>>)
  /\ data' = [data EXCEPT ![c] = FALSE]
  /\ Fails(c, FALSE)
  /\ UNCHANGED <<chunks, fin, rst, backlog, apart, epoll, server, queue, batch, client,
                 notified, early>>

\* Faulty: the descriptor is closed while it is still registered.
ReadClosesFirst(l, c) ==
  /\ At(l, "read", c)
  /\ \E full \in BOOLEAN :
       Goes(l, IF HasData(c)
               THEN IF full THEN <<Op("read", c)>> ELSE <<>>
               ELSE IF Ended(c)
                    THEN <<Op("close", c), Op("detach", c), Op("notify", c)>>
                    ELSE <<>>)
  /\ data' = [data EXCEPT ![c] = FALSE]
  /\ Fails(c, FALSE)
  /\ UNCHANGED <<chunks, fin, rst, backlog, apart, epoll, server, queue, batch, client,
                 notified, early>>

\* Faulty: the loop goes on after the end of stream.
ReadGoesOn(l, c) ==
  /\ At(l, "read", c)
  /\ \E full \in BOOLEAN :
       Goes(l, IF HasData(c)
               THEN IF full THEN <<Op("read", c)>> ELSE <<>>
               ELSE IF Ended(c)
                    THEN <<Op("detach", c), Op("close", c), Op("notify", c), Op("read", c)>>
                    ELSE <<>>)
  /\ data' = [data EXCEPT ![c] = FALSE]
  /\ Fails(c, FALSE)
  /\ UNCHANGED <<chunks, fin, rst, backlog, apart, epoll, server, queue, batch, client,
                 notified, early>>

\* TcpConnection::handleRead: data first; a short read ends the loop, a full
\* one asks again; then the error or the end of stream.  Nothing there: EAGAIN.
Read(l, c) ==
  /\ At(l, "read", c)
  /\ \E full \in BOOLEAN :
       Goes(l, IF HasData(c)
               THEN IF full THEN <<Op("read", c)>> ELSE <<>>
               ELSE IF Ended(c)
                    THEN <<Op("detach", c), Op("close", c), Op("notify", c)>>
                    ELSE <<>>)
  /\ data' = [data EXCEPT ![c] = FALSE]
  /\ Fails(c, FALSE)
  /\ UNCHANGED <<chunks, fin, rst, backlog, apart, epoll, server, queue, batch, client,
                 notified, early>>

\* Channel::attach: the flag is read, epoll_ctl, the flag is written.
Attach(l, c) ==
  /\ At(l, "attach", c)
  /\ Goes(l, IF c \in attached THEN <<>> ELSE <<Op("add", c), Op("set", c)>>)
  /\ Fails(c, FALSE)
  /\ UNCHANGED <<peer, epoll, server, queue, batch, client, notified, early>>

\* MultiplexLooper::updateChannel: ASSERT(ret >= 0)
Add(l, c) ==
  /\ At(l, "add", c)
  /\ registered' = registered \cup {c}
  /\ edge' = IF Ready(c) THEN edge \cup {c} ELSE edge
  /\ Goes(l, <<>>)
  /\ Fails(c, c \in registered \/ c \notin fdOpen)
  /\ UNCHANGED <<peer, fdOpen, server, queue, batch, client, notified, early>>

Set(l, c) ==
  /\ At(l, "set", c)
  /\ attached' = attached \cup {c}
  /\ Goes(l, <<>>)
  /\ Fails(c, FALSE)
  /\ UNCHANGED <<peer, epoll, listening, nextLooper, connSet, looperOf, state,
                 queue, batch, client, notified, early>>

\* Channel::detach
Detach(l, c) ==
  /\ At(l, "detach", c)
  /\ Goes(l, IF c \in attached THEN <<Op("del", c), Op("clear", c)>> ELSE <<>>)
  /\ Fails(c, FALSE)
  /\ UNCHANGED <<peer, epoll, server, queue, batch, client, notified, early>>

Del(l, c) ==
  /\ At(l, "del", c)
  /\ registered' = registered \ {c}
  /\ edge' = edge \ {c}
  /\ Goes(l, <<>>)
  /\ Fails(c, c \notin registered)
  /\ UNCHANGED <<peer, fdOpen, server, queue, batch, client, notified, early>>

Clear(l, c) ==
  /\ At(l, "clear", c)
  /\ attached' = attached \ {c}
  /\ Goes(l, <<>>)
  /\ Fails(c, FALSE)
  /\ UNCHANGED <<peer, epoll, listening, nextLooper, connSet, looperOf, state,
                 queue, batch, client, notified, early>>

\* _sock.close(); the kernel drops the registration with the descriptor.
CloseFd(l, c) ==
  /\ At(l, "close", c)
  /\ fdOpen' = fdOpen \ {c} /\ registered' = registered \ {c} /\ edge' = edge \ {c}
  /\ Goes(l, <<>>)
  /\ Fails(c, FALSE)
  /\ UNCHANGED <<peer, server, queue, batch, client, notified, early>>

\* TcpServer::removeConnection from thread l, or from a client thread.
PostRemove(c) == queue' = [queue EXCEPT ![Main] = Append(@, Op("remove", c))]

\* The close handler, called with a shared_ptr that goes when it returns: the
\* client forgets the connection and calls removeConnection, which is run on
\* the spot by the main looper's thread (postRunnable) and posted by any other.
Handler(l, c) ==
  /\ notified' = [notified EXCEPT ![c] = @ + 1]
  /\ early' = IF c \in fdOpen THEN early \cup {c} ELSE early
  /\ kept' = kept \ {c}
  /\ asked' = asked \cup {c}
  /\ IF l = Main
     THEN Goes(l, <<Op("remove", c), Op("release", c)>>) /\ UNCHANGED queue
     ELSE Goes(l, <<Op("release", c)>>) /\ PostRemove(c)
  /\ Fails(c, FALSE)
  /\ UNCHANGED <<peer, epoll, server, batch, sends>>

Notify(l, c) == At(l, "notify", c) /\ Handler(l, c)

\* TcpConnection::handleClose on EPOLLHUP; nothing is detached or closed
Hup(l, c) == At(l, "hup", c) /\ Handler(l, c)

\* Channel::defaultErrorHandler calls the same handler
Err(l, c) == At(l, "err", c) /\ Handler(l, c)

\* Faulty: _connSet keeps the connection.
RemoveKeeps(l, c) ==
  /\ At(l, "remove", c)
  /\ Goes(l, <<Op("detach", c)>>)
  /\ Fails(c, FALSE)
  /\ UNCHANGED <<peer, epoll, server, queue, batch, client, notified, early>>

\* TcpServer::removeConnInLoop
RemoveConn(l, c) ==
  /\ At(l, "remove", c)
  /\ Goes(l, <<Op("detach", c), Op("erase", c)>>)
  /\ Fails(c, FALSE)
  /\ UNCHANGED <<peer, epoll, server, queue, batch, client, notified, early>>

Erase(l, c) ==
  /\ At(l, "erase", c)
  /\ connSet' = connSet \ {c}
  /\ Goes(l, <<>>)
  /\ Fails(c, FALSE)
  /\ UNCHANGED <<peer, epoll, listening, nextLooper, looperOf, attached, state,
                 queue, batch, client, notified, early>>

\* sendInternal, what it comes to for the connection (TcpSend has the bytes).
\* The socket takes what is in the list; whatever else writev returns but 0
\* empties the list too, a closed descriptor's -1 as well.  (The read past the
\* end of the list may end the program there, as the model may stop anywhere.)
SendInternal(l, c) ==
  /\ At(l, "send", c) /\ c \notin hollow \cap fdOpen
  /\ Goes(l, <<>>)
  /\ Fails(c, FALSE)
  /\ UNCHANGED <<peer, epoll, server, queue, batch, client, notified, early>>

\* writev of an empty buffer returned 0: the errno that another call has left
\* decides.
NothingWritten(l, c) == At(l, "send", c) /\ c \in hollow \cap fdOpen

\* EAGAIN: the mask is now that of a one shot write, which replaces reading.
EnableWrite(l, c) ==
  /\ NothingWritten(l, c)
  /\ watch' = [watch EXCEPT ![c] = "write"]
  /\ Goes(l, IF c \in attached THEN <<Op("mod", c)>> ELSE <<>>)
  /\ Fails(c, FALSE)
  /\ UNCHANGED <<peer, epoll, server, queue, batch, kept, asked, sent, hollow, cut, notified,
                 early>>

\* Channel::apply, EPOLL_CTL_MOD
Mod(l, c) ==
  /\ At(l, "mod", c)
  /\ edge' = IF c \in registered /\ Ready(c) THEN edge \cup {c} ELSE edge
  /\ Goes(l, <<>>)
  /\ Fails(c, c \notin registered)
  /\ UNCHANGED <<peer, registered, fdOpen, server, queue, batch, client, notified, early>>

\* Faulty: the handler is told before the descriptor is closed.
CutTellsFirst(l, c) ==
  /\ NothingWritten(l, c)
  /\ cut' = cut \cup {c}
  /\ Goes(l, <<Op("notify", c), Op("close", c)>>)
  /\ Fails(c, FALSE)
  /\ UNCHANGED <<peer, epoll, server, queue, batch, kept, asked, sent, hollow, watch, notified,
                 early>>

\* Any other errno: the socket is closed, without detach(), and handleClose called.
Cut(l, c) ==
  /\ NothingWritten(l, c)
  /\ cut' = cut \cup {c}
  /\ Goes(l, <<Op("close", c), Op("notify", c)>>)
  /\ Fails(c, FALSE)
  /\ UNCHANGED <<peer, epoll, server, queue, batch, kept, asked, sent, hollow, watch, notified,
                 early>>

\* Holders of the shared_ptr other than the one thread l is about to drop
Holds(s, c) == \E i \in DOMAIN s : s[i] = Op("release", c)
Bound(s, c) == \E i \in DOMAIN s : s[i].c = c /\ s[i].op # "send"
HeldElsewhere(l, c) ==
  \/ c \in connSet \cup kept
  \/ Holds(Tail(todo[l]), c)
  \/ \E m \in Pool \ {l} : Holds(todo[m], c)
  \/ \E m \in Pool : Bound(queue[m], c)

\* A shared_ptr goes out of scope; the last one runs ~TcpConnection, with its
\* ASSERT(!_channel.isAttached()).
Release(l, c) ==
  /\ At(l, "release", c)
  /\ Goes(l, <<>>)
  /\ IF HeldElsewhere(l, c)
     THEN UNCHANGED <<state, epoll, failure>>
     ELSE /\ state' = [state EXCEPT ![c] = "destroyed"]
          /\ Fails(c, c \in attached)
          /\ fdOpen' = fdOpen \ {c}
          /\ registered' = registered \ {c}
          /\ edge' = edge \ {c}
  /\ UNCHANGED <<peer, listening, nextLooper, connSet, looperOf, attached, queue,
                 batch, client, notified, early>>

Statement(l, c) ==
  \/ Read(l, c) \/ Attach(l, c) \/ Add(l, c) \/ Set(l, c) \/ Detach(l, c)
  \/ Del(l, c) \/ Clear(l, c) \/ CloseFd(l, c) \/ Notify(l, c)
  \/ Hup(l, c) \/ Err(l, c) \/ RemoveConn(l, c) \/ Erase(l, c)
  \/ SendInternal(l, c) \/ EnableWrite(l, c) \/ Mod(l, c) \/ Cut(l, c) \/ Release(l, c)

LooperStep(l) ==
  \/ EpollWait(l)
  \/ \E e \in batch[l] :
       \/ DispatchConn(l, e)
       \/ DispatchRun(l, e)
       \/ \E c \in Conns : DispatchAccept(l, e, c)
  \/ \E c \in Conns : Statement(l, c)

------------------------------------------------------------------------------
(* Client threads *)

AcceptorAttach == listening = "no" /\ listening' = "yes"
AcceptorDetach == listening = "yes" /\ listening' = "stopped"

StartWork ==
  /\ Running /\ AcceptorAttach
  /\ UNCHANGED <<peer, epoll, nextLooper, connSet, looperOf, attached, state,
                 threads, client, history>>

\* An accept event that is already in a batch is still dispatched.
StopWork ==
  /\ Running /\ AcceptorDetach
  /\ UNCHANGED <<peer, epoll, nextLooper, connSet, looperOf, attached, state,
                 threads, client, history>>

\* removeConnection from a client thread, which keeps its own shared_ptr
Kick(c) ==
  /\ Running /\ Kicks /\ c \in kept /\ c \notin asked
  /\ asked' = asked \cup {c}
  /\ PostRemove(c)
  /\ UNCHANGED <<peer, epoll, server, batch, todo, kept, sends, history>>

\* TcpConnection::send from a client thread
Send(c) ==
  /\ Running /\ Cardinality(sent) < MaxSends /\ c \in kept /\ c \notin sent
  /\ sent' = sent \cup {c}
  /\ hollow' \in {hollow} \cup (IF EmptySends THEN {hollow \cup {c}} ELSE {})
  /\ queue' = [queue EXCEPT ![looperOf[c]] = Append(@, Op("send", c))]
  /\ UNCHANGED <<peer, epoll, server, batch, todo, kept, asked, watch, cut, history>>

ConnEnv(c) == Connect(c) \/ PeerSend(c) \/ PeerEnd(c) \/ PeerReset(c) \/ Kick(c) \/ Send(c)

Next ==
  \/ \E l \in Pool : LooperStep(l)
  \/ \E c \in Conns : ConnEnv(c)
  \/ StartWork \/ StopWork

SafetySpec == Init /\ [][Next]_vars

\* The looper threads run; peers and client code do as they please.
Spec == SafetySpec /\ \A l \in Pool : WF_vars(LooperStep(l))

------------------------------------------------------------------------------
(* Properties *)

\* Types, and: what is registered has its descriptor open, and what anybody
\* holds has not been destroyed.
TypeOK ==
  /\ data \in [Conns -> BOOLEAN] /\ chunks \in [Conns -> 0..MaxChunks]
  /\ {fin, rst, backlog, fdOpen, connSet, kept} \subseteq SUBSET Conns
  /\ registered \subseteq fdOpen /\ edge \subseteq registered
  /\ listening \in {"no", "yes", "stopped"}
  /\ nextLooper \in DOMAIN Loopers
  /\ looperOf \in [Conns -> Pool]
  /\ attached \subseteq Conns
  /\ state \in [Conns -> {"none", "live", "destroyed"}]
  /\ \A c \in connSet \cup kept \cup fdOpen : state[c] = "live"
  /\ queue \in [Pool -> Seq(Posts)]
  /\ batch \in [Pool -> SUBSET Events]
  /\ todo \in [Pool -> Seq(Ops)]
  /\ {asked, sent, hollow, cut, early} \subseteq SUBSET Conns /\ apart \subseteq fin
  /\ watch \in [Conns -> {"read", "write", "spent"}]
  /\ notified \in [Conns -> Nat]
  /\ failure \in {"none", "assert", "uaf"}

\* No ASSERT of the connection's life fails: epoll_ctl is asked to add what is
\* not registered and to delete what is (MultiplexLooper.hpp:168), and an
\* attached connection is not destroyed (TcpConnection.hpp:65).
NoAssertFailure == failure # "assert"

\* No looper dispatches an event to a connection, and no posted closure runs on
\* one, that has been destroyed: epoll_event.data.ptr and the captured this
\* are plain pointers.  A reset, whose handlers run one after the other without
\* detaching, and a posted send, which keeps no shared_ptr, are excepted.
NoUseAfterFree == failure = "uaf" => rst \cup sent # {}

\* The end of a connection that was not reset is told to the close handler once
\* and after the close (TcpConnection.hpp:179: "The handler will be called after
\* fd closed"), whatever resets, removals and sends other connections see.
OrderlyEnd == \A c \in Conns \ rst : notified[c] <= 1 /\ c \notin early

\* The same of every connection's close handler.
NotifiedAfterClose == early = {}

\* Whenever no thread is in the middle of attach, detach or close, _attached
\* tells what epoll knows, although the flag and the registration are written
\* in separate statements and by different threads.
InTransit(c) ==
  \E l \in Pool : \E i \in DOMAIN todo[l] :
    todo[l][i].c = c /\ todo[l][i].op \in {"add", "set", "del", "clear", "close"}
FlagMatches(c) == InTransit(c) \/ (c \in attached <=> c \in registered)
FlagMatchesEpoll == \A c \in Conns : FlagMatches(c)

\* What holds of the connections whatever the threads do to them: nothing fails,
\* nothing that is gone is used, and the flags are what epoll knows.
ServerInv == TypeOK /\ NoAssertFailure /\ NoUseAfterFree /\ FlagMatchesEpoll

\* What is left of that when clients send empty buffers.  Where sendInternal
\* closes a connection without detach() its flag is wrong, and detaching it
\* fails the ASSERT; this is the only way to get there, and the flags of all
\* others stay right, those too that watch for writing.
OnlyCutsFail ==
  /\ TypeOK
  /\ NoUseAfterFree
  /\ cut = {} => NoAssertFailure
  /\ \A c \in Conns \ cut : FlagMatches(c)

\* Every connection goes through served, closed, told, gone, in this order.
LifeOf(c) ==
  IF state[c] = "none" THEN "none"
  ELSE IF state[c] = "destroyed" THEN "gone"
  ELSE IF notified[c] > 0 THEN "notified"
  ELSE IF c \notin fdOpen THEN "closed"
  ELSE "open"
Life == INSTANCE ConnLife WITH life <- [c \in Conns |-> LifeOf(c)], removed <- asked
LifeCycle == Life!Spec

\* A peer's end of stream is told to the client code (TcpConnection.hpp:74:
\* "callbacks for read/write error and close event from looper thread").
EndIsNotified ==
  \A c \in Conns : (state[c] = "live" /\ c \in fin) ~> notified[c] > 0

\* A connection whose peer has ended the stream, with no data waiting, is
\* reclaimed: descriptor closed, erased from _connSet and destroyed, whatever
\* threads this takes.
EndIsReclaimed ==
  \A c \in Conns : (state[c] = "live" /\ c \in apart) ~> state[c] = "destroyed"
==============================================================================
