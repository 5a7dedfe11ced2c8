------------------------------ MODULE TcpClient ------------------------------
(* src/TcpClient.cpp and src/TcpConnector.cpp with their headers: a client    *)
(* has one descriptor, which the connector owns and registers, and on which   *)
(* the TcpConnection that is handed to the client code is built as well.      *)
(*                                                                            *)
(* The user's thread goes through startWork, stopWork and the destructor one  *)
(* statement at a time (todo is what is left of the call); the looper runs    *)
(* the closures that were posted, in the order of Mailbox, which              *)
(* MultiplexLooper implements, and may end with closures left once stopLoop   *)
(* was called.  connect blocks the looper.  Elsewhere in the program a        *)
(* descriptor may be opened, which takes the lowest number that is free.      *)
(* A definition introduced as "Faulty" is a wrong version of the definition   *)
(* after it that a property has to reject.                                    *)
EXTENDS Naturals, Sequences

CONSTANTS
  AttachInHandler,   \* the connection handler attaches the connection
  MaxStarts,         \* bound: calls of startWork
  OthersOpen         \* other parts of the program open descriptors

ASSUME ClientAssumption ==
  /\ {AttachInHandler, OthersOpen} \subseteq BOOLEAN
  /\ MaxStarts \in Nat \ {0}

VARIABLES
  \* -- the user's thread
  todo,        \* what is left of the call it is in
  phase,       \* "new", "started", "stopped", "destroyed": calls made
  starts,      \* calls of startWork
  kept,        \* the client code holds the connection
  \* -- the looper
  lpc,         \* "none", "loop", "connecting", "handing", "over"
  queue,       \* posted closures
  stopping,    \* stopLoop was called; a looper never forgets it
  \* -- the descriptor
  fd,          \* its number is: "own", "free", "foreign" (somebody else's)
  owner,       \* the channel epoll has for it: "none", "connector", "connection"
  connected,   \* connect succeeded
  data,        \* the peer's bytes: "none", "waiting", "ignored", "read"
  \* -- the objects
  opened,      \* the connector's _sock has its descriptor (it is not -1)
  attached,    \* the channels whose _attached is set
  conn,        \* the TcpConnection: "none", "live", "destroyed"
  \* -- history
  failed,      \* an assertion failed, or a joinable thread was destroyed
  misdirected  \* a descriptor of somebody else was closed

user == <<todo, phase, starts, kept>>
looper == <<lpc, queue, stopping>>
socket == <<fd, owner, connected, data>>
objects == <<opened, attached, conn>>
clientVars == <<todo, phase, starts, kept, lpc, queue, stopping, fd, owner, connected, data,
          opened, attached, conn, failed, misdirected>>

\* TcpConnector's constructor: the socket is opened, its channel watches for
\* reading and is not attached.
ConnectorInit ==
  /\ fd = "own" /\ owner = "none" /\ connected = FALSE /\ data = "none"
  /\ opened = TRUE /\ attached = {}

ClientInit ==
  /\ todo = <<>> /\ phase = "new" /\ starts = 0 /\ kept = FALSE
  /\ lpc = "none" /\ queue = <<>> /\ stopping = FALSE
  /\ ConnectorInit /\ conn = "none"
  /\ failed = FALSE /\ misdirected = FALSE

Running == ~failed

------------------------------------------------------------------------------
(* Channel and the descriptor *)

\* Channel::attach: EPOLL_CTL_ADD fails when the descriptor is closed or in the
\* interest list already, and updateChannel asserts.
AttachChannel(c) ==
  IF c \in attached THEN UNCHANGED <<attached, owner, failed>>
  ELSE IF fd = "own" /\ owner = "none"
       THEN /\ attached' = attached \cup {c}
            /\ owner' = c
            /\ UNCHANGED failed
       ELSE /\ failed' = TRUE
            /\ UNCHANGED <<attached, owner>>

DetachChannel(c) ==
  IF c \notin attached THEN UNCHANGED <<attached, owner, failed>>
  ELSE IF fd = "own" /\ owner # "none"
       THEN /\ attached' = attached \ {c}
            /\ owner' = "none"
            /\ UNCHANGED failed
       ELSE /\ failed' = TRUE
            /\ UNCHANGED <<attached, owner>>

\* ::close of the number the descriptor had
CloseFd ==
  /\ fd' = (IF fd = "own" THEN "free" ELSE fd)
  /\ owner' = (IF fd = "own" THEN "none" ELSE owner)
  /\ misdirected' = (misdirected \/ fd = "foreign")

------------------------------------------------------------------------------
(* The user's thread *)

StartWork ==
  /\ Running /\ todo = <<>> /\ phase \in {"new", "stopped"} /\ starts < MaxStarts
  /\ todo' = <<"thread", "attach", "connect">>
  /\ phase' = "started"
  /\ starts' = starts + 1
  /\ UNCHANGED <<kept, looper, socket, objects, failed, misdirected>>

StopWork ==
  /\ Running /\ todo = <<>> /\ phase = "started"
  /\ todo' = <<"detach", "disconnect", "stop", "join">>
  /\ phase' = "stopped"
  /\ UNCHANGED <<starts, kept, looper, socket, objects, failed, misdirected>>

\* ~TcpClient: the members, the last one first
Destroy ==
  /\ Running /\ todo = <<>> /\ phase \in {"new", "stopped"}
  /\ todo' = <<"~connection", "~connector">>
  /\ phase' = "destroyed"
  /\ UNCHANGED <<starts, kept, looper, socket, objects, failed, misdirected>>

At(step) ==
  /\ Running /\ todo # <<>> /\ Head(todo) = step
  /\ todo' = Tail(todo)
  /\ UNCHANGED <<phase, starts>>

\* The new thread runs startLoop, which returns at once when the looper was
\* stopped before.
Thread ==
  /\ At("thread")
  /\ lpc' = IF stopping THEN "over" ELSE "loop"
  /\ UNCHANGED <<kept, queue, stopping, socket, objects, failed, misdirected>>

AttachConnector ==
  /\ At("attach")
  /\ AttachChannel("connector")
  /\ UNCHANGED <<kept, looper, fd, connected, data, opened, conn, misdirected>>

PostClosure(step) ==
  /\ At(step)
  /\ queue' = Append(queue, step)
  /\ UNCHANGED <<kept, lpc, stopping, socket, objects, failed, misdirected>>

Connect == PostClosure("connect")

\* Faulty: the socket is closed by the caller.
DisconnectInline ==
  /\ At("disconnect")
  /\ CloseFd
  /\ opened' = FALSE
  /\ UNCHANGED <<kept, looper, connected, data, attached, conn, failed>>

Disconnect == PostClosure("disconnect")

\* Faulty: stopWork leaves the connector in epoll.
KeepConnector ==
  /\ At("detach")
  /\ UNCHANGED <<kept, looper, socket, objects, failed, misdirected>>

DetachConnector ==
  /\ At("detach")
  /\ DetachChannel("connector")
  /\ UNCHANGED <<kept, looper, fd, connected, data, opened, conn, misdirected>>

\* Faulty: the looper is not told.
ForgetStop ==
  /\ At("stop")
  /\ UNCHANGED <<kept, looper, socket, objects, failed, misdirected>>

StopLoop ==
  /\ At("stop")
  /\ stopping' = TRUE
  /\ UNCHANGED <<kept, lpc, queue, socket, objects, failed, misdirected>>

Join ==
  /\ At("join") /\ lpc = "over"
  /\ UNCHANGED <<kept, looper, socket, objects, failed, misdirected>>

\* ~TcpConnection: it must be detached, and it closes its own copy of the number.
DestroyConnection ==
  IF conn = "live"
  THEN /\ conn' = "destroyed"
       /\ failed' = ("connection" \in attached)
       /\ CloseFd
  ELSE UNCHANGED <<conn, failed, fd, owner, misdirected>>

\* _spConn goes; the object too, unless the client code holds it.
DropConnection ==
  /\ At("~connection")
  /\ IF kept THEN UNCHANGED <<conn, failed, fd, owner, misdirected>> ELSE DestroyConnection
  /\ UNCHANGED <<kept, looper, connected, data, opened, attached>>

DestroyConnector ==
  /\ At("~connector")
  /\ failed' = ("connector" \in attached)
  /\ UNCHANGED <<kept, looper, socket, objects, misdirected>>

\* The client code lets go of the connection, detached, after the client is gone.
Release ==
  /\ Running /\ kept /\ phase = "destroyed" /\ todo = <<>>
  /\ kept' = FALSE
  /\ DestroyConnection
  /\ UNCHANGED <<todo, phase, starts, looper, connected, data, opened, attached>>

OtherOpens ==
  /\ OthersOpen /\ fd = "free"
  /\ fd' = "foreign"
  /\ UNCHANGED <<user, looper, owner, connected, data, objects, failed, misdirected>>

------------------------------------------------------------------------------
(* The looper *)

\* connectInternal blocks in connect, unless its descriptor is -1.
RunConnect ==
  /\ Running /\ lpc = "loop" /\ queue # <<>> /\ Head(queue) = "connect"
  /\ queue' = Tail(queue)
  /\ lpc' = IF opened THEN "connecting" ELSE "loop"
  /\ UNCHANGED <<user, stopping, socket, objects, failed, misdirected>>

ConnectFails ==
  /\ Running /\ lpc = "connecting"
  /\ lpc' = "loop"
  /\ UNCHANGED <<user, queue, stopping, socket, objects, failed, misdirected>>

\* onNewConnection: a connection is built on the connector's descriptor and kept
\* in _spConn.
OnNewConnection == conn' = "live" /\ lpc' = "handing"

ConnectSucceeds ==
  /\ Running /\ lpc = "connecting" /\ ~connected
  /\ connected' = TRUE
  /\ OnNewConnection
  /\ UNCHANGED <<user, queue, stopping, fd, owner, data, opened, attached, failed, misdirected>>

\* _newConnHandler: it may hold the connection, and attach it.
Handler ==
  /\ Running /\ lpc = "handing"
  /\ lpc' = "loop"
  /\ kept' \in BOOLEAN
  /\ IF AttachInHandler THEN AttachChannel("connection") ELSE UNCHANGED <<attached, owner, failed>>
  /\ UNCHANGED <<todo, phase, starts, queue, stopping, fd, connected, data, opened, conn,
                 misdirected>>

\* Faulty: the socket of the connector stays open.
LeaveOpen ==
  /\ Running /\ lpc = "loop" /\ queue # <<>> /\ Head(queue) = "disconnect"
  /\ queue' = Tail(queue)
  /\ UNCHANGED <<user, lpc, stopping, socket, objects, failed, misdirected>>

RunDisconnect ==
  /\ Running /\ lpc = "loop" /\ queue # <<>> /\ Head(queue) = "disconnect"
  /\ queue' = Tail(queue)
  /\ IF opened THEN CloseFd ELSE UNCHANGED <<fd, owner, misdirected>>
  /\ opened' = FALSE
  /\ UNCHANGED <<user, lpc, stopping, connected, data, attached, conn, failed>>

\* startLoop is over, whatever is still queued.
LoopEnds ==
  /\ Running /\ lpc = "loop" /\ stopping
  /\ lpc' = "over"
  /\ UNCHANGED <<user, queue, stopping, socket, objects, failed, misdirected>>

\* An event of the descriptor goes to the channel that is registered: the
\* connector's handleRead only logs, the connection's reads.
HandleRead ==
  /\ Running /\ lpc = "loop" /\ data = "waiting" /\ owner # "none"
  /\ data' = IF owner = "connector" THEN "ignored" ELSE "read"
  /\ UNCHANGED <<user, looper, fd, owner, connected, objects, failed, misdirected>>

PeerSend ==
  /\ connected /\ fd = "own" /\ data = "none"
  /\ data' = "waiting"
  /\ UNCHANGED <<user, looper, fd, owner, connected, objects, failed, misdirected>>

Statement ==
  \/ Thread \/ AttachConnector \/ Connect \/ DetachConnector \/ Disconnect \/ StopLoop
  \/ Join \/ DropConnection \/ DestroyConnector
Looping ==
  \/ RunConnect \/ ConnectFails \/ ConnectSucceeds \/ Handler \/ RunDisconnect \/ HandleRead

ClientNext ==
  \/ StartWork \/ StopWork \/ Destroy \/ Statement
  \/ Looping \/ LoopEnds
  \/ Release \/ OtherOpens \/ PeerSend

ClientSafety == ClientInit /\ [][ClientNext]_clientVars

\* The user's thread goes on inside a call, the looper goes on, connect comes
\* back and a looper that was told to stop does.
ClientSpec == ClientSafety /\ WF_clientVars(Statement) /\ WF_clientVars(Looping) /\ WF_clientVars(LoopEnds)

------------------------------------------------------------------------------
(* Properties *)

\* A client whose handler does not attach the connection goes through its life
\* without a failing assertion: whatever connect does and whenever stopWork
\* comes, nothing is attached when it is destroyed.
NoAssertFailure == ~failed

\* The connection is handed over once, on a descriptor that is open and the
\* connector's, although stopWork asks another thread to close it meanwhile, and
\* never after stopWork has come back.
HandedOverOpen ==
  [][conn = "none" /\ conn' # "none" => fd = "own" /\ opened /\ lpc = "connecting"
                                        /\ ~(phase = "stopped" /\ todo = <<>>)]_clientVars

\* stopWork comes back, also when it is called while connect blocks the looper.
StopReturns == todo # <<>> ~> todo = <<>>

\* After stopWork the connector's descriptor is closed, or the closure that
\* closes it was overtaken by the end of the loop and is still queued.
ClosedOrOvertaken ==
  phase \in {"stopped", "destroyed"} /\ (todo = <<>> \/ phase = "destroyed") /\ starts > 0 =>
    \/ ~opened
    \/ queue # <<>> /\ queue[Len(queue)] = "disconnect"

\* stopWork closes the socket.
StopCloses == phase = "stopped" /\ todo = <<>> => ~opened

\* Nobody else's descriptor is closed.
ClosesItsOwn == ~misdirected

\* What the peer sends is read by the connection, unless its socket is closed.
DataIsRead == data = "waiting" ~> data = "read" \/ fd # "own"
==============================================================================
