--------------------------- MODULE SessionManager ---------------------------
(* src/netpack/Session.hpp: SessionManager over the timer of TimerWrap.       *)
(*                                                                            *)
(* A heartbeat finds or makes the session of its connection and gives it a    *)
(* new idle timeout, whose task removes the session.  Heartbeats, the timer   *)
(* and the application run in one looper.                                     *)
(* A definition introduced as "Faulty" is a wrong version of the definition   *)
(* after it that a property has to reject.                                    *)
EXTENDS HashedWheelTimer

CONSTANTS
  Sessions,        \* the Session objects
  Logins,          \* <<peer, uin>> of the heartbeats that arrive
  IdleMs           \* _idleExpireMs

Peers == {l[1] : l \in Logins}

ASSUME SessionAssumption ==
  /\ None \notin Sessions /\ None \notin Logins /\ None \notin Peers
  /\ IdleMs \in Nat
  /\ TicksPerWheel = IdleMs \div MsPerTick    \* SessionManager's constructor

VARIABLES
  login,           \* _source and _uin of a session, or None
  timeout,         \* Session::_timeout, a weak_ptr
  owner,           \* the session bound to the task of a timeout
  cidMap,          \* _cidMap: the session of a peer, or None
  uinMap,          \* _uinMap: its sessions, by Uin(s)
  touched,         \* _tsUpdate, on the timer's clock
  last,            \* history: the uin of a peer's last heartbeat
  removals         \* history: calls of _sessionRemoveHandler for a session

sessionVars == <<login, timeout, owner, cidMap, uinMap, touched, last, removals>>
vars == <<timerVars, sessionVars>>

Peer(s) == login[s][1]
Uin(s) == login[s][2]

Init ==
  /\ TimerInit
  /\ login = [s \in Sessions |-> None]
  /\ timeout = [s \in Sessions |-> None]
  /\ owner = [t \in Timeouts |-> None]
  /\ cidMap = [p \in Peers |-> None]
  /\ uinMap = {}
  /\ touched = [s \in Sessions |-> 0]
  /\ last = [p \in Peers |-> None]
  /\ removals = [s \in Sessions |-> 0]

------------------------------------------------------------------------------
(* Pieces of the handlers *)

\* Faulty: the timeout before stays armed.
ResetKeepsOld(s, t) == st' = [st EXCEPT ![t] = "init"]

\* Faulty: the member is set first, and the new timeout is cancelled.
ResetCancelsNew(s, t) == st' = [st EXCEPT ![t] = "cancelled"]

\* resetTimeout: the old timeout is cancelled if the wheel still holds it.
ResetTimeout(s, t) ==
  st' = [u \in Timeouts |->
           CASE u = t -> "init"
             [] u = timeout[s] /\ st[u] = "init" -> "cancelled"
             [] OTHER -> st[u]]

\* Session::touch
Touch(s) == touched' = [touched EXCEPT ![s] = clock]

\* touchSession: a timeout is added, then the old one is cancelled.
TouchSession(s) ==
  \E t \in Timeouts :
    /\ Inserted(t, IdleMs)
    /\ ResetTimeout(s, t)
    /\ timeout' = [timeout EXCEPT ![s] = t]
    /\ owner' = [owner EXCEPT ![t] = s]
    /\ Touch(s)

\* Session::cancelTimeout
CancelTimeout(s) == st' = [st EXCEPT ![timeout[s]] = "cancelled"]

FindSessionByCid(p) == cidMap[p]

\* addSession, for a connection that has none
AddSession(s, p) ==
  /\ cidMap' = [cidMap EXCEPT ![p] = s]
  /\ uinMap' = uinMap \cup {s}

\* removeSession: the handler is told, then both maps are erased by key.
RemoveSession(s) ==
  /\ removals' = [removals EXCEPT ![s] = @ + 1]
  /\ cidMap' = [cidMap EXCEPT ![Peer(s)] = None]
  /\ uinMap' = {r \in uinMap : Uin(r) # Uin(s)}

------------------------------------------------------------------------------
(* Actions *)

\* handlerHeartbeatReq for a connection that has a session.
HeartbeatKnown ==
  /\ pos = 0 /\ clock <= LastAdd
  /\ \E l \in Logins :
       /\ FindSessionByCid(l[1]) # None
       /\ TouchSession(FindSessionByCid(l[1]))
       /\ last' = [last EXCEPT ![l[1]] = l[2]]
  /\ UNCHANGED <<clock, unread, lost, attached, ticked, pos, running, ran>>
  /\ UNCHANGED <<login, cidMap, uinMap, removals>>

\* handlerHeartbeatReq for a connection that has none: addSession, touchSession.
HeartbeatNew ==
  /\ pos = 0 /\ clock <= LastAdd
  /\ \E l \in Logins, s \in Sessions :
       /\ FindSessionByCid(l[1]) = None /\ login[s] = None
       /\ login' = [login EXCEPT ![s] = l]
       /\ AddSession(s, l[1])
       /\ TouchSession(s)
       /\ last' = [last EXCEPT ![l[1]] = l[2]]
  /\ UNCHANGED <<clock, unread, lost, attached, ticked, pos, running, ran>>
  /\ UNCHANGED removals

\* touchSession(cid), which the application calls for a connection that has a
\* session: what it finds is used without a test.
TouchByCid ==
  /\ pos = 0 /\ clock <= LastAdd
  /\ \E p \in Peers :
       /\ FindSessionByCid(p) # None
       /\ TouchSession(FindSessionByCid(p))
  /\ UNCHANGED <<clock, unread, lost, attached, ticked, pos, running, ran>>
  /\ UNCHANGED <<login, cidMap, uinMap, last, removals>>

\* Faulty: the application forgets cancelTimeout.
LogoutArmed ==
  /\ pos = 0
  /\ \E p \in Peers :
       /\ cidMap[p] # None
       /\ RemoveSession(cidMap[p])
       /\ st' = st
  /\ UNCHANGED <<clock, unread, lost, attached, ticked, bucket, pos, running,
                 rounds, added, ran>>
  /\ UNCHANGED <<login, timeout, owner, touched, last>>

\* The application ends a session: cancelTimeout, then removeSession, which
\* leaves the timeout alone.
Logout ==
  /\ pos = 0
  /\ \E p \in Peers :
       /\ cidMap[p] # None
       /\ RemoveSession(cidMap[p])
       /\ CancelTimeout(cidMap[p])
  /\ UNCHANGED <<clock, unread, lost, attached, ticked, bucket, pos, running,
                 rounds, added, ran>>
  /\ UNCHANGED <<login, timeout, owner, touched, last>>

\* The idle timeout's task is removeSession of the session it was made for.
ExpireSession ==
  /\ Expire /\ RemoveSession(owner[Current])
  /\ UNCHANGED <<login, timeout, owner, touched, last>>

TimerStep ==
  /\ Clock \/ Attach \/ Detach \/ HandleRead \/ Return \/ Drop \/ Pass \/ TickEnd
  /\ UNCHANGED sessionVars

SessionNext ==
  HeartbeatKnown \/ HeartbeatNew \/ TouchByCid \/ Logout \/ ExpireSession \/ TimerStep

SessionSpec ==
  /\ Init /\ [][SessionNext]_vars
  /\ WF_vars(Clock /\ UNCHANGED sessionVars)
  /\ WF_vars(Attach /\ UNCHANGED sessionVars)
  /\ SF_vars(HandleRead /\ UNCHANGED sessionVars)
  /\ WF_vars(ExpireSession)
  /\ WF_vars((Return \/ Drop \/ Pass \/ TickEnd) /\ UNCHANGED sessionVars)

SessionSafety == Init /\ [][SessionNext]_vars

------------------------------------------------------------------------------
(* Properties *)

SessionTypeOK ==
  /\ TypeOK
  /\ login \in [Sessions -> Logins \cup {None}]
  /\ timeout \in [Sessions -> Timeouts \cup {None}]
  /\ owner \in [Timeouts -> Sessions \cup {None}]
  /\ cidMap \in [Peers -> Sessions \cup {None}]
  /\ uinMap \subseteq {s \in Sessions : login[s] # None}
  /\ removals \in [Sessions -> Nat]

Live == {cidMap[p] : p \in Peers} \ {None}

\* A session has one armed timeout, its own, exactly while it is in the maps:
\* none stays for ever, and no forgotten timeout is left to remove a later
\* session of the same connection.
ArmedWhileLive ==
  \A t \in Timeouts :
    st[t] = "init" <=> \E s \in Live : timeout[s] = t /\ owner[t] = s

\* A session is found by its uin as long as it is found by its connection
\* (Session.hpp:168: "We can find session by uin or cid").
FoundByUinOrCid == uinMap = Live

\* The maps and the timer agree on which sessions there are.
SessionInv == SessionTypeOK /\ ArmedWhileLive /\ FoundByUinOrCid

\* The idle timer does not remove a session that was touched within the idle
\* time, for all the heartbeats, logouts and new logins before.
OnlyIdleRemoved ==
  [][\A s \in Sessions : ExpireSession /\ removals'[s] # removals[s] =>
       /\ s = cidMap[Peer(s)]
       /\ clock >= touched[s] + Ticks(IdleMs)]_vars

\* The application hears of the end of a session once.
RemovedOnce == \A s \in Sessions : removals[s] <= 1

\* The session of a connection is the one of the user whose heartbeat came last
\* (Session.hpp:12-13: "we raise a session, ... and bind with uid").
BoundToUser ==
  \A p \in Peers : cidMap[p] # None => Uin(cidMap[p]) = last[p]

\* A session ends when its heartbeats do.
IdleSessionsEnd == \A s \in Sessions : s \in Live ~> s \notin Live
==============================================================================
