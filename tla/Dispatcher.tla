----------------------------- MODULE Dispatcher ------------------------------
(* src/netpack/Dispatcher.hpp: a list of handlers for every message and a map *)
(* from a command to the one handler for it.  A dispatch is a walk over the   *)
(* list that handlers it calls may make longer: visit is that walk.           *)
(* A definition introduced as "Faulty" is a wrong version of the definition   *)
(* after it that a property has to reject.                                    *)
EXTENDS Naturals, Sequences

CONSTANTS
  Handlers,   \* the client's handlers; each is registered for everything at most once
  Cmds        \* CmdType

ASSUME DispatcherAssumption == Cmds # {}

VARIABLES
  anyHandler,   \* _anyHandler
  handlerMap,   \* _handlerMap
  visit         \* the last dispatch: its command, the next element of
                \* _anyHandler (0: the walk is over), the handlers called so
                \* far, and the handlers there were when it began

registry == <<anyHandler, handlerMap>>

Specific(cmd) == IF cmd \in DOMAIN handlerMap THEN <<handlerMap[cmd]>> ELSE <<>>

DispatcherInit ==
  /\ anyHandler = <<>>
  /\ handlerMap = <<>>
  /\ visit = [cmd |-> CHOOSE c \in Cmds : TRUE, at |-> 0, seen |-> <<>>, before |-> 0]

\* Faulty: a handler is put in front of those that are there.
RegisterAnyFront(h) ==
  /\ \A i \in DOMAIN anyHandler : anyHandler[i] # h
  /\ anyHandler' = <<h>> \o anyHandler
  /\ UNCHANGED handlerMap

RegisterAny(h) ==
  /\ \A i \in DOMAIN anyHandler : anyHandler[i] # h
  /\ anyHandler' = Append(anyHandler, h)
  /\ UNCHANGED handlerMap

\* map::insert keeps the handler that is there.
RegisterFor(cmd, h) ==
  /\ handlerMap' = [c \in DOMAIN handlerMap \cup {cmd} |->
                      IF c \in DOMAIN handlerMap THEN handlerMap[c] ELSE h]
  /\ UNCHANGED anyHandler

Dispatch(cmd) ==
  visit' = [cmd |-> cmd, at |-> 1, seen |-> <<>>, before |-> Len(anyHandler)]

CallAny ==
  /\ visit.at \in DOMAIN anyHandler
  /\ visit' = [visit EXCEPT !.at = @ + 1, !.seen = Append(@, anyHandler[visit.at])]

CallSpecific ==
  /\ visit.at > Len(anyHandler)
  /\ visit' = [visit EXCEPT !.at = 0, !.seen = @ \o Specific(visit.cmd)]

\* A dispatch that is over has called the handlers for everything in the order
\* they were registered, each once, those the walk was too early for left out
\* and none that was there when it began; and then the one for the command.
InRegisteredOrder ==
  \E n \in visit.before .. Len(anyHandler) :
    visit.seen = SubSeq(anyHandler, 1, n) \o Specific(visit.cmd)
==============================================================================
