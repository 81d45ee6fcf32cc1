------------------------------ MODULE AgentHub ------------------------------
(***************************************************************************)
(* The sessions of one agent row and the RPCs on them (agent_hub.ts), with *)
(* what the collector's socket endpoint does around them: the hello, the   *)
(* close (collector_agent_gateway.ts), what is remembered of the live      *)
(* session (collector_agent.ts, gateway_registry.ts) and the admin who     *)
(* adopts or dismisses the row (collector_registry.ts).                    *)
(*                                                                         *)
(* A socket the server closes stays readable until the agent's close frame *)
(* arrives, so several sessions of a row overlap.  A session is named by   *)
(* its socket's number.                                                    *)
(***************************************************************************)
EXTENDS Integers, FiniteSets, Functions

CONSTANTS
  Calls,        \* the requests the server makes, each once
  Admin,        \* does the admin dismiss and adopt the row?
  MaxSessions,  \* sockets the agent opens
  MaxDecisions, \* decisions of the admin
  MaxAsks,      \* requests the agent makes
  MaxInbound    \* those answered at a time (MAX_AGENT_REQUESTS_IN_FLIGHT)

ASSUME HubAssumption ==
  /\ Admin \in BOOLEAN
  /\ {MaxSessions, MaxInbound} \subseteq Nat \ {0}
  /\ {MaxDecisions, MaxAsks} \subseteq Nat

VARIABLES
  socket,     \* where each connection is
  current,    \* #sessions: the registered session of the row, 0 if none
  closed,     \* sessions marked closed
  replaced,   \* sessions a newer one took over from
  nextId,     \* each session's request counter
  pending,    \* each session's requests without an answer: id -> call
  call,       \* what became of each call
  answer,     \* the call whose answer it was given, itself until then
  wire,       \* requests each socket carried that its agent has not answered
  context,    \* the session whose key, capabilities and hello are remembered
  inbound,    \* inboundInFlight: the slots each session counts as taken
  ask,        \* what became of each request of the agent
  asker,      \* the session it came on
  lifecycle,  \* the row's lifecycle
  told,       \* the lifecycle each hello was answered by
  dismissing, \* a dismissal is saved, its disconnect is still to come
  decisions   \* how often the admin decided

link == <<socket, current, closed, replaced, context>>
rpc == <<nextId, pending, call, answer, wire>>
agentAsks == <<inbound, ask, asker>>
row == <<lifecycle, told, dismissing, decisions>>
vars == <<link, rpc, agentAsks, row>>

Sessions == 1..MaxSessions
Sockets == {"none", "hello", "announced", "preparing", "ready", "closing", "gone"}
Lifecycles == {"pending", "adopted", "dismissed"}
Asks == 1..MaxAsks
\* unheard: its handler ended when the session was closed.
AskStates == {"idle", "running", "answered", "busy", "unheard"}
NoCalls == [i \in {} |-> CHOOSE c \in Calls : TRUE]
Request == [id : Nat \ {0}, call : Calls]

TypeOK ==
  /\ socket \in [Sessions -> Sockets]
  /\ current \in {0} \cup Sessions
  /\ closed \subseteq Sessions /\ replaced \subseteq Sessions
  /\ nextId \in [Sessions -> Nat \ {0}]
  /\ pending = [s \in Sessions |-> pending[s]]
  /\ \A s \in Sessions : /\ pending[s] \in [DOMAIN pending[s] -> Calls]
                         /\ DOMAIN pending[s] \subseteq 1..(nextId[s] - 1)
  /\ wire \in [Sessions -> SUBSET Request]
  /\ call \in [Calls -> {"idle", "waiting", "answered", "timeout", "offline"}]
  /\ answer \in [Calls -> Calls]
  /\ context \in {0} \cup Sessions
  /\ inbound \in [Sessions -> Nat]
  /\ ask \in [Asks -> AskStates] /\ asker \in [Asks -> {0} \cup Sessions]
  /\ lifecycle \in Lifecycles /\ told \in [Sessions -> Lifecycles]
  /\ dismissing \in BOOLEAN /\ decisions \in Nat

Init ==
  /\ socket = [s \in Sessions |-> "none"]
  /\ current = 0 /\ closed = {} /\ replaced = {} /\ context = 0
  /\ nextId = [s \in Sessions |-> 1]
  /\ pending = [s \in Sessions |-> NoCalls]
  /\ call = [c \in Calls |-> "idle"]
  /\ answer = [c \in Calls |-> c]
  /\ wire = [s \in Sessions |-> {}]
  /\ inbound = [s \in Sessions |-> 0]
  /\ ask = [r \in Asks |-> "idle"] /\ asker = [r \in Asks |-> 0]
  /\ lifecycle \in {"pending", "adopted"}
  /\ told = [s \in Sessions |-> "pending"]
  /\ dismissing = FALSE /\ decisions = 0

Live(s) == s # 0 /\ s \notin closed
Readable(s) == socket[s] \in {"preparing", "ready", "closing"}

----------------------------------------------------------------------------
\* Connections.

\* The agent opens a socket and sends its hello, whether or not the server
\* has noticed the end of an earlier one.
Connect(s) ==
  /\ socket[s] = "none" /\ (s > 1 => socket[s - 1] # "none")
  /\ socket' = [socket EXCEPT ![s] = "hello"]
  /\ UNCHANGED <<current, closed, replaced, context, rpc, agentAsks, row>>

\* handleHello up to the answer of recordAnnounce: the lifecycle it read.
Announce(s) ==
  /\ socket[s] = "hello"
  /\ told' = [told EXCEPT ![s] = lifecycle]
  /\ socket' = [socket EXCEPT ![s] = "announced"]
  /\ UNCHANGED <<current, closed, replaced, context, rpc, agentAsks,
                 lifecycle, dismissing, decisions>>

\* Mutant: the ids are dropped and nobody is told.
DropCalls(s) == call
\* rejectAll: the calls pending on s fail, and their ids are gone.
FailCalls(s) == [c \in Calls |-> IF c \in Range(pending[s]) THEN "offline" ELSE call[c]]
Emptied(s) == [pending EXCEPT ![s] = NoCalls]

\* register and bind; what the session presented is remembered in the same
\* step (rememberSessionKey, rememberSessionCapabilities, rememberGatewaySession).
Register(s) ==
  /\ socket[s] = "announced" /\ told[s] # "dismissed"
  /\ current' = s /\ context' = s
  /\ IF current = 0
     THEN /\ socket' = [socket EXCEPT ![s] = "preparing"]
          /\ UNCHANGED <<closed, replaced, call, pending>>
     ELSE /\ socket' = [socket EXCEPT ![s] = "preparing", ![current] = "closing"]
          /\ closed' = closed \cup {current} /\ replaced' = replaced \cup {current}
          /\ call' = FailCalls(current) /\ pending' = Emptied(current)
  /\ UNCHANGED <<nextId, answer, wire, agentAsks, row>>

TurnAway(s) ==
  /\ socket[s] = "announced" /\ told[s] = "dismissed"
  /\ socket' = [socket EXCEPT ![s] = "gone"]
  /\ UNCHANGED <<current, closed, replaced, context, rpc, agentAsks, row>>

\* prepareGatewayHello came back: agent.configure goes out and the background
\* work starts, unless the session was closed meanwhile.
HelloDone(s) ==
  /\ socket[s] = "preparing" /\ Live(s)
  /\ socket' = [socket EXCEPT ![s] = "ready"]
  /\ UNCHANGED <<current, closed, replaced, context, rpc, agentAsks, row>>

\* disconnect: out of the map at once, the socket closes later.
Disconnect(s) ==
  /\ current' = 0
  /\ closed' = closed \cup {s}
  /\ call' = FailCalls(s) /\ pending' = Emptied(s)
  /\ socket' = [socket EXCEPT ![s] = "closing"]
  /\ UNCHANGED <<replaced, context, nextId, answer, wire, agentAsks>>

\* A session revoked for another reason: credentials, a deleted row.
Revoke ==
  /\ current # 0 /\ Admin /\ decisions < MaxDecisions
  /\ decisions' = decisions + 1
  /\ Disconnect(current)
  /\ UNCHANGED <<lifecycle, told, dismissing>>

\* Mutant: whatever was not replaced leaves the row offline.
WasNotReplaced(s) == s \notin replaced
\* unregister's answer: does the end of s leave the row offline?
WasCurrent(s) == current = s \/ (current = 0 /\ s \notin replaced)

\* The close event of a registered session's socket.
SocketClosed(s) ==
  /\ Readable(s)
  /\ socket' = [socket EXCEPT ![s] = "gone"]
  /\ closed' = closed \cup {s}
  /\ call' = FailCalls(s) /\ pending' = Emptied(s)
  /\ current' = IF current = s THEN 0 ELSE current
  /\ context' = IF WasCurrent(s) THEN 0 ELSE context
  /\ wire' = [wire EXCEPT ![s] = {}]
  /\ UNCHANGED <<replaced, nextId, answer, agentAsks, row>>

\* A socket that is lost before its session is bound.
SocketLost(s) ==
  /\ socket[s] \in {"hello", "announced"}
  /\ socket' = [socket EXCEPT ![s] = "gone"]
  /\ UNCHANGED <<current, closed, replaced, context, rpc, agentAsks, row>>

----------------------------------------------------------------------------
\* Requests to the agent.

\* Mutant: every request goes out under the same id.
SameId(s) == nextId[s]
\* The counter after a request: an id is never used twice on a session.
NextId(s) == nextId[s] + 1

\* request(): on the row's session; offline without one, or when send throws.
Call(c) ==
  /\ call[c] = "idle"
  /\ IF Live(current)
     THEN LET s == current
              i == nextId[s]
          IN /\ nextId' = [nextId EXCEPT ![s] = NextId(s)]
             /\ \/ /\ pending' = [pending EXCEPT ![s] =
                        [j \in DOMAIN @ \cup {i} |-> IF j = i THEN c ELSE @[j]]]
                   /\ wire' = [wire EXCEPT ![s] = @ \cup {[id |-> i, call |-> c]}]
                   /\ call' = [call EXCEPT ![c] = "waiting"]
                \/ /\ call' = [call EXCEPT ![c] = "offline"]
                   /\ UNCHANGED <<pending, wire>>
     ELSE /\ call' = [call EXCEPT ![c] = "offline"]
          /\ UNCHANGED <<nextId, pending, wire>>
  /\ UNCHANGED <<link, answer, agentAsks, row>>

Without(s, i) == [pending EXCEPT ![s] = Restrict(@, DOMAIN @ \ {i})]

Timeout(s, i) ==
  /\ i \in DOMAIN pending[s]
  /\ call' = [call EXCEPT ![pending[s][i]] = "timeout"]
  /\ pending' = Without(s, i)
  /\ UNCHANGED <<link, nextId, answer, wire, agentAsks, row>>

\* handleFrame, a response: the agent answers in any order, and late.
Response(s, m) ==
  /\ Readable(s) /\ m \in wire[s]
  /\ wire' = [wire EXCEPT ![s] = @ \ {m}]
  /\ IF m.id \in DOMAIN pending[s]
     THEN LET c == pending[s][m.id]
          IN /\ call' = [call EXCEPT ![c] = "answered"]
             /\ answer' = [answer EXCEPT ![c] = m.call]
             /\ pending' = Without(s, m.id)
     ELSE UNCHANGED <<call, answer, pending>>
  /\ UNCHANGED <<link, nextId, agentAsks, row>>

----------------------------------------------------------------------------
\* Requests of the agent.

\* The handlers still at work for session s.
Handlers(s) == {r \in Asks : ask[r] = "running" /\ asker[r] = s}

\* #answerRequest: refused as busy or handed to a handler of its own.
Ask(s, r) ==
  /\ Readable(s) /\ ask[r] = "idle" /\ (r > 1 => ask[r - 1] # "idle")
  /\ asker' = [asker EXCEPT ![r] = s]
  /\ \/ /\ inbound[s] >= MaxInbound
        /\ ask' = [ask EXCEPT ![r] = "busy"]
        /\ UNCHANGED inbound
     \/ /\ inbound[s] < MaxInbound
        /\ ask' = [ask EXCEPT ![r] = "running"]
        /\ inbound' = [inbound EXCEPT ![s] = @ + 1]
  /\ UNCHANGED <<link, rpc, row>>

\* answer(): the slot is free, and nobody is told on a closed session.
Answer(s, r) ==
  /\ inbound' = [inbound EXCEPT ![s] = @ - 1]
  /\ ask' = [ask EXCEPT ![r] = IF s \in closed THEN "unheard" ELSE "answered"]
  /\ UNCHANGED <<asker, link, rpc, row>>

HandlerResolved(s, r) == r \in Handlers(s) /\ Answer(s, r)

\* Mutant: a handler that throws keeps its slot.
ThrewWithItsSlot(s, r) ==
  /\ r \in Handlers(s)
  /\ ask' = [ask EXCEPT ![r] = IF s \in closed THEN "unheard" ELSE "answered"]
  /\ UNCHANGED <<inbound, asker, link, rpc, row>>
HandlerThrew(s, r) == r \in Handlers(s) /\ Answer(s, r)

----------------------------------------------------------------------------
\* The admin.

\* dismissCollector saves the row and then, a step later, disconnects.
Dismiss ==
  /\ Admin /\ ~dismissing /\ lifecycle # "dismissed" /\ decisions < MaxDecisions
  /\ lifecycle' = "dismissed" /\ dismissing' = TRUE /\ decisions' = decisions + 1
  /\ UNCHANGED <<link, rpc, agentAsks, told>>

SendAway ==
  /\ dismissing
  /\ dismissing' = FALSE
  /\ IF current # 0 THEN Disconnect(current) ELSE UNCHANGED <<link, rpc, agentAsks>>
  /\ UNCHANGED <<lifecycle, told, decisions>>

\* adoptCollector, from any lifecycle: the session stays, unless it presented
\* another key than the one adopted.
Adopt ==
  /\ Admin /\ ~dismissing /\ lifecycle # "adopted" /\ decisions < MaxDecisions
  /\ lifecycle' = "adopted" /\ decisions' = decisions + 1
  /\ \/ UNCHANGED <<link, rpc, agentAsks>>
     \/ current # 0 /\ Disconnect(current)
  /\ UNCHANGED <<told, dismissing>>

----------------------------------------------------------------------------
Next ==
  \/ \E s \in Sessions :
       \/ Connect(s) \/ Announce(s) \/ Register(s) \/ TurnAway(s) \/ HelloDone(s)
       \/ SocketClosed(s) \/ SocketLost(s)
       \/ \E r \in Asks : Ask(s, r) \/ HandlerResolved(s, r) \/ HandlerThrew(s, r)
       \/ \E i \in DOMAIN pending[s] : Timeout(s, i)
       \/ \E m \in wire[s] : Response(s, m)
  \/ \E c \in Calls : Call(c)
  \/ Revoke \/ Dismiss \/ SendAway \/ Adopt

Spec == Init /\ [][Next]_vars

\* Timers fire.  Nothing is assumed of the agent, the sockets or the admin.
FairSpec == Spec /\ \A s \in Sessions :
  WF_vars(\E i \in DOMAIN pending[s] : Timeout(s, i))

----------------------------------------------------------------------------
\* Properties

\* Only the registered session is open; every other one of the row has been
\* closed, and its requests failed with it: no caller waits on a dead socket,
\* and none waits without an entry that will time out.
OnlyCurrentWorks ==
  /\ \A s \in Sessions : socket[s] \in {"preparing", "ready"} => current = s /\ Live(s)
  /\ \A s \in Sessions : pending[s] # NoCalls => current = s /\ Live(s)
  /\ \A c \in Calls : (call[c] = "waiting") <=> \E s \in Sessions : c \in Range(pending[s])

\* Ids start again with every session and answers come late: whoever gets an
\* answer gets the one to its own request.
OwnAnswer == \A c \in Calls : answer[c] = c

\* What is remembered of the live session (its bearer, what it can do, its
\* hello) is that session's: the old socket's close, whenever it comes, does
\* not take it away, and a new session does not inherit it.
ContextIsLive == current # 0 => context = current

\* Nothing is remembered of an agent none of whose sockets is left, whoever
\* closed them: a later read must not take it for a live session.
ForgottenWhenGone == (\A s \in Sessions : ~Readable(s)) => context = 0

\* The agent is told that too many of its requests are under way only while
\* that many handlers really run for its session: no end of a handler, and no
\* socket closed or replaced under one, takes a slot away for good.
BusyOnlyWhenFull == [][\A r \in Asks :
  ask[r] = "idle" /\ ask'[r] = "busy" => Cardinality(Handlers(asker'[r])) = MaxInbound]_vars

\* Whatever the agent does, a call ends: with an answer, a timeout or offline.
CallsEnd == \A c \in Calls : (call[c] = "waiting") ~> (call[c] # "waiting")
=============================================================================
