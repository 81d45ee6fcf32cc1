--------------------------- MODULE AgentHubProofs ---------------------------
(***************************************************************************)
(* For any number of sockets, calls and decisions: only the registered     *)
(* session works, answers reach the call they are for, and what is         *)
(* remembered is the live session's and is forgotten with the last one.    *)
(*                                                                         *)
(* None of these is inductive by itself.  Whether the close of an old      *)
(* socket may take the context away depends on what the context can be     *)
(* (never a replaced session's), and whether an answer is the right one on *)
(* the requests still under way, whoever waits for them (RequestsMatch).   *)
(***************************************************************************)
EXTENDS AgentHub, FiniteSetTheorems, TLAPS

SessionsOK ==
  /\ current # 0 => /\ socket[current] \in {"preparing", "ready"}
                    /\ current \notin closed /\ context = current
  /\ \A s \in Sessions : socket[s] \in {"preparing", "ready"} => current = s
  /\ \A s \in closed \cup replaced : socket[s] \in {"closing", "gone"}
  /\ context # 0 => Readable(context) /\ context \notin replaced

PendingOK ==
  /\ \A s \in Sessions : DOMAIN pending[s] # {} => current = s
  /\ \A c \in Calls : (call[c] = "waiting") <=>
       \E s \in Sessions : \E i \in DOMAIN pending[s] : pending[s][i] = c
  /\ \A s \in Sessions : \A i, j \in DOMAIN pending[s] :
       pending[s][i] = pending[s][j] => i = j

RequestsMatch ==
  /\ \A s \in Sessions : \A m \in wire[s] :
       /\ m.id < nextId[s]
       /\ m.id \in DOMAIN pending[s] => pending[s][m.id] = m.call
  /\ OwnAnswer

SlotsCounted == \A s \in Sessions :
  inbound[s] <= MaxInbound /\ inbound[s] = Cardinality(Handlers(s))

IInv == TypeOK /\ SessionsOK /\ PendingOK /\ RequestsMatch /\ SlotsCounted

LEMMA HandlersFinite == \A s \in Sessions : IsFiniteSet(Handlers(s))
<1>1. IsFiniteSet(Asks)
  BY HubAssumption, FS_Interval DEF Asks
<1>2. \A s \in Sessions : Handlers(s) \subseteq Asks
  BY DEF Handlers
<1> QED BY <1>1, <1>2, FS_Subset

LEMMA Empty == ASSUME NEW f, f \in [DOMAIN f -> Calls], DOMAIN f = {} PROVE f = NoCalls
BY DEF NoCalls

LEMMA NoCallsEmpty == DOMAIN NoCalls = {} /\ NoCalls \in [DOMAIN NoCalls -> Calls]
BY DEF NoCalls

LEMMA InitInv == Init => IInv
<1> SUFFICES ASSUME Init PROVE IInv
  OBVIOUS
<1>1. \A s \in Sessions : pending[s] = NoCalls
  BY DEF Init
<1>2. TypeOK
  <2>1. \A s \in Sessions : /\ pending[s] \in [DOMAIN pending[s] -> Calls]
                            /\ DOMAIN pending[s] \subseteq 1..(nextId[s] - 1)
    BY <1>1, NoCallsEmpty
  <2>2. pending = [s \in Sessions |-> pending[s]]
    BY DEF Init
  <2>3. /\ socket \in [Sessions -> Sockets] /\ nextId \in [Sessions -> Nat \ {0}]
        /\ inbound \in [Sessions -> Nat] /\ ask \in [Asks -> AskStates]
        /\ asker \in [Asks -> {0} \cup Sessions]
    BY HubAssumption DEF Init, Sockets, AskStates
  <2>4. /\ wire \in [Sessions -> SUBSET Request] /\ answer \in [Calls -> Calls]
        /\ call \in [Calls -> {"idle", "waiting", "answered", "timeout", "offline"}]
        /\ lifecycle \in Lifecycles /\ told \in [Sessions -> Lifecycles]
    BY DEF Init, Lifecycles
  <2> QED BY <2>1, <2>2, <2>3, <2>4 DEF Init, TypeOK
<1>3. SessionsOK /\ SlotsCounted
  <2>1. \A s \in Sessions : Handlers(s) = {}
    BY DEF Init, Handlers
  <2> QED BY <2>1, FS_EmptySet, HubAssumption DEF Init, SessionsOK, SlotsCounted
<1>4. PendingOK
  BY <1>1, NoCallsEmpty DEF Init, PendingOK
<1>5. RequestsMatch
  BY DEF Init, RequestsMatch, OwnAnswer
<1> QED BY <1>2, <1>3, <1>4, <1>5 DEF IInv

\* What an action that touches no request has to show.
LEMMA RpcKept ==
  ASSUME IInv, UNCHANGED rpc, current' = current
  PROVE PendingOK' /\ RequestsMatch'
BY DEF IInv, rpc, PendingOK, RequestsMatch, OwnAnswer

LEMMA SlotsKept ==
  ASSUME IInv, UNCHANGED agentAsks
  PROVE SlotsCounted'
BY DEF IInv, agentAsks, SlotsCounted, Handlers

\* The calls of session p fail: nothing is pending on it.
LEMMA Failed ==
  ASSUME IInv, NEW p \in Sessions,
         call' = FailCalls(p), pending' = Emptied(p), UNCHANGED <<nextId, answer>>,
         \A s \in Sessions : wire'[s] \subseteq wire[s],
         current = 0 \/ current = p \/ current' = current
  PROVE /\ PendingOK' /\ RequestsMatch'
        /\ call' \in [Calls -> {"idle", "waiting", "answered", "timeout", "offline"}]
        /\ pending' = [s \in Sessions |-> pending'[s]]
        /\ \A s \in Sessions : /\ pending'[s] \in [DOMAIN pending'[s] -> Calls]
                               /\ DOMAIN pending'[s] \subseteq 1..(nextId'[s] - 1)
<1> USE DEF IInv
<1>1. \A s \in Sessions : pending'[s] = IF s = p THEN NoCalls ELSE pending[s]
  BY DEF TypeOK, Emptied
<1>2. \A c \in Calls : call'[c] = IF \E i \in DOMAIN pending[p] : pending[p][i] = c
                                   THEN "offline" ELSE call[c]
  BY DEF FailCalls, Range
<1>3. call' \in [Calls -> {"idle", "waiting", "answered", "timeout", "offline"}]
  BY DEF FailCalls, TypeOK
<1>4. pending' = [s \in Sessions |-> pending'[s]]
  BY DEF Emptied, TypeOK
<1>5. \A s \in Sessions : /\ pending'[s] \in [DOMAIN pending'[s] -> Calls]
                          /\ DOMAIN pending'[s] \subseteq 1..(nextId'[s] - 1)
  BY <1>1, NoCallsEmpty DEF TypeOK
<1>6. PendingOK'
  <2>1. \A s \in Sessions : DOMAIN pending'[s] # {} => current' = s
    BY <1>1, NoCallsEmpty, HubAssumption DEF PendingOK, Sessions
  <2>2. \A c \in Calls : (call'[c] = "waiting") <=>
          \E s \in Sessions : \E i \in DOMAIN pending'[s] : pending'[s][i] = c
    BY <1>1, <1>2, NoCallsEmpty DEF PendingOK
  <2>3. \A s \in Sessions : \A i, j \in DOMAIN pending'[s] :
          pending'[s][i] = pending'[s][j] => i = j
    BY <1>1, NoCallsEmpty DEF PendingOK
  <2> QED BY <2>1, <2>2, <2>3 DEF PendingOK
<1>7. RequestsMatch'
  BY <1>1, NoCallsEmpty DEF RequestsMatch, OwnAnswer
<1> QED BY <1>3, <1>4, <1>5, <1>6, <1>7

\* The types of what only the sessions' own actions change.
LEMMA TypesKept ==
  ASSUME IInv, UNCHANGED <<rpc, agentAsks>>,
         socket' \in [Sessions -> Sockets], current' \in {0} \cup Sessions,
         closed' \subseteq Sessions, replaced' \subseteq Sessions,
         context' \in {0} \cup Sessions, lifecycle' \in Lifecycles,
         told' \in [Sessions -> Lifecycles], dismissing' \in BOOLEAN, decisions' \in Nat
  PROVE TypeOK'
BY DEF IInv, TypeOK, rpc, agentAsks

-----------------------------------------------------------------------------
(* Connections.                                                            *)

LEMMA ConnectInv ==
  ASSUME IInv, NEW s \in Sessions, Connect(s) \/ Announce(s) \/ TurnAway(s)
           \/ HelloDone(s) \/ SocketLost(s)
  PROVE IInv'
<1>1. /\ UNCHANGED <<rpc, agentAsks, current, closed, replaced, context, lifecycle,
                     dismissing, decisions>>
      /\ \E x \in {"hello", "announced", "ready", "gone"} :
           socket' = [socket EXCEPT ![s] = x] /\ (x = "ready" <=> HelloDone(s))
      /\ told' \in [Sessions -> Lifecycles]
  BY DEF Connect, Announce, TurnAway, HelloDone, SocketLost, row, IInv, TypeOK
<1>2. TypeOK'
  <2>1. socket' \in [Sessions -> Sockets]
    BY <1>1 DEF IInv, TypeOK, Sockets
  <2>2. /\ current' \in {0} \cup Sessions /\ closed' \subseteq Sessions
        /\ replaced' \subseteq Sessions /\ context' \in {0} \cup Sessions
        /\ lifecycle' \in Lifecycles /\ dismissing' \in BOOLEAN /\ decisions' \in Nat
    BY <1>1 DEF IInv, TypeOK
  <2> QED BY <1>1, <2>1, <2>2, TypesKept
<1>3. SessionsOK'
  <2>1. socket[s] \in {"none", "hello", "announced"} \/ HelloDone(s)
    BY DEF Connect, Announce, TurnAway, SocketLost
  <2>2. HelloDone(s) => socket[s] = "preparing" /\ current = s
    BY DEF HelloDone, IInv, SessionsOK
  <2> QED BY <1>1, <2>1, <2>2 DEF IInv, TypeOK, SessionsOK, Readable
<1> QED BY <1>1, <1>2, <1>3, RpcKept, SlotsKept DEF IInv

LEMMA RegisterInv == ASSUME IInv, NEW s \in Sessions, Register(s) PROVE IInv'
<1> USE DEF IInv
<1>z. 0 \notin Sessions
  BY DEF Sessions
<1>0. s # 0 /\ s # current /\ s \notin closed \cup replaced /\ context # s
  BY HubAssumption DEF Register, SessionsOK, Sessions, Readable
<1>1. CASE current = 0
  <2>1. /\ current' = s /\ context' = s /\ socket' = [socket EXCEPT ![s] = "preparing"]
        /\ UNCHANGED <<closed, replaced, rpc, agentAsks, row>>
    BY <1>1 DEF Register, rpc
  <2>2. TypeOK'
    BY <2>1, TypesKept DEF TypeOK, row, Sockets
  <2>3. SessionsOK'
    BY <1>z, <1>0, <1>1, <2>1 DEF SessionsOK, TypeOK, Readable
  <2>4. PendingOK' /\ RequestsMatch'
    <3>1. \A t \in Sessions : DOMAIN pending[t] = {}
      BY <1>1 DEF PendingOK, Sessions
    <3> QED BY <2>1, <3>1 DEF PendingOK, RequestsMatch, OwnAnswer, rpc
  <2> QED BY <2>1, <2>2, <2>3, <2>4, SlotsKept
<1>2. CASE current # 0
  <2> DEFINE p == current
  <2>1. /\ p \in Sessions /\ current' = s /\ context' = s
        /\ socket' = [socket EXCEPT ![s] = "preparing", ![p] = "closing"]
        /\ closed' = closed \cup {p} /\ replaced' = replaced \cup {p}
        /\ call' = FailCalls(p) /\ pending' = Emptied(p)
        /\ UNCHANGED <<nextId, answer, wire, agentAsks, row>>
    BY <1>2 DEF Register, TypeOK
  <2>2. /\ RequestsMatch'
        /\ call' \in [Calls -> {"idle", "waiting", "answered", "timeout", "offline"}]
        /\ pending' = [t \in Sessions |-> pending'[t]]
        /\ \A t \in Sessions : /\ pending'[t] \in [DOMAIN pending'[t] -> Calls]
                               /\ DOMAIN pending'[t] \subseteq 1..(nextId'[t] - 1)
        /\ PendingOK'
    BY <2>1, Failed
  <2>3. TypeOK'
    BY <2>1, <2>2 DEF TypeOK, row, agentAsks, Sockets
  <2>4. SessionsOK'
    BY <1>0, <1>2, <2>1 DEF SessionsOK, TypeOK, Readable
  <2> QED BY <2>1, <2>2, <2>3, <2>4, SlotsKept
<1> QED BY <1>1, <1>2

LEMMA DisconnectInv ==
  ASSUME IInv, current # 0, Disconnect(current), lifecycle' \in Lifecycles,
         UNCHANGED told, dismissing' \in BOOLEAN, decisions' \in Nat
  PROVE IInv'
<1> USE DEF IInv
<1> DEFINE p == current
<1>1. /\ p \in Sessions /\ current' = 0 /\ closed' = closed \cup {p}
      /\ call' = FailCalls(p) /\ pending' = Emptied(p)
      /\ socket' = [socket EXCEPT ![p] = "closing"]
      /\ UNCHANGED <<replaced, context, nextId, answer, wire, agentAsks>>
  BY DEF Disconnect, TypeOK
<1>2. /\ PendingOK' /\ RequestsMatch'
      /\ call' \in [Calls -> {"idle", "waiting", "answered", "timeout", "offline"}]
      /\ pending' = [t \in Sessions |-> pending'[t]]
      /\ \A t \in Sessions : /\ pending'[t] \in [DOMAIN pending'[t] -> Calls]
                             /\ DOMAIN pending'[t] \subseteq 1..(nextId'[t] - 1)
  BY <1>1, Failed
<1>3. TypeOK'
  BY <1>1, <1>2 DEF TypeOK, agentAsks, Sockets
<1>4. SessionsOK'
  BY <1>1 DEF SessionsOK, TypeOK, Readable
<1> QED BY <1>1, <1>2, <1>3, <1>4, SlotsKept

LEMMA SocketClosedInv == ASSUME IInv, NEW s \in Sessions, SocketClosed(s) PROVE IInv'
<1> USE DEF IInv
<1>1. /\ socket[s] \in {"preparing", "ready", "closing"}
      /\ socket' = [socket EXCEPT ![s] = "gone"] /\ closed' = closed \cup {s}
      /\ call' = FailCalls(s) /\ pending' = Emptied(s)
      /\ current' = (IF current = s THEN 0 ELSE current)
      /\ context' = (IF WasCurrent(s) THEN 0 ELSE context)
      /\ wire' = [wire EXCEPT ![s] = {}]
      /\ UNCHANGED <<replaced, nextId, answer, agentAsks, row>>
  BY DEF SocketClosed, Readable
<1>2. /\ PendingOK' /\ RequestsMatch'
      /\ call' \in [Calls -> {"idle", "waiting", "answered", "timeout", "offline"}]
      /\ pending' = [t \in Sessions |-> pending'[t]]
      /\ \A t \in Sessions : /\ pending'[t] \in [DOMAIN pending'[t] -> Calls]
                             /\ DOMAIN pending'[t] \subseteq 1..(nextId'[t] - 1)
  <2>1. \A t \in Sessions : wire'[t] \subseteq wire[t]
    BY <1>1 DEF TypeOK
  <2> QED BY <1>1, <2>1, Failed
<1>3. TypeOK'
  BY <1>1, <1>2 DEF TypeOK, row, agentAsks, Sockets
<1>4. SessionsOK'
  BY <1>1 DEF SessionsOK, TypeOK, Readable, WasCurrent
<1> QED BY <1>1, <1>2, <1>3, <1>4, SlotsKept

-----------------------------------------------------------------------------
(* Requests.                                                               *)

LEMMA LinkKept == ASSUME IInv, UNCHANGED link PROVE SessionsOK'
BY DEF IInv, link, SessionsOK, Readable

LEMMA CallInv == ASSUME IInv, NEW c \in Calls, Call(c) PROVE IInv'
<1> USE DEF IInv
<1> DEFINE s == current
           i == nextId[s]
           Refused == /\ call' = [call EXCEPT ![c] = "offline"]
                      /\ UNCHANGED <<pending, wire>>
           Counted == s \in Sessions /\ nextId' = [nextId EXCEPT ![s] = i + 1]
           Sent == /\ Counted
                   /\ pending' = [pending EXCEPT ![s] =
                        [j \in DOMAIN @ \cup {i} |-> IF j = i THEN c ELSE @[j]]]
                   /\ wire' = [wire EXCEPT ![s] = @ \cup {[id |-> i, call |-> c]}]
                   /\ call' = [call EXCEPT ![c] = "waiting"]
<1>1. /\ call[c] = "idle" /\ UNCHANGED <<link, answer, agentAsks, row>>
      /\ Sent \/ (Refused /\ (Counted \/ UNCHANGED nextId))
  BY DEF Call, Live, NextId, TypeOK
<1>2. SessionsOK' /\ SlotsCounted'
  BY <1>1, LinkKept, SlotsKept DEF link
<1>3. \A t \in Sessions : \A j \in DOMAIN pending[t] : pending[t][j] # c
  BY <1>1 DEF PendingOK
<1>4. CASE Refused /\ (Counted \/ UNCHANGED nextId)
  <2>1. TypeOK'
    <3>1. /\ nextId' \in [Sessions -> Nat \ {0}]
          /\ \A t \in Sessions : nextId'[t] >= nextId[t]
      BY <1>4 DEF TypeOK
    <3>2. call' \in [Calls -> {"idle", "waiting", "answered", "timeout", "offline"}]
      BY <1>4 DEF TypeOK
    <3>3. \A t \in Sessions : DOMAIN pending[t] \subseteq 1..(nextId'[t] - 1)
      BY <3>1 DEF TypeOK
    <3>4. UNCHANGED <<link, answer, agentAsks, row, pending, wire>>
      BY <1>1, <1>4
    <3> QED BY <3>1, <3>2, <3>3, <3>4 DEF TypeOK, link, agentAsks, row
  <2>2. PendingOK' /\ RequestsMatch'
    <3>1. /\ \A d \in Calls : (call'[d] = "waiting") <=> (call[d] = "waiting")
          /\ \A t \in Sessions : nextId'[t] \in Nat /\ nextId'[t] >= nextId[t]
      BY <1>1, <1>4 DEF TypeOK
    <3>2. \A t \in Sessions : \A m \in wire[t] : m.id \in Nat /\ m.id < nextId'[t]
      BY <3>1 DEF RequestsMatch, TypeOK, Request
    <3>3. UNCHANGED <<current, answer, pending, wire>>
      BY <1>1, <1>4 DEF link
    <3> QED BY <3>1, <3>2, <3>3 DEF PendingOK, RequestsMatch, OwnAnswer
  <2> QED BY <1>2, <2>1, <2>2
<1>5. CASE Sent
  <2>1. /\ s \in Sessions /\ i \in Nat \ {0} /\ i \notin DOMAIN pending[s]
        /\ nextId'[s] = i + 1 /\ \A t \in Sessions \ {s} : nextId'[t] = nextId[t]
    BY <1>5 DEF TypeOK
  <2>2. /\ DOMAIN pending'[s] = DOMAIN pending[s] \cup {i}
        /\ pending'[s][i] = c
        /\ \A j \in DOMAIN pending[s] : pending'[s][j] = pending[s][j]
        /\ \A t \in Sessions \ {s} : pending'[t] = pending[t]
    BY <1>5, <2>1 DEF TypeOK
  <2>3. pending'[s] \in [DOMAIN pending'[s] -> Calls]
    BY <1>5, <2>1, <2>2 DEF TypeOK
  <2>4. TypeOK'
    <3>1. pending' = [t \in Sessions |-> pending'[t]]
      BY <1>5 DEF TypeOK
    <3>2. wire' \in [Sessions -> SUBSET Request]
      BY <1>5, <2>1 DEF TypeOK, Request
    <3>3. \A t \in Sessions : /\ pending'[t] \in [DOMAIN pending'[t] -> Calls]
                              /\ DOMAIN pending'[t] \subseteq 1..(nextId'[t] - 1)
      BY <2>1, <2>2, <2>3 DEF TypeOK
    <3> QED BY <1>1, <1>5, <2>1, <3>1, <3>2, <3>3 DEF TypeOK, link, agentAsks, row
  <2>5. PendingOK'
    <3>1. \A t \in Sessions : DOMAIN pending'[t] # {} => current' = t
      BY <1>1, <2>2 DEF PendingOK, link
    <3>2. \A d \in Calls : (call'[d] = "waiting") <=>
            \E t \in Sessions : \E j \in DOMAIN pending'[t] : pending'[t][j] = d
      <4>1. \A d \in Calls : call'[d] = IF d = c THEN "waiting" ELSE call[d]
        BY <1>5 DEF TypeOK
      <4>2. \A t \in Sessions : \A j \in DOMAIN pending[t] :
              j \in DOMAIN pending'[t] /\ pending'[t][j] = pending[t][j]
        BY <2>1, <2>2
      <4>3. \A t \in Sessions : \A j \in DOMAIN pending'[t] :
              (t = s /\ j = i) \/ (j \in DOMAIN pending[t] /\ pending'[t][j] = pending[t][j])
        BY <2>1, <2>2
      <4>4. i \in DOMAIN pending'[s] /\ pending'[s][i] = c
        BY <2>2
      <4> QED BY <1>3, <2>1, <4>1, <4>2, <4>3, <4>4 DEF PendingOK
    <3>3. \A t \in Sessions : \A j, k \in DOMAIN pending'[t] :
            pending'[t][j] = pending'[t][k] => j = k
      BY <1>3, <2>1, <2>2 DEF PendingOK
    <3> QED BY <3>1, <3>2, <3>3 DEF PendingOK
  <2>6. RequestsMatch'
    <3>1. \A t \in Sessions : \A m \in wire'[t] :
            m \in wire[t] \/ (t = s /\ m.id = i /\ m.call = c)
      BY <1>5, <2>1 DEF TypeOK
    <3>2. \A t \in Sessions : \A m \in wire[t] : m.id \in Nat
      BY DEF TypeOK, Request
    <3> QED BY <1>1, <2>1, <2>2, <3>1, <3>2 DEF RequestsMatch, OwnAnswer, TypeOK
  <2> QED BY <1>2, <2>4, <2>5, <2>6
<1> QED BY <1>1, <1>4, <1>5

\* One request of session s leaves the table; its call is no longer waiting.
LEMMA Settled ==
  ASSUME IInv, NEW s \in Sessions, NEW i \in DOMAIN pending[s],
         NEW x \in {"answered", "timeout"}, UNCHANGED <<link, nextId, agentAsks, row>>,
         call' = [call EXCEPT ![pending[s][i]] = x], pending' = Without(s, i),
         wire' \in [Sessions -> SUBSET Request],
         \A t \in Sessions : wire'[t] \subseteq wire[t], answer' \in [Calls -> Calls], OwnAnswer'
  PROVE IInv'
<1> USE DEF IInv
<1>1. /\ DOMAIN pending'[s] = DOMAIN pending[s] \ {i}
      /\ \A j \in DOMAIN pending'[s] : pending'[s][j] = pending[s][j]
      /\ \A t \in Sessions \ {s} : pending'[t] = pending[t]
      /\ pending'[s] \in [DOMAIN pending'[s] -> Calls]
  BY DEF Without, Restrict, TypeOK
<1>2. pending[s][i] \in Calls
  BY DEF TypeOK
<1>3. TypeOK'
  <2>1. pending' = [t \in Sessions |-> pending'[t]]
    BY DEF Without, TypeOK
  <2>2. \A t \in Sessions : /\ pending'[t] \in [DOMAIN pending'[t] -> Calls]
                            /\ DOMAIN pending'[t] \subseteq 1..(nextId'[t] - 1)
    BY <1>1 DEF TypeOK
  <2> QED BY <1>2, <2>1, <2>2 DEF TypeOK, link, agentAsks, row
<1>4. PendingOK'
  <2>1. \A t \in Sessions : DOMAIN pending'[t] # {} => current' = t
    BY <1>1 DEF PendingOK, link
  <2>2. \A d \in Calls : (call'[d] = "waiting") <=>
          \E t \in Sessions : \E j \in DOMAIN pending'[t] : pending'[t][j] = d
    <3>1. \A t \in Sessions : \A j \in DOMAIN pending[t] :
            pending[t][j] = pending[s][i] => t = s /\ j = i
      BY DEF PendingOK
    <3>2. \A d \in Calls : call'[d] = IF d = pending[s][i] THEN x ELSE call[d]
      BY <1>2 DEF TypeOK
    <3>3. \A t \in Sessions : \A j \in DOMAIN pending'[t] :
            /\ j \in DOMAIN pending[t] /\ pending'[t][j] = pending[t][j]
            /\ pending[t][j] # pending[s][i]
      BY <1>1, <3>1
    <3>4. \A t \in Sessions : \A j \in DOMAIN pending[t] :
            pending[t][j] # pending[s][i] =>
              j \in DOMAIN pending'[t] /\ pending'[t][j] = pending[t][j]
      BY <1>1
    <3> QED BY <1>2, <3>2, <3>3, <3>4 DEF PendingOK
  <2>3. \A t \in Sessions : \A j, k \in DOMAIN pending'[t] :
          pending'[t][j] = pending'[t][k] => j = k
    BY <1>1 DEF PendingOK
  <2> QED BY <2>1, <2>2, <2>3 DEF PendingOK
<1>5. RequestsMatch'
  BY <1>1 DEF RequestsMatch
<1> QED BY <1>3, <1>4, <1>5, LinkKept, SlotsKept DEF link

LEMMA TimeoutInv ==
  ASSUME IInv, NEW s \in Sessions, NEW i \in DOMAIN pending[s], Timeout(s, i) PROVE IInv'
BY Settled DEF Timeout, IInv, TypeOK, RequestsMatch, OwnAnswer

LEMMA ResponseInv ==
  ASSUME IInv, NEW s \in Sessions, NEW m \in wire[s], Response(s, m) PROVE IInv'
<1> USE DEF IInv
<1>1. /\ wire' \in [Sessions -> SUBSET Request]
      /\ \A t \in Sessions : wire'[t] \subseteq wire[t]
  BY DEF Response, TypeOK
<1>2. CASE m.id \in DOMAIN pending[s]
  <2>1. pending[s][m.id] = m.call /\ m.call \in Calls
    BY <1>2 DEF RequestsMatch, TypeOK, Request
  <2>2. /\ call' = [call EXCEPT ![pending[s][m.id]] = "answered"]
        /\ answer' = [answer EXCEPT ![m.call] = m.call]
        /\ pending' = Without(s, m.id)
        /\ UNCHANGED <<link, nextId, agentAsks, row>>
    BY <1>2, <2>1 DEF Response
  <2>3. answer' \in [Calls -> Calls] /\ OwnAnswer'
    BY <2>1, <2>2 DEF TypeOK, RequestsMatch, OwnAnswer
  <2> QED BY <1>1, <1>2, <2>2, <2>3, Settled
<1>3. CASE m.id \notin DOMAIN pending[s]
  <2>1. UNCHANGED <<call, answer, pending, link, nextId, agentAsks, row>>
    BY <1>3 DEF Response
  <2>2. TypeOK'
    BY <1>1, <2>1 DEF TypeOK, link, agentAsks, row
  <2>3. PendingOK' /\ RequestsMatch'
    BY <1>1, <2>1 DEF PendingOK, RequestsMatch, OwnAnswer, link
  <2> QED BY <2>1, <2>2, <2>3, LinkKept, SlotsKept DEF link
<1> QED BY <1>2, <1>3

LEMMA AsksInv ==
  ASSUME IInv, NEW s \in Sessions, NEW r \in Asks,
         Ask(s, r) \/ HandlerResolved(s, r) \/ HandlerThrew(s, r)
  PROVE IInv'
<1> USE DEF IInv
<1>0. /\ MaxInbound \in Nat /\ IsFiniteSet(Handlers(s))
      /\ inbound[s] \in Nat /\ inbound[s] <= MaxInbound
      /\ inbound[s] = Cardinality(Handlers(s))
  BY HubAssumption, HandlersFinite DEF TypeOK, SlotsCounted
<1>1. UNCHANGED <<link, rpc, row>>
  BY DEF Ask, HandlerResolved, HandlerThrew, Answer
<1>2. CASE Ask(s, r) /\ inbound[s] >= MaxInbound
  <2>1. /\ ask[r] = "idle" /\ asker' = [asker EXCEPT ![r] = s]
        /\ ask' = [ask EXCEPT ![r] = "busy"] /\ UNCHANGED inbound
    BY <1>0, <1>2 DEF Ask
  <2>2. \A t \in Sessions : Handlers(t)' = Handlers(t)
    BY <2>1 DEF Handlers, TypeOK
  <2>3. SlotsCounted'
    BY <2>1, <2>2 DEF SlotsCounted
  <2>4. TypeOK'
    BY <1>1, <2>1 DEF TypeOK, AskStates, link, rpc, row
  <2> QED BY <1>1, <2>3, <2>4, LinkKept, RpcKept DEF link
<1>3. CASE Ask(s, r) /\ inbound[s] < MaxInbound
  <2>1. /\ ask[r] = "idle" /\ asker' = [asker EXCEPT ![r] = s]
        /\ ask' = [ask EXCEPT ![r] = "running"]
        /\ inbound' = [inbound EXCEPT ![s] = @ + 1]
    BY <1>0, <1>3 DEF Ask
  <2>2. r \notin Handlers(s) /\ Handlers(s)' = Handlers(s) \cup {r}
    BY <2>1 DEF Handlers, TypeOK
  <2>3. \A t \in Sessions \ {s} : Handlers(t)' = Handlers(t)
    BY <2>1 DEF Handlers, TypeOK
  <2>4. Cardinality(Handlers(s)') = inbound[s] + 1
    BY <1>0, <2>2, FS_AddElement
  <2>5. SlotsCounted'
    BY <1>0, <1>3, <2>1, <2>3, <2>4 DEF SlotsCounted, TypeOK
  <2>6. TypeOK'
    BY <1>0, <1>1, <2>1 DEF TypeOK, AskStates, link, rpc, row
  <2> QED BY <1>1, <2>5, <2>6, LinkKept, RpcKept DEF link
<1>4. CASE r \in Handlers(s) /\ Answer(s, r)
  <2>1. PICK x \in {"unheard", "answered"} : ask' = [ask EXCEPT ![r] = x]
    BY <1>4 DEF Answer
  <2>2. inbound' = [inbound EXCEPT ![s] = @ - 1] /\ UNCHANGED asker
    BY <1>4 DEF Answer
  <2>3. Handlers(s)' = Handlers(s) \ {r}
    BY <2>1, <2>2 DEF Handlers, TypeOK
  <2>4. \A t \in Sessions \ {s} : Handlers(t)' = Handlers(t)
    BY <1>4, <2>1, <2>2 DEF Handlers, TypeOK
  <2>5. /\ Cardinality(Handlers(s)') = inbound[s] - 1
        /\ Cardinality(Handlers(s)') \in Nat
    BY <1>0, <1>4, <2>3, FS_RemoveElement, FS_CardinalityType
  <2>6. SlotsCounted'
    BY <1>0, <2>2, <2>4, <2>5 DEF SlotsCounted, TypeOK
  <2>7. TypeOK'
    <3>1. inbound' \in [Sessions -> Nat]
      BY <2>2, <2>5 DEF TypeOK
    <3> QED BY <1>1, <2>1, <2>2, <3>1 DEF TypeOK, AskStates, link, rpc, row
  <2> QED BY <1>1, <2>6, <2>7, LinkKept, RpcKept DEF link
<1> QED BY <1>0, <1>2, <1>3, <1>4 DEF Ask, HandlerResolved, HandlerThrew

-----------------------------------------------------------------------------
(* The admin, and the whole.                                               *)

LEMMA AdminInv == ASSUME IInv, Revoke \/ Dismiss \/ SendAway \/ Adopt PROVE IInv'
<1>1. /\ lifecycle' \in Lifecycles /\ UNCHANGED told
      /\ dismissing' \in BOOLEAN /\ decisions' \in Nat
      /\ UNCHANGED <<link, rpc, agentAsks>> \/ (current # 0 /\ Disconnect(current))
  <2>0. /\ lifecycle \in Lifecycles /\ dismissing \in BOOLEAN
        /\ decisions \in Nat /\ decisions + 1 \in Nat
    BY DEF IInv, TypeOK
  <2>1. CASE Revoke
    BY <2>0, <2>1 DEF Revoke
  <2>2. CASE Dismiss
    BY <2>0, <2>2 DEF Dismiss, Lifecycles
  <2>3. CASE SendAway
    BY <2>0, <2>3 DEF SendAway
  <2>4. CASE Adopt
    BY <2>0, <2>4 DEF Adopt, Lifecycles
  <2> QED BY <2>1, <2>2, <2>3, <2>4
<1>2. CASE current # 0 /\ Disconnect(current)
  BY <1>1, <1>2, DisconnectInv
<1>3. CASE UNCHANGED <<link, rpc, agentAsks>>
  <2>1. TypeOK'
    BY <1>1, <1>3, TypesKept DEF IInv, TypeOK, link
  <2> QED BY <1>3, <2>1, LinkKept, RpcKept, SlotsKept DEF IInv, link
<1> QED BY <1>1, <1>2, <1>3

LEMMA StepInv == IInv /\ [Next]_vars => IInv'
<1> SUFFICES ASSUME IInv, [Next]_vars PROVE IInv'
  OBVIOUS
<1>1. CASE UNCHANGED vars
  BY <1>1, LinkKept, RpcKept, SlotsKept, TypesKept DEF vars, link, row, IInv, TypeOK
<1>2. CASE Next
  BY <1>2, ConnectInv, RegisterInv, SocketClosedInv, CallInv, TimeoutInv, ResponseInv,
     AsksInv, AdminInv DEF Next
<1> QED BY <1>1, <1>2

\* Every variable keeps its type.
THEOREM TypeOKAlways == Spec => []TypeOK
<1>1. IInv => TypeOK
  BY DEF IInv
<1> QED BY <1>1, InitInv, StepInv, PTL DEF Spec

\* Only the registered session of a row works; every call on another one has
\* failed, and whoever waits has an entry that will end it.
THEOREM OnlyCurrentWorksAlways == Spec => []OnlyCurrentWorks
<1>1. IInv => OnlyCurrentWorks
  <2> SUFFICES ASSUME IInv PROVE OnlyCurrentWorks
    OBVIOUS
  <2>1. \A s \in Sessions : socket[s] \in {"preparing", "ready"} => current = s /\ Live(s)
    BY HubAssumption DEF IInv, SessionsOK, Live, Sessions
  <2>2. \A s \in Sessions : pending[s] # NoCalls => current = s /\ Live(s)
    <3>1. \A s \in Sessions : pending[s] # NoCalls => DOMAIN pending[s] # {}
      BY Empty DEF IInv, TypeOK
    <3> QED BY <3>1, HubAssumption DEF IInv, PendingOK, SessionsOK, Live, Sessions
  <2>3. \A c \in Calls : (call[c] = "waiting") <=> \E s \in Sessions : c \in Range(pending[s])
    BY DEF IInv, PendingOK, Range
  <2> QED BY <2>1, <2>2, <2>3 DEF OnlyCurrentWorks
<1> QED BY <1>1, InitInv, StepInv, PTL DEF Spec

\* Late answers and ids that start again with every session: whoever gets an
\* answer gets the one to its own request.
THEOREM OwnAnswerAlways == Spec => []OwnAnswer
<1>1. IInv => OwnAnswer
  BY DEF IInv, RequestsMatch
<1> QED BY <1>1, InitInv, StepInv, PTL DEF Spec

\* What is remembered of the live session is that session's, and nothing is
\* remembered once no socket of the row is left.
THEOREM ContextFollowsSession == Spec => [](ContextIsLive /\ ForgottenWhenGone)
<1>1. IInv => ContextIsLive /\ ForgottenWhenGone
  BY DEF IInv, TypeOK, SessionsOK, ContextIsLive, ForgottenWhenGone, Readable
<1> QED BY <1>1, InitInv, StepInv, PTL DEF Spec

\* The agent is refused as busy only while MaxInbound handlers run for its
\* session: the count of slots and the handlers at work never part, whichever
\* way a handler ends and whatever becomes of its socket meanwhile.
THEOREM BusyOnlyWhenFullAlways == Spec => BusyOnlyWhenFull
<1> DEFINE Full == \A r \in Asks :
      ask[r] = "idle" /\ ask'[r] = "busy" => Cardinality(Handlers(asker'[r])) = MaxInbound
<1>1. IInv /\ [Next]_vars => Full
  <2> SUFFICES ASSUME IInv, Next, NEW r \in Asks, ask[r] = "idle", ask'[r] = "busy"
               PROVE Cardinality(Handlers(asker'[r])) = MaxInbound
    BY DEF vars, agentAsks
  <2>1. PICK s \in Sessions : \E q \in Asks :
          Ask(s, q) \/ HandlerResolved(s, q) \/ HandlerThrew(s, q)
    BY DEF Next, agentAsks, Connect, Announce, Register, TurnAway, HelloDone, SocketClosed,
           SocketLost, Timeout, Response, Call, Revoke, Dismiss, SendAway, Adopt, Disconnect
  <2>2. PICK q \in Asks : Ask(s, q) \/ HandlerResolved(s, q) \/ HandlerThrew(s, q)
    BY <2>1
  <2>3. MaxInbound \in Nat /\ inbound[s] \in Nat
    BY HubAssumption DEF IInv, TypeOK
  <2>4. Ask(s, q) /\ q = r /\ inbound[s] >= MaxInbound
    BY <2>2, <2>3 DEF Ask, HandlerResolved, HandlerThrew, Answer, IInv, TypeOK
  <2>5. asker'[r] = s
    BY <2>4 DEF Ask, IInv, TypeOK
  <2> QED BY <2>3, <2>4, <2>5 DEF IInv, SlotsCounted
<1>2. IInv /\ [Next]_vars => [Full]_vars
  BY <1>1
<1> QED BY <1>2, InitInv, StepInv, PTL DEF Spec, BusyOnlyWhenFull
=============================================================================
