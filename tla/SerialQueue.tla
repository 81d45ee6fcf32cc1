---------------------------- MODULE SerialQueue ----------------------------
(***************************************************************************)
(* The serial queues every plane runs its work through                     *)
(* (gateway_config/serial_queue.ts), with the two queues of the Wi-Fi      *)
(* plane and their lock order (wifi_config/store.ts).                      *)
(*                                                                         *)
(* A queue keeps no list: each task is chained to the promise of the task  *)
(* before it, and what a task holds is remembered by its async context     *)
(* (AsyncLocalStorage), which follows every call, promise and timer        *)
(* started inside it.  An activity is one flow of async code: a queued     *)
(* task or a timer's callback.  It may only hold a key in its context, or  *)
(* also work in that key's turn.                                           *)
(***************************************************************************)
EXTENDS Integers, FiniteSets

CONSTANTS
  Devices,     \* the keys of the per-device queue: gateways or access points
  Fleet,       \* the one key of the fleet queue
  Activities,  \* names of the activities alive at once; a name is used again
  None,
  MaxPending,  \* unsettled tasks one key may have (maxPending)
  MaxDevices   \* devices that may have an entry at once (maxGateways)

ASSUME QueueAssumption ==
  /\ Fleet \notin Devices
  /\ IsFiniteSet(Activities)
  /\ None \notin Activities \cup Devices \cup {Fleet}
  /\ {MaxPending, MaxDevices} \subseteq Nat \ {0}

Keys == Devices \cup {Fleet}

VARIABLES
  state,    \* where each activity is
  held,     \* the keys its async context holds (#held)
  inTurn,   \* the keys whose task body it is running
  after,    \* a queued task: the task whose settling it is chained to
  key,      \* a task: the key it was called for
  entryOf,  \* a task: the entry object it was counted in
  caller,   \* the task that awaits it
  entries,  \* #entries: each key's entry object, None if it has none
  objects   \* the entry objects: the last task of the chain, the pending count

vars == <<state, held, inTurn, after, key, entryOf, caller, entries, objects>>

NoOne == Activities \cup {None}
States == {"free", "queued", "running", "awaiting", "timer"}

TypeOK ==
  /\ state \in [Activities -> States]
  /\ held \in [Activities -> SUBSET Keys]
  /\ inTurn \in [Activities -> SUBSET Keys]
  /\ after \in [Activities -> NoOne]
  /\ key \in [Activities -> Keys \cup {None}]
  /\ entryOf \in [Activities -> NoOne]
  /\ caller \in [Activities -> NoOne]
  /\ entries \in [Keys -> NoOne]
  /\ objects \in [Activities -> [tail : NoOne, pending : Nat]]

Init ==
  /\ state = [a \in Activities |-> "free"]
  /\ held = [a \in Activities |-> {}]
  /\ inTurn = [a \in Activities |-> {}]
  /\ after = [a \in Activities |-> None]
  /\ key = [a \in Activities |-> None]
  /\ entryOf = [a \in Activities |-> None]
  /\ caller = [a \in Activities |-> None]
  /\ entries = [k \in Keys |-> None]
  /\ objects = [o \in Activities |-> [tail |-> None, pending |-> 0]]

----------------------------------------------------------------------------
\* run(): bounds first, then the task is counted and chained.

\* An object neither the map nor a task refers to.
Unused(o) ==
  /\ \A k \in Keys : entries[k] # o
  /\ \A a \in Activities : entryOf[a] # o

\* The device queue and the fleet queue are two instances: each counts its own.
EntryAllowed(k) ==
  k \in Devices => Cardinality({d \in Devices : entries[d] # None}) < MaxDevices

Accepts(k) ==
  IF entries[k] = None THEN EntryAllowed(k)
  ELSE objects[entries[k]].pending < MaxPending

\* Task b of key k, called in the context ctx; a refused call changes nothing.
Queue(b, k, ctx) ==
  LET o == IF entries[k] # None THEN entries[k]
           ELSE CHOOSE x \in Activities : Unused(x)
      entry == IF entries[k] # None THEN objects[o] ELSE [tail |-> None, pending |-> 0]
  IN /\ state[b] = "free"
     /\ Accepts(k)
     /\ k \notin ctx
     /\ entries' = [entries EXCEPT ![k] = o]
     /\ objects' = [objects EXCEPT ![o] = [tail |-> b, pending |-> entry.pending + 1]]
     /\ held' = [held EXCEPT ![b] = ctx \cup {k}]
     /\ after' = [after EXCEPT ![b] = entry.tail]
     /\ key' = [key EXCEPT ![b] = k]
     /\ entryOf' = [entryOf EXCEPT ![b] = o]
     /\ UNCHANGED inTurn

\* An HTTP handler, an agent event or the tick: nothing held, nobody waits.
Call(b, k) ==
  /\ Queue(b, k, {})
  /\ state' = [state EXCEPT ![b] = "queued"]
  /\ UNCHANGED caller

\* Lock order: a fleet task calls a device's queue and awaits the result.
Nested(f, b, d) ==
  /\ state[f] = "running" /\ Fleet \in inTurn[f]
  /\ Queue(b, d, held[f])
  /\ state' = [state EXCEPT ![b] = "queued", ![f] = "awaiting"]
  /\ caller' = [caller EXCEPT ![b] = f]

\* Mutant: where no context is, its absence is held (`held ?? []`).
NoContext(a) == {None}
\* Mutant: fleet work keeps the context it is scheduled in.
CallersContext(a) == held[a]
\* The context scheduleFleetWork starts from: that of module load.
OutsideQueues(a) == {}

\* scheduleFleetWork, from a device's task that does not wait for it.
ScheduleFleetWork(a, b) ==
  /\ state[a] = "running" /\ inTurn[a] \cap Devices # {}
  /\ Queue(b, Fleet, OutsideQueues(a))
  /\ state' = [state EXCEPT ![b] = "queued"]
  /\ UNCHANGED caller

\* The activity calls run for a key its context holds: the inner function
\* runs at once, inside what it takes for its own turn.
Reenter(a, k) ==
  /\ state[a] = "running" /\ k \in held[a]
  /\ inTurn' = [inTurn EXCEPT ![a] = @ \cup {k}]
  /\ UNCHANGED <<state, held, after, key, entryOf, caller, entries, objects>>

----------------------------------------------------------------------------
\* The promise chain.

\* Mutant: the task is not chained to the one before it.
StartAtOnce(b) ==
  /\ state[b] = "queued"
  /\ state' = [state EXCEPT ![b] = "running"]
  /\ inTurn' = [inTurn EXCEPT ![b] = {key[b]}]
  /\ UNCHANGED <<held, after, key, entryOf, caller, entries, objects>>

\* Mutant: fleet work starts only when no device's queue has work.
StartWhenIdle(b) ==
  /\ state[b] = "queued" /\ after[b] = None
  /\ key[b] = Fleet => \A d \in Devices : entries[d] = None
  /\ state' = [state EXCEPT ![b] = "running"]
  /\ inTurn' = [inTurn EXCEPT ![b] = {key[b]}]
  /\ UNCHANGED <<held, after, key, entryOf, caller, entries, objects>>

Start(b) ==
  /\ state[b] = "queued" /\ after[b] = None
  /\ state' = [state EXCEPT ![b] = "running"]
  /\ inTurn' = [inTurn EXCEPT ![b] = {key[b]}]
  /\ UNCHANGED <<held, after, key, entryOf, caller, entries, objects>>

\* Mutant: the entry goes with the first task that settles.
SettledAtOnce(k, o, n) ==
  IF entries[k] = o THEN [entries EXCEPT ![k] = None] ELSE entries
\* What #settle leaves of the map once the count of k's entry o is n.
Settled(k, o, n) ==
  IF n = 0 /\ entries[k] = o THEN [entries EXCEPT ![k] = None] ELSE entries

\* Frees the name, and the caller that awaited it.
Leave(a) ==
  /\ state' = [x \in Activities |->
       IF x = a THEN "free" ELSE IF x = caller[a] THEN "running" ELSE state[x]]
  /\ held' = [held EXCEPT ![a] = {}]
  /\ inTurn' = [inTurn EXCEPT ![a] = {}]
  /\ caller' = [caller EXCEPT ![a] = None]
  /\ key' = [key EXCEPT ![a] = None]
  /\ entryOf' = [entryOf EXCEPT ![a] = None]

\* The task resolves or rejects, which #settle treats alike; the next of the
\* chain may start and the caller goes on.
Finish(a) ==
  LET o == entryOf[a]
      n == objects[o].pending - 1
  IN /\ state[a] = "running" /\ o # None
     /\ entries' = Settled(key[a], o, n)
     /\ objects' = [objects EXCEPT ![o] =
          IF n = 0 THEN [tail |-> None, pending |-> 0] ELSE [@ EXCEPT !.pending = n]]
     /\ after' = [b \in Activities |-> IF after[b] = a THEN None ELSE after[b]]
     /\ Leave(a)

----------------------------------------------------------------------------
\* A timer set inside a task: its callback inherits the task's context (as the
\* listener of every saved apply does for the QoS sender).

SetTimer(a, b) ==
  /\ state[a] = "running" /\ inTurn[a] \cap Devices # {} /\ state[b] = "free"
  /\ state' = [state EXCEPT ![b] = "timer"]
  /\ held' = [held EXCEPT ![b] = held[a]]
  /\ UNCHANGED <<inTurn, after, key, entryOf, caller, entries, objects>>

Fire(b) ==
  /\ state[b] = "timer"
  /\ state' = [state EXCEPT ![b] = "running"]
  /\ UNCHANGED <<held, inTurn, after, key, entryOf, caller, entries, objects>>

\* A callback belongs to no entry: it only ends.
Return(b) ==
  /\ state[b] = "running" /\ entryOf[b] = None
  /\ Leave(b)
  /\ UNCHANGED <<after, entries, objects>>

----------------------------------------------------------------------------
Next == \E a \in Activities :
  \/ Start(a) \/ Finish(a) \/ Fire(a) \/ Return(a)
  \/ \E k \in Keys : Call(a, k) \/ Reenter(a, k)
  \/ \E b \in Activities :
       \/ ScheduleFleetWork(a, b) \/ SetTimer(a, b)
       \/ \E d \in Devices : Nested(a, b, d)

Spec == Init /\ [][Next]_vars

\* Promise callbacks and timers run (weak); a task body ends, because every
\* RPC has a timeout and a fleet task visits each device once: it may go back
\* to a nested call again and again, but not for ever (strong).
Fairness == \A a \in Activities :
  /\ WF_vars(Start(a)) /\ WF_vars(Fire(a))
  /\ SF_vars(Finish(a)) /\ SF_vars(Return(a))

FairSpec == Spec /\ Fairness

----------------------------------------------------------------------------
\* Properties

\* Whoever awaits a, directly or through others.
Above[a \in Activities] ==
  IF caller[a] = None THEN {} ELSE {caller[a]} \cup Above[caller[a]]

\* No two activities work in the turn of the same key, those that were let in
\* because their context holds it included.  A task and those that await it
\* count as one.
Apart(a, b) ==
  a # b /\ a \notin Above[b] /\ b \notin Above[a] => inTurn[a] \cap inTurn[b] = {}

\* Does a work for a timer's callback, at first or at second hand?
ForCallback[a \in Activities] ==
  IF caller[a] = None THEN entryOf[a] = None ELSE ForCallback[caller[a]]

\* One task at a time works for a device and for the fleet, nested calls and
\* fleet work scheduled from a device's task included.
OneAtATime == \A a, b \in Activities :
  ~ForCallback[a] /\ ~ForCallback[b] => Apart(a, b)

\* The header of serial_queue.ts: everything for one device runs one at a
\* time, which would hold of what a timer's callback does too.
AllOneAtATime == \A a, b \in Activities : Apart(a, b)

\* The count that bounds a queue is the number of its unsettled tasks, the
\* entry is there exactly while there are some, and no bound is passed: an
\* entry dropped too early starts a second chain, one kept leaks for ever.
UnsettledOf(k) == {a \in Activities : key[a] = k}
CountsMatch ==
  /\ \A a \in Activities : key[a] # None => entryOf[a] = entries[key[a]]
  /\ \A k \in Keys : entries[k] # None =>
       /\ objects[entries[k]].pending = Cardinality(UnsettledOf(k))
       /\ Cardinality(UnsettledOf(k)) \in 1..MaxPending
  /\ Cardinality({d \in Devices : entries[d] # None}) <= MaxDevices

\* An accepted task starts: fleet tasks waiting for devices, device tasks and
\* whatever they schedule never wait for each other in a circle.
EveryTaskStarts == \A a \in Activities :
  (state[a] = "queued") ~> (state[a] # "queued")

\* Tasks of one key in the order of the chain, read off the links alone.
Depth[a \in Activities] == IF after[a] = None THEN 0 ELSE 1 + Depth[after[a]]
LineOf(k) ==
  LET W == {a \in UnsettledOf(k) : state[a] = "queued"}
      n == Cardinality(W)
  IN CHOOSE q \in [1..n -> W] : \A i, j \in 1..n : i < j => Depth[q[i]] < Depth[q[j]]
ServingOf(k) ==
  LET S == {a \in UnsettledOf(k) : state[a] # "queued"}
  IN IF S = {} THEN None ELSE CHOOSE a \in S : TRUE

\* The chain of promises gives each key's tasks their turns in the order in
\* which they were accepted.
T == INSTANCE Turns WITH
  Tasks <- Activities, NoTask <- None,
  line <- [k \in Keys |-> LineOf(k)],
  serving <- [k \in Keys |-> ServingOf(k)]
TakesTurns == T!Spec
=============================================================================
