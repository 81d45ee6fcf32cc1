------------------------- MODULE SerialQueueProofs -------------------------
(***************************************************************************)
(* For any keys, any finite number of activities and any bounds: the types *)
(* of the serial queues, the chain of promises that gives one task of a    *)
(* key its turn at a time, the counts that bound the queues, the turns a   *)
(* task may work in with all that it awaits, and that the chains implement *)
(* the abstract queue of Turns.                                            *)
(*                                                                         *)
(* QInv is inductive by itself, Contexts on top of it.  The recursive      *)
(* functions of the properties (Above, ForCallback, Depth) are used by     *)
(* their equations alone, which AboveIs, ForCallbackIs and DepthIs prove   *)
(* from functions that satisfy them; Least is the induction.               *)
(***************************************************************************)
EXTENDS SerialQueue, Sequences, FiniteSetTheorems, SequenceTheorems,
        WellFoundedInduction, TLAPS

LEMMA Constants == /\ IsFiniteSet(Activities) /\ None \notin Activities /\ None \notin Keys
                   /\ Fleet \in Keys /\ Devices \subseteq Keys /\ Fleet \notin Devices
                   /\ MaxPending \in Nat \ {0} /\ MaxDevices \in Nat \ {0}
BY QueueAssumption DEF Keys

-----------------------------------------------------------------------------
(* The invariant.                                                          *)

\* What an activity is says what it belongs to.
Flows ==
  /\ \A a \in Activities :
       /\ key[a] = None <=> entryOf[a] = None
       /\ key[a] # None => entryOf[a] = entries[key[a]]
       /\ state[a] \in {"free", "timer"} => key[a] = None /\ caller[a] = None
       /\ state[a] = "queued" => key[a] # None
       /\ after[a] # None => state[a] = "queued"
       /\ caller[a] # None => state[caller[a]] = "awaiting"
  /\ \A a, b \in Activities : caller[a] # None /\ caller[a] = caller[b] => a = b

\* Two keys never share an entry object.
OwnEntries == \A k, l \in Keys : entries[k] # None /\ entries[k] = entries[l] => k = l

\* The n unsettled tasks of k, each chained to the one before it.
Chain(k, n, s) ==
  /\ \A a \in Activities : key[a] = k <=> \E i \in 1..n : s[i] = a
  /\ \A i, j \in 1..n : s[i] = s[j] => i = j
  /\ \A i \in 1..n : after[s[i]] = IF i = 1 THEN None ELSE s[i - 1]
  /\ n = 0 <=> entries[k] = None
  /\ n > 0 => objects[entries[k]].tail = s[n] /\ objects[entries[k]].pending = n
  /\ n <= MaxPending
Chained == \A k \in Keys : \E n \in Nat : \E s \in [1..n -> Activities] : Chain(k, n, s)

\* The devices with an entry are within their bound.
DevicesBounded ==
  /\ IsFiniteSet({d \in Devices : entries[d] # None})
  /\ Cardinality({d \in Devices : entries[d] # None}) <= MaxDevices

QInv == TypeOK /\ Flows /\ OwnEntries /\ Chained /\ DevicesBounded

\* A key's tasks take turns: only one of them has started.
OneStarted == \A a, b \in Activities :
  /\ key[a] # None /\ key[a] = key[b]
  /\ state[a] # "queued" /\ state[b] # "queued"
  => a = b

-----------------------------------------------------------------------------
(* What the invariant gives.                                               *)

\* The first of a chain is the one that waits for nobody.
LEMMA FirstStarted == ASSUME QInv PROVE OneStarted
<1> SUFFICES ASSUME NEW a \in Activities, NEW b \in Activities, key[a] # None,
                    key[a] = key[b], state[a] # "queued", state[b] # "queued"
             PROVE  a = b
  BY DEF OneStarted
<1>1. key[a] \in Keys /\ after[a] = None /\ after[b] = None
  BY DEF QInv, TypeOK, Flows
<1>2. PICK n \in Nat : \E s \in [1..n -> Activities] : Chain(key[a], n, s)
  BY <1>1 DEF QInv, Chained
<1>3. PICK s \in [1..n -> Activities] : Chain(key[a], n, s)
  BY <1>2
<1>4. PICK i \in 1..n : s[i] = a
  BY <1>3 DEF Chain
<1>5. PICK j \in 1..n : s[j] = b
  BY <1>3 DEF Chain
<1>6. \A h \in 1..n : after[s[h]] = None => h = 1
  <2> SUFFICES ASSUME NEW h \in 1..n, after[s[h]] = None, h # 1 PROVE FALSE
    OBVIOUS
  <2>1. h - 1 \in 1..n
    OBVIOUS
  <2> QED BY <1>3, <2>1, Constants DEF Chain
<1> QED BY <1>1, <1>4, <1>5, <1>6

LEMMA CountsFollow == ASSUME QInv PROVE CountsMatch
<1>1. \A a \in Activities : key[a] # None => entryOf[a] = entries[key[a]]
  BY DEF QInv, Flows
<1>2. ASSUME NEW k \in Keys, entries[k] # None
      PROVE  /\ objects[entries[k]].pending = Cardinality(UnsettledOf(k))
             /\ Cardinality(UnsettledOf(k)) \in 1..MaxPending
  <2>1. PICK n \in Nat : \E s \in [1..n -> Activities] : Chain(k, n, s)
    BY DEF QInv, Chained
  <2>2. PICK s \in [1..n -> Activities] : Chain(k, n, s)
    BY <2>1
  <2>3. s \in Bijection(1..n, UnsettledOf(k))
    <3>1. s \in [1..n -> UnsettledOf(k)]
      BY <2>2 DEF Chain, UnsettledOf
    <3>2. \A a \in UnsettledOf(k) : \E i \in 1..n : s[i] = a
      BY <2>2 DEF Chain, UnsettledOf
    <3>3. \A i, j \in 1..n : s[i] = s[j] => i = j
      BY <2>2 DEF Chain
    <3> QED BY <3>1, <3>2, <3>3 DEF Bijection, Injection, Surjection, IsInjective
  <2>4. Cardinality(UnsettledOf(k)) = n
    BY <2>3, FS_CountingElements DEF ExistsBijection
  <2>5. n # 0 /\ n <= MaxPending /\ objects[entries[k]].pending = n
    BY <1>2, <2>2 DEF Chain
  <2> QED BY <2>4, <2>5, Constants
<1> QED BY <1>1, <1>2 DEF CountsMatch, QInv, DevicesBounded

LEMMA InitInv == Init => QInv
<1> SUFFICES ASSUME Init PROVE QInv
  OBVIOUS
<1>1. TypeOK
  BY DEF Init, TypeOK, States, NoOne
<1>2. Flows /\ OwnEntries
  BY DEF Init, Flows, OwnEntries
<1>3. Chained
  <2> SUFFICES ASSUME NEW k \in Keys
               PROVE  \E s \in [1..0 -> Activities] : Chain(k, 0, s)
    BY DEF Chained
  <2> DEFINE s == [i \in 1..0 |-> CHOOSE a \in Activities : TRUE]
  <2>1. s \in [1..0 -> Activities]
    OBVIOUS
  <2>2. Chain(k, 0, s)
    BY Constants DEF Init, Chain
  <2> QED BY <2>1, <2>2
<1>4. DevicesBounded
  <2>1. {d \in Devices : entries[d] # None} = {}
    BY DEF Init, Keys
  <2> QED BY <2>1, FS_EmptySet, Constants DEF DevicesBounded
<1> QED BY <1>1, <1>2, <1>3, <1>4 DEF QInv
-----------------------------------------------------------------------------
(* run(): a task joins the chain of its key.                               *)

\* There is an entry object for a key without one: every object in use is
\* that of an unsettled task, and the new task has none yet.
LEMMA FreshObject ==
  ASSUME QInv, NEW b \in Activities, state[b] = "free"
  PROVE  \E x \in Activities : Unused(x)
<1> SUFFICES ASSUME \A x \in Activities : ~Unused(x) PROVE FALSE
  OBVIOUS
<1>1. entryOf[b] = None
  BY DEF QInv, Flows
<1>2. ASSUME NEW x \in Activities PROVE \E a \in Activities \ {b} : entryOf[a] = x
  <2>1. CASE \E a \in Activities : entryOf[a] = x
    BY <1>1, <2>1, Constants
  <2>2. CASE \E k \in Keys : entries[k] = x
    <3>1. PICK k \in Keys : entries[k] = x
      BY <2>2
    <3>2. PICK n \in Nat : \E s \in [1..n -> Activities] : Chain(k, n, s)
      BY DEF QInv, Chained
    <3>3. PICK s \in [1..n -> Activities] : Chain(k, n, s)
      BY <3>2
    <3>4. n # 0 /\ 1 \in 1..n
      BY <3>1, <3>3, Constants DEF Chain
    <3>5. key[s[1]] = k /\ s[1] \in Activities
      BY <3>3, <3>4 DEF Chain
    <3>6. entryOf[s[1]] = x
      BY <3>1, <3>5, Constants DEF QInv, Flows
    <3> QED BY <2>1, <3>5, <3>6
  <2> QED BY <2>1, <2>2 DEF Unused
<1> DEFINE Rest == Activities \ {b}
           f == [x \in Activities |-> CHOOSE a \in Rest : entryOf[a] = x]
<1>3. \A x \in Activities : f[x] \in Rest /\ entryOf[f[x]] = x
  BY <1>2
<1>4. f \in [Activities -> Rest]
  BY <1>3
<1>5. IsFiniteSet(Rest) /\ Cardinality(Rest) < Cardinality(Activities)
  <2>1. IsFiniteSet(Rest) /\ Cardinality(Rest) = Cardinality(Activities) - 1
    BY Constants, FS_RemoveElement
  <2>2. Cardinality(Activities) \in Nat
    BY Constants, FS_CardinalityType
  <2> QED BY <2>1, <2>2
<1> HIDE DEF f, Rest
<1>6. \E x, y \in Activities : x # y /\ f[x] = f[y]
  BY <1>4, <1>5, Constants, FS_PigeonHole
<1> QED BY <1>3, <1>6

\* The new task is the last of its key's chain; no other chain changes.
LEMMA QueueChain ==
  ASSUME QInv, NEW b \in Activities, NEW k \in Keys, NEW ctx, Queue(b, k, ctx),
         NEW l \in Keys, NEW n \in Nat, NEW s \in [1..n -> Activities], Chain(l, n, s)
  PROVE  IF l = k
         THEN \E t \in [1..(n + 1) -> Activities] :
                t[n + 1] = b /\ (\A i \in 1..n : t[i] = s[i]) /\ Chain(l, n + 1, t)'
         ELSE Chain(l, n, s)'
<1> DEFINE o == IF entries[k] # None THEN entries[k]
                ELSE CHOOSE x \in Activities : Unused(x)
           entry == IF entries[k] # None THEN objects[o] ELSE [tail |-> None, pending |-> 0]
<1> USE DEF QInv
<1>1. /\ state[b] = "free" /\ Accepts(k)
      /\ entries' = [entries EXCEPT ![k] = o]
      /\ objects' = [objects EXCEPT ![o] = [tail |-> b, pending |-> entry.pending + 1]]
      /\ after' = [after EXCEPT ![b] = entry.tail]
      /\ key' = [key EXCEPT ![b] = k]
      /\ entryOf' = [entryOf EXCEPT ![b] = o]
  BY DEF Queue
<1>2. o \in Activities /\ (entries[k] = None => Unused(o))
  <2>1. CASE entries[k] # None
    BY <2>1 DEF TypeOK, NoOne
  <2>2. CASE entries[k] = None
    <3>1. \E x \in Activities : Unused(x)
      BY <1>1, FreshObject
    <3> QED BY <2>2, <3>1
  <2> QED BY <2>1, <2>2
<1>3. entry \in [tail : NoOne, pending : Nat]
  BY <1>2 DEF TypeOK, NoOne
<1>4. key[b] = None /\ o # None
  BY <1>1, <1>2, Constants DEF Flows
<1>5. (entries[k] = None => entry.tail = None /\ entry.pending = 0)
      /\ (entries[k] # None => entry = objects[entries[k]])
  OBVIOUS
<1> HIDE DEF o, entry
<1>6. /\ \A h \in Keys : entries'[h] = IF h = k THEN o ELSE entries[h]
      /\ \A a \in Activities : key'[a] = IF a = b THEN k ELSE key[a]
      /\ \A a \in Activities : after'[a] = IF a = b THEN entry.tail ELSE after[a]
      /\ \A x \in Activities : objects'[x] = IF x = o
            THEN [tail |-> b, pending |-> entry.pending + 1] ELSE objects[x]
  BY <1>1 DEF TypeOK
<1>7. \A h \in Keys : h # k => entries[h] # o
  BY <1>2, <1>4 DEF OwnEntries, Unused, o
<1>8. entries[k] # None => objects[entries[k]].pending < MaxPending
  BY <1>1 DEF Accepts
<1> QED
  <2>1. \A i \in 1..n : s[i] # b /\ key[s[i]] = l
    BY <1>4, Constants DEF Chain
  <2>2. CASE l # k
    <3>1. \A a \in Activities : key'[a] = l <=> key[a] = l
      BY <1>4, <1>6, <2>2, Constants
    <3>2. entries'[l] = entries[l]
      BY <1>6, <2>2
    <3>3. n > 0 => objects'[entries[l]] = objects[entries[l]]
      BY <1>6, <1>7, <2>2 DEF Chain, TypeOK, NoOne
    <3>4. \A i \in 1..n : after'[s[i]] = after[s[i]]
      BY <1>6, <2>1
    <3>5. Chain(l, n, s)'
      BY <3>1, <3>2, <3>3, <3>4 DEF Chain
    <3> QED BY <2>2, <3>5
  <2>3. CASE l = k
    <3> DEFINE t == [i \in 1..(n + 1) |-> IF i = n + 1 THEN b ELSE s[i]]
    <3>1. t \in [1..(n + 1) -> Activities] /\ t[n + 1] = b
          /\ \A i \in 1..n : t[i] = s[i]
      OBVIOUS
    <3> HIDE DEF t
    <3>2. entry.pending = n /\ n + 1 <= MaxPending
      BY <1>5, <1>8, <2>3, Constants DEF Chain
    <3>3. entry.tail = IF n = 0 THEN None ELSE s[n]
      BY <1>5, <2>3 DEF Chain
    <3>4. \A a \in Activities : key'[a] = l <=> \E i \in 1..(n + 1) : t[i] = a
      <4> SUFFICES ASSUME NEW a \in Activities
                   PROVE  key'[a] = l <=> \E i \in 1..(n + 1) : t[i] = a
        OBVIOUS
      <4>1. CASE a = b
        BY <1>6, <2>3, <3>1, <4>1
      <4>2. CASE a # b
        <5>1. key'[a] = l <=> \E i \in 1..n : s[i] = a
          BY <1>6, <4>2 DEF Chain
        <5> QED BY <3>1, <4>2, <5>1
      <4> QED BY <4>1, <4>2
    <3>5. \A i, j \in 1..(n + 1) : t[i] = t[j] => i = j
      <4>1. \A i \in 1..(n + 1) : i = n + 1 \/ i \in 1..n
        OBVIOUS
      <4> QED BY <2>1, <3>1, <4>1 DEF Chain
    <3>6. \A i \in 1..(n + 1) : after'[t[i]] = IF i = 1 THEN None ELSE t[i - 1]
      <4> SUFFICES ASSUME NEW i \in 1..(n + 1)
                   PROVE  after'[t[i]] = IF i = 1 THEN None ELSE t[i - 1]
        OBVIOUS
      <4>1. CASE i = n + 1
        <5>1. after'[t[i]] = entry.tail
          BY <1>6, <3>1, <4>1
        <5>2. n # 0 => n \in 1..n /\ t[i - 1] = s[n]
          BY <3>1, <4>1
        <5> QED BY <3>3, <4>1, <5>1, <5>2
      <4>2. CASE i \in 1..n
        <5>1. after'[t[i]] = after[s[i]]
          BY <1>6, <2>1, <3>1, <4>2
        <5>2. i # 1 => i - 1 \in 1..n /\ t[i - 1] = s[i - 1]
          BY <3>1, <4>2
        <5> QED BY <4>2, <5>1, <5>2 DEF Chain
      <4> QED BY <4>1, <4>2
    <3>7. entries'[l] = o /\ objects'[o].tail = t[n + 1] /\ objects'[o].pending = n + 1
      BY <1>2, <1>6, <2>3, <3>1, <3>2
    <3>8. Chain(l, n + 1, t)'
      BY <1>4, <3>2, <3>4, <3>5, <3>6, <3>7 DEF Chain
    <3> QED BY <2>3, <3>1, <3>8
  <2> QED BY <2>2, <2>3

LEMMA QueueKeeps ==
  ASSUME QInv, NEW b \in Activities, NEW k \in Keys, NEW ctx, Queue(b, k, ctx)
  PROVE  /\ OwnEntries' /\ Chained' /\ DevicesBounded'
         /\ after' \in [Activities -> NoOne] /\ key' \in [Activities -> Keys \cup {None}]
         /\ entryOf' \in [Activities -> NoOne] /\ entries' \in [Keys -> NoOne]
         /\ objects' \in [Activities -> [tail : NoOne, pending : Nat]]
         /\ \A a \in Activities \ {b} : /\ after'[a] = after[a] /\ key'[a] = key[a]
                                       /\ entryOf'[a] = entryOf[a]
         /\ key'[b] = k /\ entryOf'[b] = entries'[k] /\ entries'[k] # None
         /\ \A l \in Keys : entries[l] # None => entries'[l] = entries[l]
<1> DEFINE o == IF entries[k] # None THEN entries[k]
                ELSE CHOOSE x \in Activities : Unused(x)
           entry == IF entries[k] # None THEN objects[o] ELSE [tail |-> None, pending |-> 0]
<1> USE DEF QInv
<1>1. /\ state[b] = "free" /\ Accepts(k)
      /\ entries' = [entries EXCEPT ![k] = o]
      /\ objects' = [objects EXCEPT ![o] = [tail |-> b, pending |-> entry.pending + 1]]
      /\ after' = [after EXCEPT ![b] = entry.tail]
      /\ key' = [key EXCEPT ![b] = k]
      /\ entryOf' = [entryOf EXCEPT ![b] = o]
  BY DEF Queue
<1>2. o \in Activities /\ (entries[k] = None => Unused(o))
  <2>1. CASE entries[k] # None
    BY <2>1 DEF TypeOK, NoOne
  <2>2. CASE entries[k] = None
    <3>1. \E x \in Activities : Unused(x)
      BY <1>1, FreshObject
    <3> QED BY <2>2, <3>1
  <2> QED BY <2>1, <2>2
<1>3. entry \in [tail : NoOne, pending : Nat]
  BY <1>2 DEF TypeOK, NoOne
<1>4. key[b] = None /\ o # None
  BY <1>1, <1>2, Constants DEF Flows
<1> HIDE DEF o, entry
<1>6. /\ \A l \in Keys : entries'[l] = IF l = k THEN o ELSE entries[l]
      /\ \A a \in Activities : key'[a] = IF a = b THEN k ELSE key[a]
      /\ \A a \in Activities : after'[a] = IF a = b THEN entry.tail ELSE after[a]
      /\ \A x \in Activities : objects'[x] = IF x = o
            THEN [tail |-> b, pending |-> entry.pending + 1] ELSE objects[x]
  BY <1>1 DEF TypeOK
<1>7. \A l \in Keys : l # k => entries[l] # o
  BY <1>2, <1>4 DEF OwnEntries, Unused, o
<1>8. OwnEntries'
  BY <1>6, <1>7 DEF OwnEntries
<1>10. Chained'
  BY QueueChain DEF Chained
<1>11. DevicesBounded'
  <2> DEFINE D == {d \in Devices : entries[d] # None}
  <2>1. CASE entries[k] # None \/ k \notin Devices
    <3>1. {d \in Devices : entries'[d] # None} = D
      BY <1>4, <1>6, <2>1, Constants
    <3> QED BY <3>1 DEF DevicesBounded
  <2>2. CASE entries[k] = None /\ k \in Devices
    <3>1. {d \in Devices : entries'[d] # None} = D \cup {k}
      BY <1>4, <1>6, <2>2, Constants
    <3>2. IsFiniteSet(D) /\ Cardinality(D) < MaxDevices /\ k \notin D
      BY <1>1, <2>2 DEF DevicesBounded, Accepts, EntryAllowed
    <3> HIDE DEF D
    <3>3. /\ IsFiniteSet(D \cup {k}) /\ Cardinality(D \cup {k}) = Cardinality(D) + 1
          /\ Cardinality(D) \in Nat
      BY <3>2, FS_AddElement, FS_CardinalityType
    <3> QED BY <3>1, <3>2, <3>3, Constants DEF DevicesBounded
  <2> QED BY <2>1, <2>2
<1>12. /\ after' \in [Activities -> NoOne] /\ key' \in [Activities -> Keys \cup {None}]
       /\ entryOf' \in [Activities -> NoOne] /\ entries' \in [Keys -> NoOne]
  BY <1>1, <1>2, <1>3 DEF TypeOK, NoOne
<1>13. objects' \in [Activities -> [tail : NoOne, pending : Nat]]
  BY <1>1, <1>2, <1>3 DEF TypeOK, NoOne
<1>14. \A a \in Activities \ {b} : entryOf'[a] = entryOf[a]
  BY <1>1 DEF TypeOK
<1>15. entryOf'[b] = entries'[k]
  BY <1>1, <1>6 DEF TypeOK
<1>16. \A l \in Keys : entries[l] # None => entries'[l] = entries[l]
  BY <1>6 DEF o
<1> QED BY <1>4, <1>6, <1>8, <1>10, <1>11, <1>12, <1>13, <1>14, <1>15, <1>16

-----------------------------------------------------------------------------
(* #settle: a task leaves the chain of its key.                            *)

\* The task that settles is the first of its key's chain, which goes on without
\* it; no other chain changes.
LEMMA FinishChain ==
  ASSUME QInv, NEW a \in Activities, Finish(a),
         NEW l \in Keys, NEW n \in Nat, NEW s \in [1..n -> Activities], Chain(l, n, s)
  PROVE  IF l = key[a]
         THEN /\ n > 0 /\ s[1] = a
              /\ \E t \in [1..(n - 1) -> Activities] :
                   (\A i \in 1..(n - 1) : t[i] = s[i + 1]) /\ Chain(l, n - 1, t)'
         ELSE Chain(l, n, s)'
<1> USE DEF QInv
<1> DEFINE o == entryOf[a]
           k == key[a]
           m == objects[o].pending - 1
<1>1. /\ state[a] = "running" /\ o # None
      /\ entries' = Settled(k, o, m)
      /\ objects' = [objects EXCEPT ![o] =
           IF m = 0 THEN [tail |-> None, pending |-> 0] ELSE [@ EXCEPT !.pending = m]]
      /\ after' = [b \in Activities |-> IF after[b] = a THEN None ELSE after[b]]
      /\ key' = [key EXCEPT ![a] = None]
  BY DEF Finish, Leave
<1>2. k \in Keys /\ entries[k] = o /\ o \in Activities /\ after[a] = None
  BY <1>1 DEF Flows, TypeOK, NoOne
<1> HIDE DEF o, k, m
<1>3. /\ \A h \in Keys : entries'[h] = IF h = k /\ m = 0 THEN None ELSE entries[h]
      /\ \A b \in Activities : key'[b] = IF b = a THEN None ELSE key[b]
      /\ \A b \in Activities : after'[b] = IF after[b] = a THEN None ELSE after[b]
      /\ \A x \in Activities : x # o => objects'[x] = objects[x]
      /\ m # 0 => objects'[o] = [objects[o] EXCEPT !.pending = m]
  BY <1>1, <1>2 DEF TypeOK, Settled
<1>4. key[a] = k
  BY DEF k
<1> QED
  <2>1. CASE l # k
    <3>1. \A b \in Activities : key'[b] = l <=> key[b] = l
      BY <1>3, <1>4, <2>1, Constants
    <3>2. entries'[l] = entries[l]
      BY <1>3, <2>1
    <3>3. n > 0 => objects'[entries[l]] = objects[entries[l]]
      BY <1>2, <1>3, <2>1 DEF Chain, TypeOK, NoOne, OwnEntries
    <3>4. \A i \in 1..n : after'[s[i]] = after[s[i]]
      <4> SUFFICES ASSUME NEW i \in 1..n PROVE after[s[i]] # a
        BY <1>3
      <4>1. CASE i = 1
        BY <4>1, Constants DEF Chain
      <4>2. CASE i # 1
        <5>1. i - 1 \in 1..n
          BY <4>2
        <5>2. after[s[i]] = s[i - 1] /\ key[s[i - 1]] = l
          BY <4>2, <5>1 DEF Chain
        <5> QED BY <1>4, <2>1, <5>2
      <4> QED BY <4>1, <4>2
    <3>5. Chain(l, n, s)'
      BY <3>1, <3>2, <3>3, <3>4 DEF Chain
    <3> QED BY <1>4, <2>1, <3>5
  <2>2. CASE l = k
    <3>1. n > 0 /\ s[1] = a /\ objects[o].pending = n /\ objects[o].tail = s[n] /\ m = n - 1
      <4>1. PICK i \in 1..n : s[i] = a
        BY <1>2, <1>4, <2>2 DEF Chain
      <4>2. i = 1
        <5> SUFFICES ASSUME i # 1 PROVE FALSE
          OBVIOUS
        <5>1. i - 1 \in 1..n /\ after[a] = s[i - 1] /\ s[i - 1] \in Activities
          BY <4>1 DEF Chain
        <5> QED BY <1>2, <5>1, Constants
      <4>3. n > 0 /\ s[1] = a
        BY <4>1, <4>2
      <4>4. objects[o].pending = n /\ objects[o].tail = s[n]
        BY <1>2, <2>2, <4>3 DEF Chain
      <4> QED BY <4>3, <4>4 DEF m
    <3>2. m \in Nat /\ objects[o] \in [tail : NoOne, pending : Nat]
      BY <1>2, <3>1 DEF TypeOK
    <3>3. PICK h \in Nat : h = n - 1 /\ h = m
      BY <3>1, <3>2
    <3> DEFINE t == [i \in 1..h |-> s[i + 1]]
    <3>4. \A i \in 1..h : i + 1 \in 1..n
      BY <3>1, <3>2, <3>3
    <3>5. t \in [1..h -> Activities] /\ \A i \in 1..h : t[i] = s[i + 1]
      BY <3>4
    <3> HIDE DEF t
    <3>6. \A b \in Activities : key'[b] = l <=> \E i \in 1..h : t[i] = b
      <4> SUFFICES ASSUME NEW b \in Activities
                   PROVE  key'[b] = l <=> \E i \in 1..h : t[i] = b
        OBVIOUS
      <4>1. \A i \in 1..h : s[i + 1] # a
        BY <3>1, <3>3, <3>4 DEF Chain
      <4>2. CASE b = a
        BY <1>3, <3>5, <4>1, <4>2, Constants
      <4>3. CASE b # a
        <5>1. key'[b] = l <=> \E i \in 1..n : s[i] = b
          BY <1>3, <2>2, <4>3 DEF Chain
        <5>2. \A i \in 1..n : i = 1 \/ (i - 1 \in 1..h /\ (i - 1) + 1 = i)
          BY <3>1, <3>3
        <5>3. (\E i \in 1..n : s[i] = b) <=> \E i \in 1..h : t[i] = b
          <6>1. ASSUME NEW i \in 1..n, s[i] = b PROVE \E j \in 1..h : t[j] = b
            <7>1. i # 1
              BY <3>1, <3>3, <4>3, <6>1
            <7>2. i - 1 \in 1..h /\ t[i - 1] = s[(i - 1) + 1]
              BY <3>5, <5>2, <7>1
            <7> QED BY <5>2, <6>1, <7>1, <7>2
          <6>2. ASSUME NEW i \in 1..h, t[i] = b PROVE \E j \in 1..n : s[j] = b
            BY <3>4, <3>5, <6>2
          <6> QED BY <6>1, <6>2
        <5> QED BY <5>1, <5>3
      <4> QED BY <4>2, <4>3
    <3>7. \A i, j \in 1..h : t[i] = t[j] => i = j
      <4> SUFFICES ASSUME NEW i \in 1..h, NEW j \in 1..h, t[i] = t[j] PROVE i = j
        OBVIOUS
      <4>1. i + 1 \in 1..n /\ j + 1 \in 1..n /\ s[i + 1] = s[j + 1]
        BY <3>4, <3>5
      <4>2. i + 1 = j + 1
        BY <4>1 DEF Chain
      <4> QED BY <4>2
    <3>8. \A i \in 1..h : after'[t[i]] = IF i = 1 THEN None ELSE t[i - 1]
      <4> SUFFICES ASSUME NEW i \in 1..h
                   PROVE  after'[t[i]] = IF i = 1 THEN None ELSE t[i - 1]
        OBVIOUS
      <4>1. after[t[i]] = s[i] /\ i \in 1..n
        BY <3>1, <3>3, <3>4, <3>5 DEF Chain
      <4>2. CASE i = 1
        BY <3>1, <3>3, <1>3, <3>5, <4>1, <4>2
      <4>3. CASE i # 1
        <5>1. s[i] # a
          BY <3>1, <3>3, <4>1, <4>3 DEF Chain
        <5>2. i - 1 \in 1..h /\ (i - 1) + 1 = i
          BY <3>2, <3>3, <4>3
        <5>3. t[i - 1] = s[i]
          BY <3>5, <5>2
        <5> QED BY <1>3, <3>5, <4>1, <4>3, <5>1, <5>3
      <4> QED BY <4>2, <4>3
    <3>9. h <= MaxPending
      BY <3>1, <3>3, Constants DEF Chain
    <3>10. h > 0 => /\ entries'[l] = o /\ objects'[o].tail = t[h]
                   /\ objects'[o].pending = h
      <4> SUFFICES ASSUME h > 0
                   PROVE  /\ entries'[l] = o /\ objects'[o].tail = t[h]
                          /\ objects'[o].pending = h
        OBVIOUS
      <4>1. objects'[o] = [objects[o] EXCEPT !.pending = h] /\ entries'[l] = o
        BY <1>2, <1>3, <2>2, <3>3
      <4>2. objects'[o].tail = objects[o].tail /\ objects'[o].pending = h
        BY <3>2, <4>1
      <4>3. h \in 1..h /\ h + 1 = n
        BY <3>3
      <4>4. t[h] = s[n]
        BY <3>5, <4>3
      <4> QED BY <3>1, <4>1, <4>2, <4>4
    <3>11. h = 0 <=> entries'[l] = None
      BY <1>2, <1>3, <2>2, <3>3, Constants
    <3>12. Chain(l, h, t)'
      BY <3>3, <3>6, <3>7, <3>8, <3>9, <3>10, <3>11 DEF Chain
    <3> QED BY <1>4, <2>2, <3>1, <3>3, <3>5, <3>12
  <2> QED BY <2>1, <2>2

LEMMA FinishKeeps ==
  ASSUME QInv, NEW a \in Activities, Finish(a)
  PROVE  /\ OwnEntries' /\ Chained' /\ DevicesBounded'
         /\ after' \in [Activities -> NoOne] /\ entries' \in [Keys -> NoOne]
         /\ objects' \in [Activities -> [tail : NoOne, pending : Nat]]
         /\ \A b \in Activities : after'[b] = IF after[b] = a THEN None ELSE after[b]
         /\ \A b \in Activities \ {a} : key[b] # None => entries'[key[b]] = entries[key[b]]
<1> USE DEF QInv
<1> DEFINE o == entryOf[a]
           k == key[a]
           m == objects[o].pending - 1
<1>1. /\ state[a] = "running" /\ o # None
      /\ entries' = Settled(k, o, m)
      /\ objects' = [objects EXCEPT ![o] =
           IF m = 0 THEN [tail |-> None, pending |-> 0] ELSE [@ EXCEPT !.pending = m]]
      /\ after' = [b \in Activities |-> IF after[b] = a THEN None ELSE after[b]]
      /\ key' = [key EXCEPT ![a] = None]
  BY DEF Finish, Leave
<1>2. k \in Keys /\ entries[k] = o /\ o \in Activities /\ after[a] = None
  BY <1>1 DEF Flows, TypeOK, NoOne
<1>3. PICK n \in Nat : \E s \in [1..n -> Activities] : Chain(k, n, s)
  BY <1>2 DEF Chained
<1>4. PICK s \in [1..n -> Activities] : Chain(k, n, s)
  BY <1>3
<1>5. n > 0 /\ s[1] = a /\ objects[o].pending = n /\ objects[o].tail = s[n] /\ m = n - 1
  <2>1. PICK i \in 1..n : s[i] = a
    BY <1>4 DEF Chain
  <2>2. i = 1
    <3> SUFFICES ASSUME i # 1 PROVE FALSE
      OBVIOUS
    <3>1. i - 1 \in 1..n /\ after[a] = s[i - 1] /\ s[i - 1] \in Activities
      BY <1>4, <2>1 DEF Chain
    <3> QED BY <1>2, <3>1, Constants
  <2> QED BY <1>2, <1>4, <2>1, <2>2 DEF Chain
<1> HIDE DEF o, k, m
<1>6. m \in Nat /\ objects[o] \in [tail : NoOne, pending : Nat]
  BY <1>2, <1>5 DEF TypeOK
<1>7. /\ \A l \in Keys : entries'[l] = IF l = k /\ m = 0 THEN None ELSE entries[l]
      /\ \A b \in Activities : key'[b] = IF b = a THEN None ELSE key[b]
      /\ \A b \in Activities : after'[b] = IF after[b] = a THEN None ELSE after[b]
      /\ \A x \in Activities : x # o => objects'[x] = objects[x]
      /\ m # 0 => objects'[o] = [objects[o] EXCEPT !.pending = m]
  BY <1>1, <1>2 DEF TypeOK, Settled
<1>8. OwnEntries'
  BY <1>7 DEF OwnEntries
<1>9. key[a] = k
  BY DEF k
<1>10. Chained'
  <2> SUFFICES ASSUME NEW l \in Keys
               PROVE  \E h \in Nat : \E t \in [1..h -> Activities] : Chain(l, h, t)'
    BY DEF Chained
  <2>1. PICK h \in Nat : \E t \in [1..h -> Activities] : Chain(l, h, t)
    BY DEF Chained
  <2>2. PICK t \in [1..h -> Activities] : Chain(l, h, t)
    BY <2>1
  <2>3. CASE l = key[a]
    <3>1. h - 1 \in Nat
      BY <2>2, <2>3, FinishChain
    <3> QED BY <2>2, <2>3, <3>1, FinishChain
  <2>4. CASE l # key[a]
    BY <2>2, <2>4, FinishChain
  <2> QED BY <2>3, <2>4
<1>11. DevicesBounded'
  <2> DEFINE D == {d \in Devices : entries[d] # None}
             E == {d \in Devices : entries'[d] # None}
  <2>1. E = D \/ E = D \ {k}
    BY <1>2, <1>7, Constants
  <2>2. IsFiniteSet(D) /\ Cardinality(D) <= MaxDevices
    BY DEF DevicesBounded
  <2> HIDE DEF D, E
  <2>3. Cardinality(D) \in Nat
    BY <2>2, FS_CardinalityType
  <2>5. /\ IsFiniteSet(D \ {k})
        /\ Cardinality(D \ {k}) = IF k \in D THEN Cardinality(D) - 1 ELSE Cardinality(D)
    BY <2>2, FS_RemoveElement
  <2>6. Cardinality(D \ {k}) <= MaxDevices
    BY <2>2, <2>3, <2>5, Constants
  <2>4. IsFiniteSet(E) /\ Cardinality(E) <= MaxDevices
    <3>1. CASE E = D
      BY <2>2, <3>1
    <3>2. CASE E = D \ {k}
      BY <2>5, <2>6, <3>2
    <3> QED BY <2>1, <3>1, <3>2
  <2> QED BY <2>4 DEF DevicesBounded, E
<1>12. after' \in [Activities -> NoOne]
  BY <1>1 DEF TypeOK, NoOne
<1>13. entries' \in [Keys -> NoOne]
  BY <1>1, <1>2 DEF TypeOK, NoOne, Settled
<1>14. objects' \in [Activities -> [tail : NoOne, pending : Nat]]
  <2> DEFINE last == IF m = 0 THEN [tail |-> None, pending |-> 0]
                     ELSE [objects[o] EXCEPT !.pending = m]
  <2>1. last \in [tail : NoOne, pending : Nat]
    BY <1>6 DEF NoOne
  <2>2. objects' = [objects EXCEPT ![o] = last]
    BY <1>1
  <2> HIDE DEF last
  <2> QED BY <2>1, <2>2 DEF TypeOK
<1>15. ASSUME NEW b \in Activities \ {a}, key[b] # None
       PROVE  entries'[key[b]] = entries[key[b]]
  <2>1. CASE m = 0 /\ key[b] = k
    <3>1. n = 1
      BY <1>5, <2>1
    <3> QED BY <1>4, <1>5, <2>1, <3>1 DEF Chain
  <2>2. CASE ~(m = 0 /\ key[b] = k)
    BY <1>7, <1>15, <2>2 DEF TypeOK
  <2> QED BY <2>1, <2>2
<1> QED BY <1>7, <1>8, <1>10, <1>11, <1>12, <1>13, <1>14, <1>15


-----------------------------------------------------------------------------
(* The steps.                                                              *)

LEMMA ChainsAlone ==
  ASSUME QInv, UNCHANGED <<after, key, entryOf, entries, objects>>
  PROVE  OwnEntries' /\ Chained' /\ DevicesBounded'
<1>1. OwnEntries'
  BY DEF QInv, OwnEntries
<1>2. ASSUME NEW k \in Keys, NEW n \in Nat, NEW s, Chain(k, n, s) PROVE Chain(k, n, s)'
  BY <1>2 DEF Chain
<1>3. Chained'
  BY <1>2 DEF QInv, Chained
<1>4. DevicesBounded'
  BY DEF QInv, DevicesBounded
<1> QED BY <1>1, <1>3, <1>4

\* A call, whether or not somebody awaits it.
LEMMA QueueInv ==
  ASSUME QInv, NEW b \in Activities, NEW k \in Keys, NEW ctx \in SUBSET Keys,
         Queue(b, k, ctx), NEW f \in NoOne,
         f = None => state' = [state EXCEPT ![b] = "queued"] /\ caller' = caller,
         f # None => /\ state[f] = "running"
                     /\ state' = [state EXCEPT ![b] = "queued", ![f] = "awaiting"]
                     /\ caller' = [caller EXCEPT ![b] = f]
  PROVE  QInv'
<1> USE DEF QInv
<1>1. /\ state[b] = "free" /\ inTurn' = inTurn
      /\ held' = [held EXCEPT ![b] = ctx \cup {k}]
  BY DEF Queue
<1>2. f = None \/ (f \in Activities /\ f # b)
  BY <1>1 DEF NoOne
<1>3. key[b] = None /\ caller[b] = None
  BY <1>1 DEF Flows
<1>4. TypeOK'
  <2>1. state' \in [Activities -> States]
    BY <1>2 DEF TypeOK, States
  <2>2. held' \in [Activities -> SUBSET Keys] /\ inTurn' \in [Activities -> SUBSET Keys]
    BY <1>1 DEF TypeOK
  <2>3. caller' \in [Activities -> NoOne]
    BY <1>2 DEF TypeOK, NoOne
  <2> QED BY <2>1, <2>2, <2>3, QueueKeeps DEF TypeOK
<1>5. /\ \A a \in Activities : state'[a] = IF a = b THEN "queued"
                                        ELSE IF a = f THEN "awaiting" ELSE state[a]
      /\ \A a \in Activities : caller'[a] = IF a = b THEN f ELSE caller[a]
      /\ f # None => state[f] = "running"
  BY <1>2, <1>3, Constants DEF TypeOK, NoOne
<1>6. /\ \A a \in Activities \ {b} : /\ after'[a] = after[a] /\ key'[a] = key[a]
                                    /\ entryOf'[a] = entryOf[a]
      /\ key'[b] = k /\ entryOf'[b] = entries'[k] /\ entries'[k] # None
      /\ \A l \in Keys : entries[l] # None => entries'[l] = entries[l]
  BY QueueKeeps
<1>7. ASSUME NEW a \in Activities
      PROVE  /\ key'[a] = None <=> entryOf'[a] = None
             /\ key'[a] # None => entryOf'[a] = entries'[key'[a]]
             /\ state'[a] \in {"free", "timer"} => key'[a] = None /\ caller'[a] = None
             /\ state'[a] = "queued" => key'[a] # None
             /\ after'[a] # None => state'[a] = "queued"
  <2>1. CASE a = b
    BY <1>5, <1>6, <2>1, Constants
  <2>2. CASE a # b
    <3>1. /\ key'[a] = None <=> entryOf'[a] = None
          /\ key'[a] # None => entryOf'[a] = entries'[key'[a]]
      BY <1>6, <2>2 DEF Flows, TypeOK
    <3>2. state'[a] = state[a] \/ (state[a] = "running" /\ state'[a] = "awaiting")
      BY <1>2, <1>5, <2>2, Constants
    <3>3. caller'[a] = caller[a] /\ key'[a] = key[a] /\ after'[a] = after[a]
      BY <1>5, <1>6, <2>2
    <3> QED BY <3>1, <3>2, <3>3 DEF Flows
  <2> QED BY <2>1, <2>2
<1>8. ASSUME NEW a \in Activities, caller'[a] # None PROVE state'[caller'[a]] = "awaiting"
  <2>1. CASE a = b
    BY <1>2, <1>5, <1>8, <2>1
  <2>2. CASE a # b
    <3>1. caller'[a] = caller[a] /\ state[caller[a]] = "awaiting" /\ caller[a] \in Activities
      BY <1>5, <1>8, <2>2 DEF Flows, TypeOK, NoOne
    <3> QED BY <1>1, <1>5, <3>1
  <2> QED BY <2>1, <2>2
<1>9. ASSUME NEW a \in Activities, NEW c \in Activities, caller'[a] # None,
             caller'[a] = caller'[c]
      PROVE  a = c
  <2>1. \A x \in Activities : caller[x] # None => caller[x] # f
    BY <1>5 DEF Flows
  <2> QED BY <1>5, <1>9, <2>1 DEF Flows
<1>10. Flows'
  BY <1>7, <1>8, <1>9 DEF Flows
<1> QED BY <1>4, <1>10, QueueKeeps

\* An activity ends: its name is free and its caller goes on.
LEMMA LeaveFlows ==
  ASSUME QInv, NEW a \in Activities, Leave(a), state[a] = "running",
         \A b \in Activities : after'[b] = IF after[b] = a THEN None ELSE after[b],
         \A b \in Activities \ {a} : key[b] # None => entries'[key[b]] = entries[key[b]]
  PROVE  /\ Flows'
         /\ state' \in [Activities -> States] /\ held' \in [Activities -> SUBSET Keys]
         /\ inTurn' \in [Activities -> SUBSET Keys] /\ caller' \in [Activities -> NoOne]
         /\ key' \in [Activities -> Keys \cup {None}] /\ entryOf' \in [Activities -> NoOne]
<1> USE DEF QInv
<1>1. /\ state' \in [Activities -> States] /\ held' \in [Activities -> SUBSET Keys]
      /\ inTurn' \in [Activities -> SUBSET Keys] /\ caller' \in [Activities -> NoOne]
      /\ key' \in [Activities -> Keys \cup {None}] /\ entryOf' \in [Activities -> NoOne]
  BY DEF Leave, TypeOK, NoOne, States
<1>2. /\ \A b \in Activities : state'[b] = IF b = a THEN "free"
                                        ELSE IF b = caller[a] THEN "running" ELSE state[b]
      /\ \A b \in Activities : caller'[b] = IF b = a THEN None ELSE caller[b]
      /\ \A b \in Activities : key'[b] = IF b = a THEN None ELSE key[b]
      /\ \A b \in Activities : entryOf'[b] = IF b = a THEN None ELSE entryOf[b]
  BY DEF Leave, TypeOK
<1>3. after[a] = None /\ caller[a] # a
  BY Constants DEF Flows
<1>4. ASSUME NEW b \in Activities
      PROVE  /\ key'[b] = None <=> entryOf'[b] = None
             /\ key'[b] # None => entryOf'[b] = entries'[key'[b]]
             /\ state'[b] \in {"free", "timer"} => key'[b] = None /\ caller'[b] = None
             /\ state'[b] = "queued" => key'[b] # None
             /\ after'[b] # None => state'[b] = "queued"
  <2>1. CASE b = a
    BY <1>2, <1>3, <2>1
  <2>2. CASE b # a
    <3>1. state'[b] = state[b] \/ (state[b] = "awaiting" /\ state'[b] = "running")
      <4>1. CASE b = caller[a]
        BY <1>2, <2>2, <4>1, Constants DEF Flows
      <4>2. CASE b # caller[a]
        BY <1>2, <2>2, <4>2
      <4> QED BY <4>1, <4>2
    <3>2. /\ key'[b] = key[b] /\ entryOf'[b] = entryOf[b] /\ caller'[b] = caller[b]
          /\ after'[b] # None => after[b] # None
      BY <1>2, <2>2
    <3>3. /\ key'[b] = None <=> entryOf'[b] = None
          /\ key'[b] # None => entryOf'[b] = entries'[key'[b]]
      BY <2>2, <3>2 DEF Flows
    <3> QED BY <3>1, <3>2, <3>3 DEF Flows
  <2> QED BY <2>1, <2>2
<1>5. ASSUME NEW b \in Activities, caller'[b] # None PROVE state'[caller'[b]] = "awaiting"
  <2>1. /\ b # a /\ caller'[b] = caller[b] /\ caller[b] \in Activities
        /\ state[caller[b]] = "awaiting"
    BY <1>2, <1>5 DEF Flows, TypeOK, NoOne
  <2>2. caller[b] # caller[a] /\ caller[b] # a
    BY <1>2, <1>5, <2>1 DEF Flows
  <2> QED BY <1>2, <2>1, <2>2
<1>6. ASSUME NEW b \in Activities, NEW c \in Activities, caller'[b] # None,
             caller'[b] = caller'[c]
      PROVE  b = c
  BY <1>2, <1>6 DEF Flows
<1>7. Flows'
  BY <1>4, <1>5, <1>6 DEF Flows
<1> QED BY <1>1, <1>7

LEMMA StepInv == ASSUME QInv, NEW a \in Activities PROVE
  /\ Start(a) => QInv'
  /\ Finish(a) => QInv'
  /\ Fire(a) => QInv'
  /\ Return(a) => QInv'
  /\ \A k \in Keys : (Call(a, k) \/ Reenter(a, k)) => QInv'
  /\ \A b \in Activities :
       /\ (ScheduleFleetWork(a, b) \/ SetTimer(a, b)) => QInv'
       /\ \A d \in Devices : Nested(a, b, d) => QInv'
<1> USE DEF QInv
<1>1. ASSUME Start(a) PROVE QInv'
  <2>1. key[a] \in Keys
    BY <1>1 DEF Start, Flows, TypeOK
  <2>2. TypeOK'
    BY <1>1, <2>1 DEF Start, TypeOK, States
  <2>3. Flows'
    BY <1>1 DEF Start, Flows, TypeOK
  <2> QED BY <1>1, <2>2, <2>3, ChainsAlone DEF Start
<1>2. ASSUME Finish(a) PROVE QInv'
  <2>1. Leave(a) /\ state[a] = "running"
    BY <1>2 DEF Finish
  <2>2. TypeOK' /\ Flows'
    BY <1>2, <2>1, FinishKeeps, LeaveFlows DEF TypeOK
  <2> QED BY <1>2, <2>2, FinishKeeps
<1>3. ASSUME Fire(a) PROVE QInv'
  <2>1. TypeOK'
    BY <1>3 DEF Fire, TypeOK, States
  <2>2. Flows'
    BY <1>3 DEF Fire, Flows, TypeOK
  <2> QED BY <1>3, <2>1, <2>2, ChainsAlone DEF Fire
<1>4. ASSUME Return(a) PROVE QInv'
  <2>1. Leave(a) /\ state[a] = "running" /\ key[a] = None /\ entryOf[a] = None
    BY <1>4 DEF Return, Flows
  <2>2. UNCHANGED <<after, key, entryOf, entries, objects>>
    BY <1>4, <2>1 DEF Return, Leave, TypeOK
  <2>3. \A b \in Activities : after[b] # a
    <3> SUFFICES ASSUME NEW b \in Activities, after[b] = a PROVE FALSE
      OBVIOUS
    <3>1. key[b] \in Keys
      BY Constants DEF Flows, TypeOK
    <3>2. PICK n \in Nat : \E s \in [1..n -> Activities] : Chain(key[b], n, s)
      BY <3>1 DEF Chained
    <3>3. PICK s \in [1..n -> Activities] : Chain(key[b], n, s)
      BY <3>2
    <3>4. PICK i \in 1..n : s[i] = b
      BY <3>3 DEF Chain
    <3>5. i # 1 /\ i - 1 \in 1..n /\ s[i - 1] = a
      BY <3>3, <3>4, Constants DEF Chain
    <3> QED BY <2>1, <3>1, <3>3, <3>5, Constants DEF Chain
  <2>4. Flows' /\ TypeOK'
    BY <2>1, <2>2, <2>3, LeaveFlows DEF TypeOK
  <2> QED BY <2>2, <2>4, ChainsAlone
<1>5. ASSUME NEW k \in Keys, Call(a, k) PROVE QInv'
  <2>1. Queue(a, k, {}) /\ state' = [state EXCEPT ![a] = "queued"] /\ caller' = caller
    BY <1>5 DEF Call
  <2> QED BY <2>1, QueueInv DEF NoOne
<1>6. ASSUME NEW k \in Keys, Reenter(a, k) PROVE QInv'
  <2>1. TypeOK' /\ Flows'
    BY <1>6 DEF Reenter, TypeOK, Flows
  <2> QED BY <1>6, <2>1, ChainsAlone DEF Reenter
<1>7. ASSUME NEW b \in Activities, ScheduleFleetWork(a, b) PROVE QInv'
  <2>1. Queue(b, Fleet, {}) /\ state' = [state EXCEPT ![b] = "queued"] /\ caller' = caller
    BY <1>7 DEF ScheduleFleetWork, OutsideQueues
  <2> QED BY <2>1, QueueInv, Constants DEF NoOne
<1>8. ASSUME NEW b \in Activities, SetTimer(a, b) PROVE QInv'
  <2>1. TypeOK'
    BY <1>8 DEF SetTimer, TypeOK, States
  <2>2. Flows'
    BY <1>8 DEF SetTimer, Flows, TypeOK
  <2> QED BY <1>8, <2>1, <2>2, ChainsAlone DEF SetTimer
<1>9. ASSUME NEW b \in Activities, NEW d \in Devices, Nested(a, b, d) PROVE QInv'
  <2>1. /\ state[a] = "running" /\ Queue(b, d, held[a])
        /\ state' = [state EXCEPT ![b] = "queued", ![a] = "awaiting"]
        /\ caller' = [caller EXCEPT ![b] = a]
    BY <1>9 DEF Nested
  <2>2. d \in Keys /\ held[a] \in SUBSET Keys /\ a \in NoOne /\ a # None
    BY Constants DEF TypeOK, NoOne
  <2> QED BY <2>1, <2>2, QueueInv
<1> QED BY <1>1, <1>2, <1>3, <1>4, <1>5, <1>6, <1>7, <1>8, <1>9

LEMMA NextInv == ASSUME QInv, [Next]_vars PROVE QInv'
<1>1. CASE Next
  BY <1>1, StepInv DEF Next
<1>2. CASE UNCHANGED vars
  <2>1. TypeOK' /\ Flows'
    BY <1>2 DEF vars, QInv, TypeOK, Flows
  <2> QED BY <1>2, <2>1, ChainsAlone DEF vars, QInv
<1> QED BY <1>1, <1>2

LEMMA Invariant == Spec => []QInv
<1>1. Init => QInv
  BY InitInv
<1>2. QInv /\ [Next]_vars => QInv'
  BY NextInv
<1> QED BY <1>1, <1>2, PTL DEF Spec

\* The types of the queues' entries and of the async contexts.
THEOREM TypeOKAlways == Spec => []TypeOK
<1>1. QInv => TypeOK
  BY DEF QInv
<1> QED BY <1>1, Invariant, PTL

\* "One task at a time" per key, from the links of the promise chain alone.
THEOREM OneStartedAlways == Spec => []OneStarted
<1>1. QInv => OneStarted
  BY FirstStarted
<1> QED BY <1>1, Invariant, PTL

\* The count that bounds a queue is the number of its unsettled tasks, its
\* entry lives exactly as long as they do, and both bounds hold.
THEOREM CountsMatchAlways == Spec => []CountsMatch
<1>1. QInv => CountsMatch
  BY CountsFollow
<1> QED BY <1>1, Invariant, PTL

-----------------------------------------------------------------------------
(* Who awaits whom.                                                        *)

\* A set of naturals that is not empty has a least element.
LEMMA Least == ASSUME NEW N, N \subseteq Nat, N # {} PROVE \E x \in N : \A y \in N : x <= y
<1>1. \E x \in N : \A y \in N : ~ (<<y, x>> \in OpToRel(<, Nat))
  BY NatLessThanWellFounded, WFMin
<1>2. PICK x \in N : \A y \in N : ~ (<<y, x>> \in OpToRel(<, Nat))
  BY <1>1
<1>3. ASSUME NEW y \in N PROVE x <= y
  <2>1. x \in Nat /\ y \in Nat /\ ~ (y < x)
    BY <1>2 DEF OpToRel
  <2> QED BY <2>1
<1> QED BY <1>3

\* The recursion of Above is well defined: those that await a are at the other
\* ends of the paths of awaits that lead from a.
Path(a, b, n, p) ==
  /\ p \in [0..n -> Activities] /\ p[0] = a /\ p[n] = b
  /\ \A i \in 0..(n - 1) : caller[p[i]] = p[i + 1]

LEMMA AboveIs ==
  ASSUME QInv, NEW a \in Activities
  PROVE  Above[a] = IF caller[a] = None THEN {} ELSE {caller[a]} \cup Above[caller[a]]
<1> DEFINE Rec(g) == g = [x \in Activities |->
             IF caller[x] = None THEN {} ELSE {caller[x]} \cup g[caller[x]]]
           h == [x \in Activities |-> {b \in Activities :
             \E n \in Nat \ {0} : \E p : Path(x, b, n, p)}]
<1>1. Rec(h)
  <2> SUFFICES ASSUME NEW x \in Activities
               PROVE  h[x] = IF caller[x] = None THEN {} ELSE {caller[x]} \cup h[caller[x]]
    OBVIOUS
  <2>1. ASSUME caller[x] = None PROVE h[x] = {}
    <3> SUFFICES ASSUME NEW b \in Activities, NEW n \in Nat \ {0}, NEW p, Path(x, b, n, p)
                 PROVE  FALSE
      OBVIOUS
    <3>1. 0 \in 0..(n - 1) /\ p[0 + 1] \in Activities
      BY DEF Path
    <3> QED BY <2>1, <3>1, Constants DEF Path
  <2>2. ASSUME caller[x] # None, NEW b \in Activities, b \in h[x]
        PROVE  b = caller[x] \/ b \in h[caller[x]]
    <3>0. PICK n \in Nat \ {0} : \E p : Path(x, b, n, p)
      BY <2>2
    <3>1. PICK p : Path(x, b, n, p)
      BY <3>0
    <3>2. p[1] = caller[x] /\ p[1] \in Activities
      <4>1. 0 \in 0..(n - 1) /\ 1 \in 0..n /\ 0 + 1 = 1
        OBVIOUS
      <4> QED BY <3>1, <4>1 DEF Path
    <3>3. CASE n = 1
      BY <3>1, <3>2, <3>3 DEF Path
    <3>4. CASE n # 1
      <4> DEFINE q == [i \in 0..(n - 1) |-> p[i + 1]]
      <4>1. n - 1 \in Nat \ {0} /\ \A i \in 0..(n - 1) : i + 1 \in 0..n
        BY <3>4
      <4>2. Path(caller[x], b, n - 1, q)
        <5>1. q \in [0..(n - 1) -> Activities]
          BY <3>1, <4>1 DEF Path
        <5>2. q[0] = caller[x] /\ q[n - 1] = b
          BY <3>1, <3>2, <4>1 DEF Path
        <5>3. \A i \in 0..(n - 1 - 1) : caller[q[i]] = q[i + 1]
          BY <3>1, <4>1 DEF Path
        <5> QED BY <5>1, <5>2, <5>3 DEF Path
      <4> QED BY <3>2, <4>1, <4>2
    <3> QED BY <3>3, <3>4
  <2>3. ASSUME caller[x] # None PROVE caller[x] \in Activities /\ caller[x] \in h[x]
    <3>1. caller[x] \in Activities
      BY <2>3 DEF QInv, TypeOK, NoOne
    <3> DEFINE q == [i \in 0..1 |-> IF i = 0 THEN x ELSE caller[x]]
    <3>2. Path(x, caller[x], 1, q)
      BY <3>1 DEF Path
    <3> QED BY <3>1, <3>2
  <2>4. ASSUME caller[x] # None, NEW b \in Activities, b \in h[caller[x]] PROVE b \in h[x]
    <3>0. PICK n \in Nat \ {0} : \E p : Path(caller[x], b, n, p)
      BY <2>3, <2>4
    <3>1. PICK p : Path(caller[x], b, n, p)
      BY <3>0
    <3> DEFINE q == [i \in 0..(n + 1) |-> IF i = 0 THEN x ELSE p[i - 1]]
    <3>2. \A i \in 0..(n + 1) : i = 0 \/ i - 1 \in 0..n
      OBVIOUS
    <3>3. q \in [0..(n + 1) -> Activities]
      BY <3>1, <3>2 DEF Path
    <3>4. q[0] = x /\ q[n + 1] = b
      <4>1. p[n] = b /\ n + 1 - 1 = n /\ n + 1 # 0 /\ n + 1 \in 0..(n + 1) /\ 0 \in 0..(n + 1)
        BY <3>1 DEF Path
      <4> QED BY <4>1
    <3>5. ASSUME NEW i \in 0..(n + 1 - 1) PROVE caller[q[i]] = q[i + 1]
      <4>1. i \in 0..(n + 1) /\ i + 1 \in 0..(n + 1) /\ i + 1 # 0 /\ (i + 1) - 1 = i
        OBVIOUS
      <4>2. q[i + 1] = p[i]
        BY <4>1
      <4>3. CASE i = 0
        BY <3>1, <4>2, <4>3 DEF Path
      <4>4. CASE i # 0
        <5>1. i - 1 \in 0..(n - 1) /\ (i - 1) + 1 = i /\ q[i] = p[i - 1]
          BY <4>1, <4>4
        <5> QED BY <3>1, <4>2, <5>1 DEF Path
      <4> QED BY <4>3, <4>4
    <3> HIDE DEF q
    <3>6. Path(x, b, n + 1, q)
      BY <3>3, <3>4, <3>5 DEF Path
    <3> QED BY <3>6
  <2>5. h[x] \subseteq Activities /\ (caller[x] # None => h[caller[x]] \subseteq Activities)
    BY <2>3
  <2> QED BY <2>1, <2>2, <2>3, <2>4, <2>5
<1> HIDE DEF h
<1>2. Above = CHOOSE g : Rec(g)
  BY DEF Above
<1> HIDE DEF Rec
<1>3. Rec(Above)
  BY <1>1, <1>2
<1> QED BY <1>3 DEF Rec

LEMMA ForCallbackIs ==
  ASSUME QInv, NEW a \in Activities
  PROVE  ForCallback[a] = IF caller[a] = None THEN entryOf[a] = None
                          ELSE ForCallback[caller[a]]
<1> DEFINE Rec(g) == g = [x \in Activities |->
             IF caller[x] = None THEN entryOf[x] = None ELSE g[caller[x]]]
           Root(x) == \E r \in {x} \cup Above[x] : caller[r] = None /\ entryOf[r] = None
           h == [x \in Activities |-> Root(x)]
<1>1. Rec(h)
  <2> SUFFICES ASSUME NEW x \in Activities
               PROVE  h[x] = IF caller[x] = None THEN entryOf[x] = None ELSE h[caller[x]]
    OBVIOUS
  <2>1. h[x] = Root(x)
    OBVIOUS
  <2>2. CASE caller[x] = None
    <3>1. Above[x] = {}
      BY <2>2, AboveIs
    <3>2. Root(x) <=> entryOf[x] = None
      BY <2>2, <3>1
    <3> QED BY <2>1, <2>2, <3>2
  <2>3. CASE caller[x] # None
    <3>1. caller[x] \in Activities /\ Above[x] = {caller[x]} \cup Above[caller[x]]
      BY <2>3, AboveIs DEF QInv, TypeOK, NoOne
    <3>2. Root(x) = Root(caller[x])
      BY <2>3, <3>1
    <3>3. h[caller[x]] = Root(caller[x])
      BY <3>1
    <3> HIDE DEF Root, h
    <3> QED BY <2>1, <2>3, <3>2, <3>3
  <2> QED BY <2>2, <2>3
<1> HIDE DEF h
<1>2. ForCallback = CHOOSE g : Rec(g)
  BY DEF ForCallback
<1> HIDE DEF Rec
<1>3. Rec(ForCallback)
  BY <1>1, <1>2
<1> QED BY <1>3 DEF Rec

-----------------------------------------------------------------------------
(* What the async contexts hold.                                           *)

\* What an activity's context holds, by what it belongs to: its own key, and
\* all that its caller's holds; it works only in turns its context holds.
Contexts == \A a \in Activities :
  /\ IsFiniteSet(held[a]) /\ inTurn[a] \subseteq held[a]
  /\ inTurn[a] # {} => state[a] \in {"running", "awaiting"}
  /\ key[a] # None /\ caller[a] = None => held[a] = {key[a]}
  /\ caller[a] # None => /\ key[a] # None /\ key[a] \notin held[caller[a]]
                         /\ held[a] = held[caller[a]] \cup {key[a]}

LEMMA InitContexts == Init => Contexts
BY FS_EmptySet, Constants DEF Init, Contexts

LEMMA QueueContexts ==
  ASSUME QInv, Contexts, NEW b \in Activities, NEW k \in Keys, NEW ctx \in SUBSET Keys,
         IsFiniteSet(ctx), Queue(b, k, ctx), NEW f \in NoOne,
         f = None => /\ ctx = {}
                     /\ state' = [state EXCEPT ![b] = "queued"] /\ caller' = caller,
         f # None => /\ ctx = held[f] /\ state[f] = "running"
                     /\ state' = [state EXCEPT ![b] = "queued", ![f] = "awaiting"]
                     /\ caller' = [caller EXCEPT ![b] = f]
  PROVE  Contexts'
<1> USE DEF QInv
<1>1. /\ state[b] = "free" /\ k \notin ctx /\ inTurn' = inTurn
      /\ held' = [held EXCEPT ![b] = ctx \cup {k}] /\ key' = [key EXCEPT ![b] = k]
  BY DEF Queue
<1>2. f = None \/ (f \in Activities /\ f # b)
  BY <1>1 DEF NoOne
<1>3. /\ caller[b] = None /\ inTurn[b] = {}
      /\ \A a \in Activities : caller[a] # None => caller[a] # b /\ caller[a] # f
  <2>1. caller[b] = None /\ inTurn[b] = {}
    BY <1>1 DEF Flows, Contexts
  <2>2. ASSUME NEW a \in Activities, caller[a] # None PROVE caller[a] # b /\ caller[a] # f
    <3>1. state[caller[a]] = "awaiting"
      BY <2>2 DEF Flows
    <3> QED BY <1>1, <2>2, <3>1
  <2> QED BY <2>1, <2>2
<1>4. /\ \A a \in Activities : held'[a] = IF a = b THEN ctx \cup {k} ELSE held[a]
      /\ \A a \in Activities : key'[a] = IF a = b THEN k ELSE key[a]
      /\ \A a \in Activities : caller'[a] = IF a = b THEN f ELSE caller[a]
      /\ \A a \in Activities : state'[a] = IF a = b THEN "queued"
                                        ELSE IF a = f THEN "awaiting" ELSE state[a]
  BY <1>1, <1>2, <1>3, Constants DEF TypeOK, NoOne
<1>5. IsFiniteSet(ctx \cup {k})
  BY FS_AddElement
<1> SUFFICES ASSUME NEW a \in Activities
             PROVE
  /\ IsFiniteSet(held'[a]) /\ inTurn'[a] \subseteq held'[a]
  /\ inTurn'[a] # {} => state'[a] \in {"running", "awaiting"}
  /\ key'[a] # None /\ caller'[a] = None => held'[a] = {key'[a]}
  /\ caller'[a] # None => /\ key'[a] # None /\ key'[a] \notin held'[caller'[a]]
                          /\ held'[a] = held'[caller'[a]] \cup {key'[a]}
  BY DEF Contexts
<1>6. CASE a = b
  <2>1. IsFiniteSet(held'[a]) /\ inTurn'[a] = {}
    BY <1>1, <1>3, <1>4, <1>5, <1>6
  <2>2. caller'[a] = f /\ key'[a] = k /\ held'[a] = ctx \cup {k} /\ k # None
    BY <1>4, <1>6, Constants
  <2>3. f # None => held'[f] = ctx
    BY <1>2, <1>4
  <2> QED BY <1>1, <2>1, <2>2, <2>3
<1>7. CASE a # b
  <2>1. held'[a] = held[a] /\ key'[a] = key[a] /\ caller'[a] = caller[a] /\ inTurn'[a] = inTurn[a]
    BY <1>1, <1>4, <1>7
  <2>2. caller[a] # None => held'[caller[a]] = held[caller[a]]
    BY <1>3, <1>4 DEF TypeOK, NoOne
  <2>3. state'[a] = state[a] \/ state'[a] = "awaiting"
    BY <1>4, <1>7
  <2> QED BY <2>1, <2>2, <2>3 DEF Contexts
<1> QED BY <1>6, <1>7

LEMMA LeaveContexts ==
  ASSUME QInv, Contexts, NEW a \in Activities, Leave(a), state[a] = "running"
  PROVE  Contexts'
<1> USE DEF QInv
<1>1. /\ \A b \in Activities : state'[b] = IF b = a THEN "free"
                                        ELSE IF b = caller[a] THEN "running" ELSE state[b]
      /\ \A b \in Activities : caller'[b] = IF b = a THEN None ELSE caller[b]
      /\ \A b \in Activities : key'[b] = IF b = a THEN None ELSE key[b]
      /\ \A b \in Activities : held'[b] = IF b = a THEN {} ELSE held[b]
      /\ \A b \in Activities : inTurn'[b] = IF b = a THEN {} ELSE inTurn[b]
  BY DEF Leave, TypeOK
<1>2. \A b \in Activities : caller[b] # a
  BY Constants DEF Flows
<1> SUFFICES ASSUME NEW b \in Activities
             PROVE
  /\ IsFiniteSet(held'[b]) /\ inTurn'[b] \subseteq held'[b]
  /\ inTurn'[b] # {} => state'[b] \in {"running", "awaiting"}
  /\ key'[b] # None /\ caller'[b] = None => held'[b] = {key'[b]}
  /\ caller'[b] # None => /\ key'[b] # None /\ key'[b] \notin held'[caller'[b]]
                          /\ held'[b] = held'[caller'[b]] \cup {key'[b]}
  BY DEF Contexts
<1>3. CASE b = a
  BY <1>1, <1>3, FS_EmptySet
<1>4. CASE b # a
  <2>1. held'[b] = held[b] /\ key'[b] = key[b] /\ caller'[b] = caller[b] /\ inTurn'[b] = inTurn[b]
    BY <1>1, <1>4
  <2>2. caller[b] # None => held'[caller[b]] = held[caller[b]]
    BY <1>1, <1>2 DEF TypeOK, NoOne
  <2>3. state'[b] = state[b] \/ state'[b] = "running"
    BY <1>1, <1>4
  <2> QED BY <2>1, <2>2, <2>3 DEF Contexts
<1> QED BY <1>3, <1>4

LEMMA StepContexts == ASSUME QInv, Contexts, NEW a \in Activities PROVE
  /\ Start(a) => Contexts'
  /\ Finish(a) => Contexts'
  /\ Fire(a) => Contexts'
  /\ Return(a) => Contexts'
  /\ \A k \in Keys : (Call(a, k) \/ Reenter(a, k)) => Contexts'
  /\ \A b \in Activities :
       /\ (ScheduleFleetWork(a, b) \/ SetTimer(a, b)) => Contexts'
       /\ \A d \in Devices : Nested(a, b, d) => Contexts'
<1> USE DEF QInv
<1>1. ASSUME Start(a) PROVE Contexts'
  <2>1. key[a] # None /\ key[a] \in held[a]
    BY <1>1 DEF Start, Flows, Contexts
  <2>2. /\ \A b \in Activities : inTurn'[b] = IF b = a THEN {key[a]} ELSE inTurn[b]
        /\ \A b \in Activities : state'[b] = IF b = a THEN "running" ELSE state[b]
        /\ held' = held /\ key' = key /\ caller' = caller
    BY <1>1 DEF Start, TypeOK
  <2> QED BY <2>1, <2>2 DEF Contexts
<1>2. ASSUME Finish(a) PROVE Contexts'
  BY <1>2, LeaveContexts DEF Finish
<1>3. ASSUME Fire(a) PROVE Contexts'
  BY <1>3 DEF Fire, Contexts, TypeOK
<1>4. ASSUME Return(a) PROVE Contexts'
  BY <1>4, LeaveContexts DEF Return
<1>5. ASSUME NEW k \in Keys, Call(a, k) PROVE Contexts'
  <2>1. Queue(a, k, {}) /\ state' = [state EXCEPT ![a] = "queued"] /\ caller' = caller
    BY <1>5 DEF Call
  <2> QED BY <2>1, QueueContexts, FS_EmptySet DEF NoOne
<1>6. ASSUME NEW k \in Keys, Reenter(a, k) PROVE Contexts'
  <2>1. /\ \A b \in Activities : inTurn'[b] = IF b = a THEN inTurn[a] \cup {k} ELSE inTurn[b]
        /\ state' = state /\ held' = held /\ key' = key /\ caller' = caller
        /\ k \in held[a] /\ state[a] = "running"
    BY <1>6 DEF Reenter, TypeOK
  <2> QED BY <2>1 DEF Contexts
<1>7. ASSUME NEW b \in Activities, ScheduleFleetWork(a, b) PROVE Contexts'
  <2>1. Queue(b, Fleet, {}) /\ state' = [state EXCEPT ![b] = "queued"] /\ caller' = caller
    BY <1>7 DEF ScheduleFleetWork, OutsideQueues
  <2> QED BY <2>1, QueueContexts, Constants, FS_EmptySet DEF NoOne
<1>8. ASSUME NEW b \in Activities, SetTimer(a, b) PROVE Contexts'
  <2>1. /\ \A x \in Activities : held'[x] = IF x = b THEN held[a] ELSE held[x]
        /\ \A x \in Activities : state'[x] = IF x = b THEN "timer" ELSE state[x]
        /\ state[b] = "free" /\ inTurn' = inTurn /\ key' = key /\ caller' = caller
    BY <1>8 DEF SetTimer, TypeOK
  <2>2. key[b] = None /\ caller[b] = None /\ inTurn[b] = {} /\ \A x \in Activities : caller[x] # b
    BY <2>1, Constants DEF Flows, Contexts
  <2>3. ASSUME NEW x \in Activities, caller[x] # None
        PROVE  held'[caller[x]] = held[caller[x]]
    BY <2>1, <2>2, <2>3 DEF TypeOK, NoOne
  <2> QED BY <2>1, <2>2, <2>3 DEF Contexts
<1>9. ASSUME NEW b \in Activities, NEW d \in Devices, Nested(a, b, d) PROVE Contexts'
  <2>1. /\ state[a] = "running" /\ Queue(b, d, held[a])
        /\ state' = [state EXCEPT ![b] = "queued", ![a] = "awaiting"]
        /\ caller' = [caller EXCEPT ![b] = a]
    BY <1>9 DEF Nested
  <2>2. d \in Keys /\ held[a] \in SUBSET Keys /\ a \in NoOne /\ a # None /\ IsFiniteSet(held[a])
    BY Constants DEF TypeOK, NoOne, Contexts
  <2> QED BY <2>1, <2>2, QueueContexts
<1> QED BY <1>1, <1>2, <1>3, <1>4, <1>5, <1>6, <1>7, <1>8, <1>9

LEMMA ContextsAlways == Spec => []Contexts
<1>1. Init => Contexts
  BY InitContexts
<1>2. QInv /\ Contexts /\ [Next]_vars => Contexts'
  <2> SUFFICES ASSUME QInv, Contexts, [Next]_vars PROVE Contexts'
    OBVIOUS
  <2>1. CASE Next
    BY <2>1, StepContexts DEF Next
  <2>2. CASE UNCHANGED vars
    BY <2>2 DEF vars, Contexts
  <2> QED BY <2>1, <2>2
<1> QED BY <1>1, <1>2, Invariant, PTL DEF Spec

-----------------------------------------------------------------------------
(* One task at a time, nested calls included.                              *)

\* Induction along the awaits: each holds more than its caller, so they end.
LEMMA CallersEnd ==
  ASSUME QInv, Contexts, NEW S \in SUBSET Activities,
         \A a \in Activities : caller[a] = None \/ caller[a] \in S => a \in S
  PROVE  S = Activities
<1> SUFFICES ASSUME S # Activities PROVE FALSE
  OBVIOUS
<1> DEFINE N == {Cardinality(held[a]) : a \in Activities \ S}
<1>1. N \subseteq Nat /\ N # {}
  BY FS_CardinalityType DEF Contexts
<1>2. PICK x \in N : \A y \in N : x <= y
  <2> HIDE DEF N
  <2> QED BY <1>1, Least
<1>3. PICK a \in Activities \ S : x = Cardinality(held[a])
  BY <1>2
<1>4. caller[a] \in Activities \ S /\ caller[a] # None
  BY <1>3 DEF QInv, TypeOK, NoOne
<1>5. /\ IsFiniteSet(held[caller[a]]) /\ key[a] \notin held[caller[a]]
      /\ held[a] = held[caller[a]] \cup {key[a]}
  BY <1>3, <1>4 DEF Contexts
<1>6. /\ Cardinality(held[a]) = Cardinality(held[caller[a]]) + 1
      /\ Cardinality(held[caller[a]]) \in Nat
  BY <1>5, FS_AddElement, FS_CardinalityType
<1>7. x <= Cardinality(held[caller[a]])
  BY <1>2, <1>4
<1> QED BY <1>3, <1>6, <1>7

LEMMA AboveAwaits ==
  ASSUME QInv, Contexts, NEW a \in Activities
  PROVE  /\ Above[a] \subseteq Activities
         /\ \A b \in Above[a] : \E c \in {a} \cup Above[a] : c \in Activities /\ caller[c] = b
<1> DEFINE S == {x \in Activities :
         /\ Above[x] \subseteq Activities
         /\ \A b \in Above[x] : \E c \in {x} \cup Above[x] : c \in Activities /\ caller[c] = b}
<1>1. ASSUME NEW x \in Activities, caller[x] = None \/ caller[x] \in S PROVE x \in S
  <2>1. CASE caller[x] = None
    BY <2>1, AboveIs
  <2>2. CASE caller[x] # None
    <3>1. Above[x] = {caller[x]} \cup Above[caller[x]] /\ caller[x] \in S
      BY <1>1, <2>2, AboveIs, Constants
    <3> QED BY <3>1
  <2> QED BY <2>1, <2>2
<1>2. S = Activities
  <2>1. S \in SUBSET Activities
    OBVIOUS
  <2> HIDE DEF S
  <2> QED BY <1>1, <2>1, CallersEnd
<1> QED BY <1>2

\* A key that the context of a task holds, and no timer's callback is above it,
\* is that of the task or of one that awaits it.
LEMMA HolderAbove ==
  ASSUME QInv, Contexts, NEW a \in Activities, ~ForCallback[a], NEW k \in held[a]
  PROVE  \E b \in {a} \cup Above[a] : b \in Activities /\ key[b] = k
<1> DEFINE S == {x \in Activities : ~ForCallback[x] => \A l \in held[x] :
                   \E b \in {x} \cup Above[x] : b \in Activities /\ key[b] = l}
<1>1. ASSUME NEW x \in Activities, caller[x] = None \/ caller[x] \in S PROVE x \in S
  <2> SUFFICES ASSUME ~ForCallback[x], NEW l \in held[x]
               PROVE  \E b \in {x} \cup Above[x] : b \in Activities /\ key[b] = l
    OBVIOUS
  <2>1. CASE caller[x] = None
    <3>1. ForCallback[x] = (entryOf[x] = None)
      BY <2>1, ForCallbackIs
    <3>2. key[x] # None
      BY <3>1 DEF QInv, Flows
    <3> QED BY <2>1, <3>2 DEF Contexts
  <2>2. CASE caller[x] # None
    <3>1. caller[x] \in S /\ Above[x] = {caller[x]} \cup Above[caller[x]]
      BY <1>1, <2>2, AboveIs, Constants
    <3>2. ForCallback[x] = ForCallback[caller[x]]
      BY <2>2, ForCallbackIs
    <3>3. held[x] = held[caller[x]] \cup {key[x]}
      BY <2>2 DEF Contexts
    <3>4. ~ForCallback[caller[x]]
      BY <3>2
    <3> QED BY <3>1, <3>3, <3>4
  <2> QED BY <2>1, <2>2
<1>2. S = Activities
  <2>1. S \in SUBSET Activities
    OBVIOUS
  <2> HIDE DEF S
  <2> QED BY <1>1, <2>1, CallersEnd
<1> QED BY <1>2

\* Two that wait below the same one wait for each other: it awaits one at a time.
LEMMA OneLine ==
  ASSUME QInv, Contexts, NEW a \in Activities, NEW d \in Activities, NEW b,
         b \in {a} \cup Above[a], b \in {d} \cup Above[d]
  PROVE  a = d \/ a \in Above[d] \/ d \in Above[a]
<1> DEFINE S == {x \in Activities : b \in {x} \cup Above[x] =>
                   x = d \/ x \in Above[d] \/ d \in Above[x]}
<1>1. ASSUME NEW x \in Activities, caller[x] = None \/ caller[x] \in S PROVE x \in S
  <2> SUFFICES ASSUME b \in {x} \cup Above[x] PROVE x = d \/ x \in Above[d] \/ d \in Above[x]
    OBVIOUS
  <2>1. CASE b = x
    BY <2>1
  <2>2. CASE b # x
    <3>1. caller[x] # None
      BY <2>2, AboveIs
    <3>2. caller[x] \in S /\ Above[x] = {caller[x]} \cup Above[caller[x]]
      BY <1>1, <3>1, AboveIs, Constants
    <3>3. caller[x] = d \/ caller[x] \in Above[d] \/ d \in Above[caller[x]]
      BY <2>2, <3>2
    <3>4. CASE caller[x] \in Above[d]
      <4>1. PICK c \in {d} \cup Above[d] : c \in Activities /\ caller[c] = caller[x]
        BY <3>4, AboveAwaits
      <4>2. c = x
        BY <3>1, <4>1 DEF QInv, Flows
      <4> QED BY <4>1, <4>2
    <3> QED BY <3>2, <3>3, <3>4
  <2> QED BY <2>1, <2>2
<1>2. S = Activities
  <2>1. S \in SUBSET Activities
    OBVIOUS
  <2> HIDE DEF S
  <2> QED BY <1>1, <2>1, CallersEnd
<1> QED BY <1>2

LEMMA HolderStarted ==
  ASSUME QInv, Contexts, NEW a \in Activities, inTurn[a] # {}, NEW b \in {a} \cup Above[a]
  PROVE  state[b] # "queued"
<1>1. CASE b = a
  BY <1>1 DEF Contexts
<1>2. CASE b \in Above[a]
  <2>1. PICK c \in Activities : caller[c] = b /\ b \in Activities
    BY <1>2, AboveAwaits
  <2> QED BY <2>1, Constants DEF QInv, Flows
<1> QED BY <1>1, <1>2

LEMMA ApartFollows == ASSUME QInv, Contexts PROVE OneAtATime
<1> SUFFICES ASSUME NEW a \in Activities, NEW d \in Activities,
                    ~ForCallback[a], ~ForCallback[d],
                    a # d, a \notin Above[d], d \notin Above[a],
                    NEW k \in inTurn[a] \cap inTurn[d]
             PROVE  FALSE
  BY DEF OneAtATime, Apart
<1>1. k \in held[a] /\ k \in held[d] /\ k \in Keys
  BY DEF Contexts, QInv, TypeOK
<1>2. PICK b \in {a} \cup Above[a] : b \in Activities /\ key[b] = k
  BY <1>1, HolderAbove
<1>3. PICK c \in {d} \cup Above[d] : c \in Activities /\ key[c] = k
  BY <1>1, HolderAbove
<1>4. state[b] # "queued" /\ state[c] # "queued"
  BY <1>2, <1>3, HolderStarted
<1>5. b = c
  BY <1>1, <1>2, <1>3, <1>4, FirstStarted, Constants DEF OneStarted
<1> QED BY <1>2, <1>3, <1>5, OneLine

\* One task at a time works for a device and for the fleet.
THEOREM OneAtATimeAlways == Spec => []OneAtATime
<1>1. QInv /\ Contexts => OneAtATime
  BY ApartFollows
<1> QED BY <1>1, Invariant, ContextsAlways, PTL

-----------------------------------------------------------------------------
(* The line of a key, read off the links.                                  *)

\* Sequences of the same length and the same elements are the same.
LEMMA SameSeq ==
  ASSUME NEW S, NEW p \in Seq(S), NEW q \in Seq(S), Len(p) = Len(q),
         \A i \in 1..Len(p) : p[i] = q[i]
  PROVE  p = q
<1>1. PICK n \in Nat : p \in [1..n -> S]
  BY SeqDef
<1>2. PICK m \in Nat : q \in [1..m -> S]
  BY SeqDef
<1>3. n = m
  BY <1>1, <1>2
<1>4. \A i \in 1..n : p[i] = q[i]
  BY <1>1
<1> QED BY <1>1, <1>2, <1>3, <1>4

LEMMA AppendIs ==
  ASSUME NEW S, NEW c \in Nat, NEW q \in [1..c -> S], NEW r \in [1..(c + 1) -> S], NEW e \in S,
         r[c + 1] = e, \A i \in 1..c : r[i] = q[i]
  PROVE  Append(q, e) = r
<1>1. q \in Seq(S) /\ Len(q) = c /\ r \in Seq(S) /\ Len(r) = c + 1
  OBVIOUS
<1>2. /\ Append(q, e) \in Seq(S) /\ Len(Append(q, e)) = c + 1
      /\ \A i \in 1..c : Append(q, e)[i] = q[i]
      /\ Append(q, e)[c + 1] = e
  BY <1>1, AppendProperties
<1>3. \A i \in 1..(c + 1) : Append(q, e)[i] = r[i]
  <2>1. \A i \in 1..(c + 1) : i = c + 1 \/ i \in 1..c
    OBVIOUS
  <2> QED BY <1>2, <2>1
<1> QED BY <1>1, <1>2, <1>3, SameSeq

LEMMA HeadTailOf ==
  ASSUME NEW S, NEW n \in Nat, n > 0, NEW s \in [1..n -> S]
  PROVE  s # <<>> /\ Head(s) = s[1] /\ Tail(s) = [i \in 1..(n - 1) |-> s[i + 1]]
<1>1. s \in Seq(S) /\ Len(s) = n /\ s # <<>>
  OBVIOUS
<1>2. Head(s) = s[1]
  BY <1>1
<1> DEFINE t == [i \in 1..(n - 1) |-> s[i + 1]]
<1>3. t \in Seq(S) /\ Len(t) = n - 1 /\ \A i \in 1..(n - 1) : t[i] = s[i + 1]
  <2>1. n - 1 \in Nat /\ \A i \in 1..(n - 1) : i + 1 \in 1..n
    OBVIOUS
  <2> QED BY <2>1
<1>4. Tail(s) \in Seq(S) /\ Len(Tail(s)) = n - 1 /\ \A i \in 1..(n - 1) : Tail(s)[i] = s[i + 1]
  BY <1>1, HeadTailProperties
<1> HIDE DEF t
<1>5. Tail(s) = t
  BY <1>3, <1>4, SameSeq
<1> QED BY <1>1, <1>2, <1>5 DEF t

\* A strictly increasing numbering of 1..c by itself is the identity.
LEMMA OneNumbering ==
  ASSUME NEW c \in Nat, NEW f \in [1..c -> 1..c],
         \A i, j \in 1..c : i < j => f[i] < f[j]
  PROVE  \A i \in 1..c : f[i] = i
<1>1. \A i \in 1..c : f[i] >= i
  <2> SUFFICES ASSUME \E i \in 1..c : f[i] < i PROVE FALSE
    OBVIOUS
  <2> DEFINE N == {i \in 1..c : f[i] < i}
  <2>1. N \subseteq Nat /\ N # {}
    OBVIOUS
  <2>2. PICK x \in N : \A y \in N : x <= y
    <3> HIDE DEF N
    <3> QED BY <2>1, Least
  <2>3. x \in 1..c /\ f[x] < x /\ f[x] \in 1..c
    OBVIOUS
  <2>4. f[f[x]] < f[x]
    BY <2>3
  <2>5. f[x] \in N
    BY <2>3, <2>4
  <2> QED BY <2>2, <2>3, <2>5
<1>2. \A i \in 1..c : f[i] <= i
  <2> SUFFICES ASSUME \E i \in 1..c : f[i] > i PROVE FALSE
    OBVIOUS
  <2> DEFINE N == {c - i : i \in {j \in 1..c : f[j] > j}}
  <2>1. N \subseteq Nat /\ N # {}
    OBVIOUS
  <2>2. PICK x \in N : \A y \in N : x <= y
    <3> HIDE DEF N
    <3> QED BY <2>1, Least
  <2>3. PICK i \in 1..c : f[i] > i /\ x = c - i
    BY <2>2
  <2>4. f[i] \in 1..c /\ f[f[i]] > f[i]
    BY <2>3
  <2>5. c - f[i] \in N
    BY <2>4
  <2>6. x <= c - f[i]
    BY <2>2, <2>5
  <2> QED BY <2>3, <2>4, <2>6
<1> QED BY <1>1, <1>2

\* The recursion of Depth is well defined.
LEMMA DepthIs ==
  ASSUME QInv, NEW a \in Activities
  PROVE  Depth[a] = IF after[a] = None THEN 0 ELSE 1 + Depth[after[a]]
<1> DEFINE Rec(g) == g = [x \in Activities |->
             IF after[x] = None THEN 0 ELSE 1 + g[after[x]]]
           IsChain(k, c) == \E n \in Nat : c \in [1..n -> Activities] /\ Chain(k, n, c)
           chain == [k \in Keys |-> CHOOSE c : IsChain(k, c)]
           Before(x) == IF key[x] = None THEN 0
             ELSE (CHOOSE i \in Nat : i \in DOMAIN chain[key[x]] /\ chain[key[x]][i] = x) - 1
           h == [x \in Activities |-> Before(x)]
<1>1. ASSUME NEW k \in Keys PROVE IsChain(k, chain[k])
  <2>1. \E c : IsChain(k, c)
    BY DEF QInv, Chained
  <2>2. chain[k] = CHOOSE c : IsChain(k, c)
    OBVIOUS
  <2> HIDE DEF IsChain, chain
  <2> QED BY <2>1, <2>2
<1>2. ASSUME NEW x \in Activities, key[x] # None, NEW n \in Nat, NEW i \in 1..n,
             chain[key[x]] \in [1..n -> Activities], Chain(key[x], n, chain[key[x]]),
             chain[key[x]][i] = x
      PROVE  h[x] = i - 1
  <2> DEFINE c == chain[key[x]]
  <2> HIDE DEF chain
  <2>1. i \in Nat /\ i \in DOMAIN c /\ c[i] = x
    BY <1>2
  <2>2. \A j \in Nat : j \in DOMAIN c /\ c[j] = x => j = i
    BY <1>2 DEF Chain
  <2>3. (CHOOSE j \in Nat : j \in DOMAIN c /\ c[j] = x) = i
    BY <2>1, <2>2
  <2> QED BY <1>2, <2>3
<1>3. Rec(h)
  <2> HIDE DEF Before, chain
  <2> SUFFICES ASSUME NEW x \in Activities
               PROVE  h[x] = IF after[x] = None THEN 0 ELSE 1 + h[after[x]]
    OBVIOUS
  <2> HIDE DEF h
  <2>1. CASE key[x] = None
    <3>1. after[x] = None
      BY <2>1 DEF QInv, Flows
    <3> QED BY <2>1, <3>1 DEF h, Before
  <2>2. CASE key[x] # None
    <3>1. key[x] \in Keys
      BY <2>2 DEF QInv, TypeOK
    <3>2. PICK n \in Nat : /\ chain[key[x]] \in [1..n -> Activities]
                           /\ Chain(key[x], n, chain[key[x]])
      BY <1>1, <3>1
    <3> DEFINE c == chain[key[x]]
    <3>3. PICK i \in 1..n : c[i] = x
      BY <3>2 DEF Chain
    <3>4. h[x] = i - 1
      BY <1>2, <2>2, <3>2, <3>3
    <3>5. CASE i = 1
      BY <3>2, <3>3, <3>4, <3>5 DEF Chain
    <3>6. CASE i # 1
      <4>1. i - 1 \in 1..n /\ after[x] = c[i - 1] /\ after[x] \in Activities
        BY <3>2, <3>3, <3>6 DEF Chain
      <4>2. key[after[x]] = key[x]
        BY <3>2, <4>1 DEF Chain
      <4>3. h[after[x]] = (i - 1) - 1
        BY <1>2, <2>2, <3>2, <4>1, <4>2
      <4> QED BY <3>4, <4>1, <4>3, Constants
    <3> QED BY <3>5, <3>6
  <2> QED BY <2>1, <2>2
<1> HIDE DEF h, Before, chain
<1>4. Depth = CHOOSE g : Rec(g)
  BY DEF Depth
<1> HIDE DEF Rec
<1>5. Rec(Depth)
  BY <1>3, <1>4
<1> QED BY <1>5 DEF Rec

LEMMA DepthInChain ==
  ASSUME QInv, NEW k \in Keys, NEW n \in Nat, NEW s \in [1..n -> Activities], Chain(k, n, s)
  PROVE  \A i \in 1..n : Depth[s[i]] = i - 1
<1> SUFFICES ASSUME \E i \in 1..n : Depth[s[i]] # i - 1 PROVE FALSE
  OBVIOUS
<1> DEFINE N == {i \in 1..n : Depth[s[i]] # i - 1}
<1>1. N \subseteq Nat /\ N # {}
  OBVIOUS
<1>2. PICK x \in N : \A y \in N : x <= y
  <2> HIDE DEF N
  <2> QED BY <1>1, Least
<1>3. x \in 1..n /\ Depth[s[x]] # x - 1 /\ after[s[x]] = IF x = 1 THEN None ELSE s[x - 1]
  BY DEF Chain
<1>4. CASE x = 1
  BY <1>3, <1>4, DepthIs
<1>5. CASE x # 1
  <2>1. x - 1 \in 1..n /\ x - 1 \notin N
    BY <1>2, <1>3, <1>5
  <2>2. Depth[s[x - 1]] = (x - 1) - 1
    BY <2>1
  <2>3. Depth[s[x]] = 1 + Depth[s[x - 1]]
    BY <1>3, <1>5, <2>1, DepthIs, Constants
  <2> QED BY <1>3, <2>2, <2>3
<1> QED BY <1>4, <1>5

\* Has the first of the n tasks s started?
Begun(n, s) == n > 0 /\ state[s[1]] # "queued"
Ahead(n, s) == IF Begun(n, s) THEN 1 ELSE 0

\* What the line and the serving of k's turns are, when s are its tasks.
LineAt(k, n, s) ==
  /\ ServingOf(k) = IF Begun(n, s) THEN s[1] ELSE None
  /\ LineOf(k) = [i \in 1..(n - Ahead(n, s)) |-> s[i + Ahead(n, s)]]
Lines == \A k \in Keys : \A n \in Nat : \A s \in [1..n -> Activities] :
  Chain(k, n, s) => LineAt(k, n, s)

\* Of a chain only the first can have started.
LEMMA RestQueued ==
  ASSUME QInv, NEW k \in Keys, NEW n \in Nat, NEW s \in [1..n -> Activities], Chain(k, n, s)
  PROVE  /\ \A i \in 1..n : i # 1 => state[s[i]] = "queued"
         /\ n > 0 => s[1] \in Activities /\ after[s[1]] = None /\ key[s[1]] = k
<1>1. ASSUME NEW i \in 1..n, i # 1 PROVE state[s[i]] = "queued"
  <2>1. i - 1 \in 1..n /\ after[s[i]] = s[i - 1] /\ s[i] \in Activities
    BY <1>1 DEF Chain
  <2> QED BY <2>1, Constants DEF QInv, Flows
<1>2. n > 0 => s[1] \in Activities /\ after[s[1]] = None /\ key[s[1]] = k
  <2>1. n > 0 => 1 \in 1..n
    OBVIOUS
  <2> QED BY <2>1 DEF Chain
<1> QED BY <1>1, <1>2

LEMMA ServingIs ==
  ASSUME QInv, NEW k \in Keys, NEW n \in Nat, NEW s \in [1..n -> Activities], Chain(k, n, s)
  PROVE  ServingOf(k) = IF Begun(n, s) THEN s[1] ELSE None
<1> DEFINE S == {a \in UnsettledOf(k) : state[a] # "queued"}
<1>1. ASSUME NEW a PROVE a \in S <=> Begun(n, s) /\ a = s[1]
  <2>1. ASSUME a \in S PROVE Begun(n, s) /\ a = s[1]
    <3>1. PICK i \in 1..n : s[i] = a
      BY <2>1 DEF Chain, UnsettledOf
    <3>2. i = 1
      BY <2>1, <3>1, RestQueued
    <3> QED BY <2>1, <3>1, <3>2 DEF Begun
  <2>2. ASSUME Begun(n, s), a = s[1] PROVE a \in S
    BY <2>2, RestQueued DEF Begun, UnsettledOf
  <2> QED BY <2>1, <2>2
<1>2. ServingOf(k) = IF S = {} THEN None ELSE CHOOSE a \in S : TRUE
  BY DEF ServingOf
<1> HIDE DEF S
<1>3. CASE Begun(n, s)
  <2>1. S = {s[1]}
    BY <1>1, <1>3
  <2> QED BY <1>2, <1>3, <2>1
<1>4. CASE ~Begun(n, s)
  <2>1. S = {}
    BY <1>1, <1>4
  <2> QED BY <1>2, <1>4, <2>1
<1> QED BY <1>3, <1>4

LEMMA LineIs ==
  ASSUME QInv, NEW k \in Keys, NEW n \in Nat, NEW s \in [1..n -> Activities], Chain(k, n, s)
  PROVE  LineOf(k) = [i \in 1..(n - Ahead(n, s)) |-> s[i + Ahead(n, s)]]
<1> DEFINE W == {a \in UnsettledOf(k) : state[a] = "queued"}
           Sorted(q, c) == \A i, j \in 1..c : i < j => Depth[q[i]] < Depth[q[j]]
<1>0. PICK m : m = Ahead(n, s)
  OBVIOUS
<1>1. m \in {0, 1} /\ (m = 1 => n > 0) /\ n - m \in Nat
  BY <1>0 DEF Ahead, Begun
<1>2. PICK c \in Nat : c = n - m
  BY <1>1
<1> DEFINE r == [i \in 1..c |-> s[i + m]]
<1>3. \A i \in 1..c : i + m \in 1..n /\ (i + m = 1 => m = 0)
  BY <1>1, <1>2
<1>4. ASSUME NEW i \in 1..c PROVE s[i + m] \in W
  <2>1. i + m \in 1..n /\ s[i + m] \in UnsettledOf(k)
    BY <1>3 DEF Chain, UnsettledOf
  <2>2. CASE i + m = 1
    <3>1. m = 0 /\ n > 0
      BY <1>3, <2>1, <2>2
    <3> QED BY <1>0, <2>1, <2>2, <3>1 DEF Ahead, Begun
  <2>3. CASE i + m # 1
    BY <2>1, <2>3, RestQueued
  <2> QED BY <2>2, <2>3
<1>5. ASSUME NEW a \in W PROVE \E i \in 1..c : s[i + m] = a
  <2>1. PICK h \in 1..n : s[h] = a
    BY DEF Chain, UnsettledOf
  <2>2. h = 1 => m = 0
    BY <1>0, <2>1 DEF Ahead, Begun
  <2>3. h - m \in 1..c /\ (h - m) + m = h
    BY <1>1, <1>2, <2>2
  <2> QED BY <2>1, <2>3
<1> HIDE DEF W
<1>6. r \in [1..c -> W] /\ \A i \in 1..c : r[i] = s[i + m]
  BY <1>4
<1> HIDE DEF r
<1>7. \A i, j \in 1..n : s[i] = s[j] => i = j
  BY DEF Chain
<1>8. Cardinality(W) = c
  <2>1. \A i, j \in 1..c : r[i] = r[j] => i = j
    <3> SUFFICES ASSUME NEW i \in 1..c, NEW j \in 1..c, r[i] = r[j] PROVE i = j
      OBVIOUS
    <3>1. s[i + m] = s[j + m] /\ i + m \in 1..n /\ j + m \in 1..n
      BY <1>3, <1>6
    <3>2. i + m = j + m
      BY <1>7, <3>1
    <3> QED BY <1>1, <3>2
  <2>2. \A a \in W : \E i \in 1..c : r[i] = a
    BY <1>5, <1>6
  <2>3. r \in Bijection(1..c, W)
    BY <1>6, <2>1, <2>2 DEF Bijection, Injection, Surjection, IsInjective
  <2> QED BY <2>3, FS_CountingElements DEF ExistsBijection
<1>9. ASSUME NEW i \in 1..c PROVE Depth[s[i + m]] = (i + m) - 1
  <2>1. i + m \in 1..n
    BY <1>3
  <2> QED BY <2>1, DepthInChain
<1>10. Sorted(r, c)
  <2> SUFFICES ASSUME NEW i \in 1..c, NEW j \in 1..c, i < j PROVE Depth[r[i]] < Depth[r[j]]
    OBVIOUS
  <2>1. Depth[r[i]] = (i + m) - 1 /\ Depth[r[j]] = (j + m) - 1
    BY <1>6, <1>9
  <2> QED BY <1>1, <2>1
<1>11. ASSUME NEW q \in [1..c -> W], Sorted(q, c) PROVE q = r
  <2> DEFINE f == [i \in 1..c |-> CHOOSE h \in 1..c : s[h + m] = q[i]]
  <2>1. ASSUME NEW i \in 1..c PROVE f[i] \in 1..c /\ s[f[i] + m] = q[i]
    <3>1. \E h \in 1..c : s[h + m] = q[i]
      BY <1>5
    <3>2. f[i] = CHOOSE h \in 1..c : s[h + m] = q[i]
      OBVIOUS
    <3> HIDE DEF f
    <3> QED BY <3>1, <3>2
  <2>2. f \in [1..c -> 1..c]
    <3>1. PICK g : g = f
      OBVIOUS
    <3>2. g = [i \in 1..c |-> g[i]]
      BY <3>1
    <3>3. \A i \in 1..c : g[i] \in 1..c
      BY <2>1, <3>1
    <3> HIDE DEF f
    <3> QED BY <3>1, <3>2, <3>3
  <2> HIDE DEF f
  <2>3. ASSUME NEW i \in 1..c, NEW j \in 1..c, i < j PROVE f[i] < f[j]
    <3>1. Depth[q[i]] < Depth[q[j]]
      BY <1>11, <2>3
    <3>2. Depth[q[i]] = (f[i] + m) - 1 /\ Depth[q[j]] = (f[j] + m) - 1
      BY <1>9, <2>1
    <3>3. f[i] \in 1..c /\ f[j] \in 1..c
      BY <2>1
    <3> QED BY <1>1, <3>1, <3>2, <3>3
  <2>4. \A i \in 1..c : f[i] = i
    BY <2>2, <2>3, OneNumbering
  <2>5. \A i \in 1..c : q[i] = r[i]
    BY <1>6, <2>1, <2>4
  <2> QED BY <1>6, <2>5
<1>12. LineOf(k) = CHOOSE q \in [1..c -> W] : Sorted(q, c)
  BY <1>8 DEF LineOf, W
<1> HIDE DEF Sorted
<1>13. LineOf(k) = r
  BY <1>6, <1>10, <1>11, <1>12
<1> QED BY <1>0, <1>2, <1>13 DEF r

LEMMA LinesFollow == ASSUME QInv PROVE Lines
BY ServingIs, LineIs DEF Lines, LineAt

-----------------------------------------------------------------------------
(* The queues take turns.                                                  *)

\* Who waits in the queue stays there, and no one else goes there, but b.
SameButFor(b) == \A a \in Activities \ {b} : state'[a] = "queued" <=> state[a] = "queued"

LEMMA TheChain ==
  ASSUME QInv, Lines, NEW l \in Keys
  PROVE  \E n \in Nat : \E s \in [1..n -> Activities] : Chain(l, n, s) /\ LineAt(l, n, s)
BY DEF QInv, Chained, Lines

\* A key whose chain and whose waiting tasks stay keeps its line.
LEMMA LineKept ==
  ASSUME QInv, Lines, Lines', NEW l \in Keys, NEW b, SameButFor(b),
         \A a \in Activities : key[a] = l => a # b,
         \A n \in Nat : \A s \in [1..n -> Activities] : Chain(l, n, s) => Chain(l, n, s)'
  PROVE  LineOf(l)' = LineOf(l) /\ ServingOf(l)' = ServingOf(l)
<1>1. PICK n \in Nat : \E s \in [1..n -> Activities] : Chain(l, n, s) /\ LineAt(l, n, s)
  BY TheChain
<1>2. PICK s \in [1..n -> Activities] : Chain(l, n, s) /\ LineAt(l, n, s)
  BY <1>1
<1>3. LineAt(l, n, s)'
  BY <1>2 DEF Lines
<1>4. Begun(n, s)' <=> Begun(n, s)
  <2>1. n > 0 => s[1] \in Activities /\ s[1] # b
    BY <1>2, RestQueued
  <2> QED BY <2>1 DEF Begun, SameButFor
<1>5. Ahead(n, s)' = Ahead(n, s)
  BY <1>4 DEF Ahead
<1> QED BY <1>2, <1>3, <1>4, <1>5 DEF LineAt

LEMMA JoinsLine ==
  ASSUME QInv, Lines, Lines', NEW b \in Activities, NEW k \in Keys, NEW ctx, Queue(b, k, ctx),
         SameButFor(b), state'[b] = "queued"
  PROVE  /\ LineOf(k)' = Append(LineOf(k), b) /\ ServingOf(k)' = ServingOf(k)
         /\ \A l \in Keys \ {k} : LineOf(l)' = LineOf(l) /\ ServingOf(l)' = ServingOf(l)
<1>1. \A l \in Keys : \A a \in Activities : key[a] = l => a # b
  BY Constants DEF Queue, QInv, Flows
<1>2. ASSUME NEW l \in Keys \ {k} PROVE LineOf(l)' = LineOf(l) /\ ServingOf(l)' = ServingOf(l)
  BY <1>1, QueueChain, LineKept
<1>3. PICK n \in Nat : \E s \in [1..n -> Activities] : Chain(k, n, s) /\ LineAt(k, n, s)
  BY TheChain
<1>4. PICK s \in [1..n -> Activities] : Chain(k, n, s) /\ LineAt(k, n, s)
  BY <1>3
<1>5. PICK t \in [1..(n + 1) -> Activities] :
        t[n + 1] = b /\ (\A i \in 1..n : t[i] = s[i]) /\ Chain(k, n + 1, t)'
  BY <1>4, QueueChain
<1>6. LineAt(k, n + 1, t)'
  BY <1>5 DEF Lines
<1>7. n > 0 => t[1] = s[1] /\ s[1] \in Activities /\ s[1] # b
  BY <1>1, <1>4, <1>5, RestQueued
<1>8. Begun(n + 1, t)' <=> Begun(n, s)
  BY <1>5, <1>7 DEF Begun, SameButFor
<1>9. PICK m \in {0, 1} : m = Ahead(n, s) /\ m = Ahead(n + 1, t)' /\ m <= n
  BY <1>8 DEF Ahead, Begun
<1>10. ServingOf(k)' = ServingOf(k)
  <2>1. ServingOf(k)' = IF Begun(n + 1, t)' THEN t[1] ELSE None
    BY <1>6 DEF LineAt
  <2>2. ServingOf(k) = IF Begun(n, s) THEN s[1] ELSE None
    BY <1>4 DEF LineAt
  <2>3. Begun(n, s) => n > 0
    BY DEF Begun
  <2> QED BY <1>7, <1>8, <2>1, <2>2, <2>3
<1>11. LineOf(k)' = Append(LineOf(k), b)
  <2>1. LineOf(k)' = [i \in 1..((n + 1) - m) |-> t[i + m]]
    BY <1>6, <1>9 DEF LineAt
  <2>2. LineOf(k) = [i \in 1..(n - m) |-> s[i + m]]
    BY <1>4, <1>9 DEF LineAt
  <2>3. PICK c \in Nat : c = n - m
    BY <1>9
  <2>4. \A i \in 1..c : i + m \in 1..n /\ t[i + m] = s[i + m]
    BY <1>5, <2>3
  <2>5. t[(c + 1) + m] = b /\ (n + 1) - m = c + 1
    BY <1>5, <2>3
  <2> DEFINE q == [i \in 1..c |-> s[i + m]]
             r == [i \in 1..(c + 1) |-> t[i + m]]
  <2>6. q \in [1..c -> Activities] /\ \A i \in 1..c : q[i] = s[i + m]
    BY <2>4
  <2>7. r \in [1..(c + 1) -> Activities] /\ \A i \in 1..(c + 1) : r[i] = t[i + m]
    <3>1. \A i \in 1..(c + 1) : i + m \in 1..(n + 1)
      BY <2>3
    <3> QED BY <3>1
  <2>8. LineOf(k)' = r /\ LineOf(k) = q
    BY <2>1, <2>2, <2>3, <2>5
  <2> HIDE DEF q, r
  <2>9. r[c + 1] = b /\ \A i \in 1..c : r[i] = q[i]
    <3>1. c + 1 \in 1..(c + 1) /\ \A i \in 1..c : i \in 1..(c + 1)
      OBVIOUS
    <3>2. r[c + 1] = t[(c + 1) + m] /\ \A i \in 1..c : r[i] = t[i + m] /\ q[i] = s[i + m]
      BY <2>6, <2>7, <3>1
    <3> QED BY <2>4, <2>5, <3>2
  <2> QED BY <2>6, <2>7, <2>8, <2>9, AppendIs
<1> QED BY <1>2, <1>10, <1>11

LEMMA StartsNext ==
  ASSUME QInv, Lines, Lines', NEW b \in Activities, Start(b)
  PROVE  \E k \in Keys :
           /\ ServingOf(k) = None /\ LineOf(k) # <<>>
           /\ ServingOf(k)' = Head(LineOf(k)) /\ LineOf(k)' = Tail(LineOf(k))
           /\ \A l \in Keys \ {k} : LineOf(l)' = LineOf(l) /\ ServingOf(l)' = ServingOf(l)
<1>1. PICK k \in Keys : k = key[b]
  BY DEF Start, QInv, Flows, TypeOK
<1>2. SameButFor(b) /\ state'[b] = "running" /\ state[b] = "queued" /\ after[b] = None
  BY DEF Start, SameButFor, QInv, TypeOK
<1>3. ASSUME NEW l \in Keys, NEW n \in Nat, NEW s \in [1..n -> Activities], Chain(l, n, s)
      PROVE  Chain(l, n, s)'
  BY <1>3 DEF Start, Chain
<1>4. ASSUME NEW l \in Keys \ {k} PROVE LineOf(l)' = LineOf(l) /\ ServingOf(l)' = ServingOf(l)
  BY <1>1, <1>2, <1>3, LineKept
<1>5. PICK n \in Nat : \E s \in [1..n -> Activities] : Chain(k, n, s) /\ LineAt(k, n, s)
  BY TheChain
<1>6. PICK s \in [1..n -> Activities] : Chain(k, n, s) /\ LineAt(k, n, s)
  BY <1>5
<1>7. LineAt(k, n, s)'
  BY <1>3, <1>6 DEF Lines
<1>8. n > 0 /\ s[1] = b
  <2>1. PICK i \in 1..n : s[i] = b
    BY <1>1, <1>6 DEF Chain
  <2>2. i = 1
    <3> SUFFICES ASSUME i # 1 PROVE FALSE
      OBVIOUS
    <3>1. i - 1 \in 1..n /\ after[b] = s[i - 1] /\ s[i - 1] \in Activities
      BY <1>6, <2>1 DEF Chain
    <3> QED BY <1>2, <3>1, Constants
  <2> QED BY <2>1, <2>2
<1>9. ~Begun(n, s) /\ Begun(n, s)' /\ Ahead(n, s) = 0 /\ Ahead(n, s)' = 1
  BY <1>2, <1>8 DEF Begun, Ahead
<1>10. ServingOf(k) = None /\ ServingOf(k)' = b
  BY <1>6, <1>7, <1>8, <1>9 DEF LineAt
<1>11. LineOf(k) = s /\ LineOf(k)' = [i \in 1..(n - 1) |-> s[i + 1]]
  <2>1. LineOf(k) = [i \in 1..(n - 0) |-> s[i + 0]]
    BY <1>6, <1>9 DEF LineAt
  <2>2. \A i \in 1..n : i + 0 = i
    OBVIOUS
  <2>3. LineOf(k) = [i \in 1..n |-> s[i]]
    BY <2>1, <2>2
  <2> QED BY <1>7, <1>9, <2>3 DEF LineAt
<1>12. s # <<>> /\ Head(s) = b /\ Tail(s) = [i \in 1..(n - 1) |-> s[i + 1]]
  BY <1>8, HeadTailOf
<1> QED BY <1>4, <1>10, <1>11, <1>12

LEMMA SettlesServed ==
  ASSUME QInv, Lines, Lines', NEW a \in Activities, Finish(a)
  PROVE  \E k \in Keys :
           /\ ServingOf(k) # None /\ ServingOf(k)' = None /\ LineOf(k)' = LineOf(k)
           /\ \A l \in Keys \ {k} : LineOf(l)' = LineOf(l) /\ ServingOf(l)' = ServingOf(l)
<1>1. PICK k \in Keys : k = key[a]
  BY DEF Finish, QInv, Flows, TypeOK
<1>2. /\ state[a] = "running" /\ state'[a] = "free" /\ SameButFor(a)
  <2>1. state[a] = "running" /\ caller[a] # a
    BY Constants DEF Finish, QInv, Flows
  <2>2. \A b \in Activities : state'[b] = IF b = a THEN "free"
                                   ELSE IF b = caller[a] THEN "running" ELSE state[b]
    BY DEF Finish, Leave
  <2>3. caller[a] \in Activities => state[caller[a]] = "awaiting"
    BY Constants DEF QInv, Flows
  <2> QED BY <2>1, <2>2, <2>3 DEF SameButFor
<1>3. ASSUME NEW l \in Keys \ {k} PROVE LineOf(l)' = LineOf(l) /\ ServingOf(l)' = ServingOf(l)
  BY <1>1, <1>2, <1>3, FinishChain, LineKept
<1>4. PICK n \in Nat : \E s \in [1..n -> Activities] : Chain(k, n, s) /\ LineAt(k, n, s)
  BY TheChain
<1>5. PICK s \in [1..n -> Activities] : Chain(k, n, s) /\ LineAt(k, n, s)
  BY <1>4
<1>6. n > 0 /\ s[1] = a /\ \E t \in [1..(n - 1) -> Activities] :
        (\A i \in 1..(n - 1) : t[i] = s[i + 1]) /\ Chain(k, n - 1, t)'
  BY <1>1, <1>5, FinishChain
<1>7. PICK t \in [1..(n - 1) -> Activities] :
        (\A i \in 1..(n - 1) : t[i] = s[i + 1]) /\ Chain(k, n - 1, t)'
  BY <1>6
<1>8. LineAt(k, n - 1, t)'
  BY <1>6, <1>7 DEF Lines
<1>9. Begun(n, s) /\ Ahead(n, s) = 1
  BY <1>2, <1>6 DEF Begun, Ahead
<1>10. ~Begun(n - 1, t)' /\ Ahead(n - 1, t)' = 0
  <2>1. ASSUME n - 1 > 0 PROVE state'[t[1]] = "queued"
    <3>1. 2 \in 1..n /\ 1 \in 1..n /\ 1 \in 1..(n - 1) /\ 1 + 1 = 2
      BY <1>6, <2>1
    <3>2. t[1] = s[2] /\ s[2] \in Activities /\ state[s[2]] = "queued"
      BY <1>5, <1>7, <3>1, RestQueued
    <3>3. s[2] # a
      BY <1>5, <1>6, <3>1 DEF Chain
    <3> QED BY <1>2, <3>2, <3>3 DEF SameButFor
  <2> QED BY <2>1 DEF Begun, Ahead
<1>11. ServingOf(k) = a /\ ServingOf(k)' = None
  BY <1>5, <1>6, <1>8, <1>9, <1>10 DEF LineAt
<1>12. LineOf(k)' = LineOf(k)
  <2>1. LineOf(k) = [i \in 1..(n - 1) |-> s[i + 1]]
    BY <1>5, <1>9 DEF LineAt
  <2>2. LineOf(k)' = [i \in 1..((n - 1) - 0) |-> t[i + 0]]
    BY <1>8, <1>10 DEF LineAt
  <2>3. (n - 1) - 0 = n - 1 /\ \A i \in 1..(n - 1) : t[i + 0] = s[i + 1]
    BY <1>6, <1>7
  <2> QED BY <2>1, <2>2, <2>3
<1> QED BY <1>3, <1>11, <1>12, Constants

LEMMA TurnsStep ==
  ASSUME QInv, Lines, Lines', Next
  PROVE  [T!Next]_(T!turns)
<1> USE DEF QInv
<1>1. PICK a \in Activities :
        \/ Start(a) \/ Finish(a) \/ Fire(a) \/ Return(a)
        \/ \E k \in Keys : Call(a, k) \/ Reenter(a, k)
        \/ \E b \in Activities :
             \/ ScheduleFleetWork(a, b) \/ SetTimer(a, b)
             \/ \E d \in Devices : Nested(a, b, d)
  BY DEF Next
<1>2. ASSUME \A l \in Keys : LineOf(l)' = LineOf(l) /\ ServingOf(l)' = ServingOf(l)
      PROVE  [T!Next]_(T!turns)
  BY <1>2 DEF T!turns
<1>3. ASSUME SameButFor(None), UNCHANGED <<after, key, entries, objects>>
      PROVE  [T!Next]_(T!turns)
  <2>1. ASSUME NEW l \in Keys, NEW n \in Nat, NEW s \in [1..n -> Activities], Chain(l, n, s)
        PROVE  Chain(l, n, s)'
    BY <1>3, <2>1 DEF Chain
  <2>2. \A l \in Keys : LineOf(l)' = LineOf(l) /\ ServingOf(l)' = ServingOf(l)
    BY <1>3, <2>1, LineKept, Constants
  <2> QED BY <1>2, <2>2
<1>4. ASSUME NEW b \in Activities, NEW k \in Keys, NEW ctx, Queue(b, k, ctx),
             SameButFor(b), state'[b] = "queued"
      PROVE  [T!Next]_(T!turns)
  <2>1. LineOf(k)' = Append(LineOf(k), b) /\ ServingOf(k)' = ServingOf(k)
    BY <1>4, JoinsLine
  <2>2. \A l \in Keys \ {k} : LineOf(l)' = LineOf(l) /\ ServingOf(l)' = ServingOf(l)
    BY <1>4, JoinsLine
  <2>3. T!Join(k, b)
    BY <2>1, <2>2 DEF T!Join
  <2> QED BY <2>3 DEF T!Next
<1>5. CASE Start(a)
  <2>1. PICK k \in Keys :
           /\ ServingOf(k) = None /\ LineOf(k) # <<>>
           /\ ServingOf(k)' = Head(LineOf(k)) /\ LineOf(k)' = Tail(LineOf(k))
           /\ \A l \in Keys \ {k} : LineOf(l)' = LineOf(l) /\ ServingOf(l)' = ServingOf(l)
    BY <1>5, StartsNext
  <2>2. T!Serve(k)
    BY <2>1 DEF T!Serve
  <2> QED BY <2>2 DEF T!Next
<1>6. CASE Finish(a)
  <2>1. PICK k \in Keys :
           /\ ServingOf(k) # None /\ ServingOf(k)' = None /\ LineOf(k)' = LineOf(k)
           /\ \A l \in Keys \ {k} : LineOf(l)' = LineOf(l) /\ ServingOf(l)' = ServingOf(l)
    BY <1>6, SettlesServed
  <2>2. T!Leave(k)
    BY <2>1 DEF T!Leave
  <2> QED BY <2>2 DEF T!Next
<1>7. CASE Fire(a)
  <2>1. SameButFor(None)
    BY <1>7 DEF Fire, SameButFor, TypeOK
  <2> QED BY <1>3, <1>7, <2>1 DEF Fire
<1>8. CASE Return(a)
  <2>1. key[a] = None /\ state[a] = "running" /\ (caller[a] # None => state[caller[a]] = "awaiting")
    BY <1>8 DEF Return, Flows
  <2>2. SameButFor(None)
    BY <1>8, <2>1, Constants DEF Return, Leave, SameButFor, TypeOK, NoOne
  <2>3. key' = key
    BY <1>8, <2>1 DEF Return, Leave, TypeOK
  <2> QED BY <1>3, <1>8, <2>2, <2>3 DEF Return
<1>9. ASSUME NEW k \in Keys, Call(a, k) PROVE [T!Next]_(T!turns)
  <2>1. Queue(a, k, {}) /\ SameButFor(a) /\ state'[a] = "queued"
    BY <1>9 DEF Call, SameButFor, TypeOK
  <2> QED BY <1>4, <2>1
<1>10. ASSUME NEW k \in Keys, Reenter(a, k) PROVE [T!Next]_(T!turns)
  BY <1>3, <1>10 DEF Reenter, SameButFor
<1>11. ASSUME NEW b \in Activities, ScheduleFleetWork(a, b) PROVE [T!Next]_(T!turns)
  <2>1. Queue(b, Fleet, OutsideQueues(a)) /\ SameButFor(b) /\ state'[b] = "queued"
    BY <1>11 DEF ScheduleFleetWork, SameButFor, TypeOK
  <2> QED BY <1>4, <2>1, Constants
<1>12. ASSUME NEW b \in Activities, SetTimer(a, b) PROVE [T!Next]_(T!turns)
  <2>1. SameButFor(None)
    BY <1>12 DEF SetTimer, SameButFor, TypeOK
  <2> QED BY <1>3, <1>12, <2>1 DEF SetTimer
<1>13. ASSUME NEW b \in Activities, NEW d \in Devices, Nested(a, b, d)
       PROVE  [T!Next]_(T!turns)
  <2>1. Queue(b, d, held[a]) /\ SameButFor(b) /\ state'[b] = "queued"
    <3>1. /\ state[b] = "free" /\ state[a] = "running"
          /\ state' = [state EXCEPT ![b] = "queued", ![a] = "awaiting"]
      BY <1>13 DEF Nested, Queue
    <3> QED BY <1>13, <3>1 DEF Nested, SameButFor, TypeOK
  <2>2. d \in Keys
    BY Constants
  <2> QED BY <1>4, <2>1, <2>2
<1> QED BY <1>1, <1>5, <1>6, <1>7, <1>8, <1>9, <1>10, <1>11, <1>12, <1>13

LEMMA TurnsInit == ASSUME Init, QInv, Lines PROVE T!Init
<1>1. ASSUME NEW k \in Keys PROVE LineOf(k) = <<>> /\ ServingOf(k) = None
  <2>1. PICK n \in Nat : \E s \in [1..n -> Activities] : Chain(k, n, s) /\ LineAt(k, n, s)
    BY TheChain
  <2>2. PICK s \in [1..n -> Activities] : Chain(k, n, s) /\ LineAt(k, n, s)
    BY <2>1
  <2>3. n = 0
    BY <2>2 DEF Init, Chain
  <2>4. ~Begun(n, s) /\ Ahead(n, s) = 0
    BY <2>3 DEF Begun, Ahead
  <2>5. LineOf(k) = [i \in 1..(0 - 0) |-> s[i + 0]] /\ ServingOf(k) = None
    BY <2>2, <2>3, <2>4 DEF LineAt
  <2> QED BY <2>5
<1> QED BY <1>1 DEF T!Init

\* The chain of promises gives each key's tasks their turns, one at a time and
\* in the order in which they were accepted: SerialQueue implements Turns.
THEOREM TakesTurnsAlways == Spec => TakesTurns
<1>1. QInv => Lines
  BY LinesFollow
<1>2. Init /\ QInv /\ Lines => T!Init
  BY TurnsInit
<1>3. QInv /\ Lines /\ Lines' /\ [Next]_vars => [T!Next]_(T!turns)
  <2> SUFFICES ASSUME QInv, Lines, Lines', [Next]_vars PROVE [T!Next]_(T!turns)
    OBVIOUS
  <2>1. CASE Next
    BY <2>1, TurnsStep
  <2>2. CASE UNCHANGED vars
    <3>1. \A l \in Keys : LineOf(l)' = LineOf(l) /\ ServingOf(l)' = ServingOf(l)
      BY <2>2 DEF vars, LineOf, ServingOf, UnsettledOf, Depth
    <3> QED BY <3>1 DEF T!turns
  <2> QED BY <2>1, <2>2
<1> QED BY <1>1, <1>2, <1>3, Invariant, PTL DEF Spec, TakesTurns, T!Spec

=============================================================================
