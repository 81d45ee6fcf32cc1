------------------------ MODULE AlertDeliveryProofs ------------------------
(***************************************************************************)
(* For any number of alerts, rules, groups, faults and restarts: the       *)
(* notice of an alert that is active survives, and the last word about an  *)
(* outage is not an alarm.                                                 *)
(***************************************************************************)
EXTENDS AlertDelivery, FiniteSetTheorems, WellFoundedInduction, TLAPS

Rows == 1..Len(rows)

\* The latest group is one of them.
LEMMA MaxIn ==
  ASSUME NEW n \in Nat, NEW S \in SUBSET (1..n), S # {}
  PROVE  Max(S) \in S
<1> DEFINE T == {n - i : i \in S}
<1>1. T \subseteq Nat /\ T # {}
  <2>1. \A i \in S : n - i \in Nat
    OBVIOUS
  <2>2. PICK i \in S : TRUE
    OBVIOUS
  <2>3. n - i \in T
    BY <2>2
  <2> QED BY <2>1, <2>3
<1>2. PICK x \in T : \A y \in T : ~(<<y, x>> \in OpToRel(<, Nat))
  <2> HIDE DEF T
  <2> QED BY <1>1, NatLessThanWellFounded, WFMin
<1>3. \A y \in T : x <= y
  <2>1. ASSUME NEW y \in T PROVE x <= y
    <3>1. x \in Nat /\ y \in Nat
      BY <1>1, <2>1
    <3>2. ~(y < x)
      BY <1>2, <3>1 DEF OpToRel
    <3> QED BY <3>1, <3>2
  <2> QED BY <2>1
<1>4. PICK i \in S : x = n - i
  OBVIOUS
<1>5. \A j \in S : i >= j
  <2>1. \A j \in S : n - j \in T
    OBVIOUS
  <2> QED BY <1>3, <1>4, <2>1
<1> QED BY <1>5 DEF Max

LEMMA Constants ==
  /\ MaxEvents \in Nat /\ Grouping \in BOOLEAN
  /\ \A t \in FlapThresholds : t \in Nat
BY AlertAssumption

LEMMA HappensTyped == ASSUME TypeOK, Happens PROVE events' \in 0..MaxEvents
BY Constants DEF TypeOK, Happens

----------------------------------------------------------------------------
\* The inductive invariant.

\* What TypeOK leaves out: the fields of task and worker, and that routing is
\* about one alert.
Shape ==
  /\ task.does \notin {"idle", "digest"} => \E a \in Alerts : task.of = {a}
  /\ worker = [todo |-> worker.todo, at |-> worker.at, row |-> worker.row,
               says |-> worker.says]
  /\ worker.at \in {"built", "sending"} => worker.row # 0
TInv == TypeOK /\ Shape

\* A group that is open takes in openings, and is in no digest.
GroupsOpen ==
  \A i \in Rows : rows[i].status = "grouping" => rows[i].kind = "opened" /\ rows[i].digest = 0

\* A digest tells all its rows would have told, whoever changes them later, or
\* as many alerts as it may.
InDigest(i, d) ==
  /\ d \in Rows /\ rows[d].kind = "digest"
  /\ rows[i].items \subseteq rows[d].items \/ Cardinality(rows[d].items) = MaxItems
DigestsTell == \A i \in Rows : rows[i].digest # 0 => InDigest(i, rows[i].digest)
DigestInTask ==
  task.does = "digest" =>
    \A i \in task.of : i \in Rows /\ rows[i].status # "grouping" /\ InDigest(i, task.row)

\* AlarmStands, also for alerts that are over while nobody has collapsed their
\* rows, and for rows a stale copy of the worker may bring back.
AlarmsKept ==
  \A a \in Alerts : alarm[a] # 0 =>
    /\ a \in rows[alarm[a]].items
    /\ rows[alarm[a]].status = "collapsed" => rows[alarm[a]].digest # 0

\* A recovery is only due, or being routed, for what is over.
OverWhenDue ==
  /\ \A a \in Alerts :
       /\ alert[a].due => alert[a].state = "resolved"
       /\ alert[a].state = "none" => ~alert[a].flapping /\ alert[a].outage = 0
  /\ task.does \in {"resolved", "recovery"} => alert[Of].state = "resolved"

\* No all-clear of an outage before its end.
Recovery(i, a) == rows[i].kind = "resolved" /\ rows[i].items = {a}
NoEarlyAllClear ==
  \A i \in Rows, a \in Alerts : Recovery(i, a) =>
    IF alert[a].state = "resolved" THEN rows[i].outage <= alert[a].outage
    ELSE rows[i].outage < alert[a].outage

Routed == GroupsOpen /\ DigestsTell /\ DigestInTask /\ AlarmsKept
AInv == TInv /\ Routed /\ OverWhenDue /\ NoEarlyAllClear /\ NoAlarmAfterAllClear

----------------------------------------------------------------------------
\* Types.

LEMMA OfTask ==
  ASSUME Shape, task.does \notin {"idle", "digest"} PROVE Of \in Alerts /\ task.of = {Of}
<1>1. PICK a \in Alerts : task.of = {a}
  BY DEF Shape
<1> QED BY <1>1 DEF Of

LEMMA Typed ==
  ASSUME TypeOK
  PROVE  /\ Len(rows) \in Nat /\ Rows \subseteq Nat
         /\ \A i \in Rows : rows[i] \in Row
         /\ rows = [i \in Rows |-> rows[i]]
BY DEF TypeOK, Rows

\* Rows rewritten one by one.
LEMMA RowsTyped ==
  ASSUME TypeOK, NEW f, DOMAIN f = Rows, f = [i \in Rows |-> f[i]], \A i \in Rows : f[i] \in Row
  PROVE  f \in Seq(Row) /\ Len(f) = Len(rows)
<1>1. Len(rows) \in Nat
  BY Typed
<1> QED BY <1>1 DEF Rows

\* One row saved.
LEMMA RowSaved ==
  ASSUME TypeOK, NEW g \in Rows, NEW r \in Row, rows' = [rows EXCEPT ![g] = r]
  PROVE  /\ rows' \in Seq(Row) /\ Len(rows') = Len(rows) /\ Rows' = Rows
         /\ rows'[g] = r /\ \A i \in Rows \ {g} : rows'[i] = rows[i]
<1>1. rows \in Seq(Row) /\ g \in 1..Len(rows)
  BY DEF TypeOK, Rows
<1>2. rows' \in Seq(Row) /\ Len(rows') = Len(rows)
  BY <1>1
<1> QED BY <1>1, <1>2 DEF Rows

LEMMA GroupIn ==
  ASSUME TypeOK, OpenGroups # {}
  PROVE  Max(OpenGroups) \in Rows /\ rows[Max(OpenGroups)].status = "grouping"
<1>1. OpenGroups \in SUBSET (1..Len(rows)) /\ Len(rows) \in Nat
  BY Typed DEF OpenGroups
<1>2. Max(OpenGroups) \in OpenGroups
  BY <1>1, MaxIn
<1> QED BY <1>2 DEF OpenGroups, Rows

----------------------------------------------------------------------------
\* What the kinds of steps have in common.

Routes == {"opened", "reminder", "flapping", "resolved", "collapse"}
NewTask == task' = NoTask \/ \E what \in Routes, a \in Alerts : Does(what, a)

\* An outage ends before the next begins.
Forward ==
  \A a \in Alerts :
    /\ alert'[a].outage >= alert[a].outage
    /\ alert[a].state = "resolved" =>
         IF alert'[a].state = "resolved" THEN alert'[a].outage = alert[a].outage
         ELSE alert'[a].outage > alert[a].outage

\* A step of the engine that has not routed anything yet.
EngineStep ==
  /\ Engine /\ UNCHANGED <<flapThreshold, rows, worker, alarm>>
  /\ events' \in 0..MaxEvents /\ alert' \in [Alerts -> Alert] /\ NewTask

LEMMA TaskNew ==
  ASSUME NewTask
  PROVE  \/ task' = [does |-> "idle", of |-> {}, row |-> 0]
         \/ \E what \in Routes, a \in Alerts : task' = [does |-> what, of |-> {a}, row |-> 0]
<1>1. ASSUME NEW what \in Routes, NEW a \in Alerts, Does(what, a)
      PROVE  task' = [does |-> what, of |-> {a}, row |-> 0]
  BY <1>1 DEF Does, NoTask
<1> QED BY <1>1 DEF NewTask, NoTask

LEMMA EngineTyped == ASSUME TInv, EngineStep PROVE TInv'
<1>1. Len(rows) \in Nat
  BY Typed DEF TInv
<1>2. /\ task'.row = 0 /\ task'.does \in Routes \cup {"idle"}
      /\ task'.does # "idle" => \E a \in Alerts : task'.of = {a}
  BY TaskNew DEF EngineStep
<1>3. TypeOK'
  BY <1>1, <1>2 DEF TInv, TypeOK, EngineStep, Routes
<1>4. Shape'
  BY <1>2 DEF TInv, Shape, EngineStep
<1> QED BY <1>3, <1>4 DEF TInv

LEMMA EngineKeeps ==
  ASSUME AInv, EngineStep, Forward PROVE Routed' /\ NoEarlyAllClear' /\ NoAlarmAfterAllClear'
<1> USE DEF AInv
<1>1. rows' = rows /\ worker' = worker /\ alarm' = alarm /\ Rows' = Rows
  BY DEF EngineStep, Rows
<1>2. task'.does # "digest"
  BY TaskNew DEF EngineStep, Routes
<1>3. Routed'
  BY <1>1, <1>2 DEF Routed, GroupsOpen, DigestsTell, InDigest, DigestInTask, AlarmsKept
<1>4. \A a \in Alerts : alert[a].outage \in Nat /\ alert'[a].outage \in Nat
  BY DEF EngineStep, TInv, TypeOK, Alert
<1>5. \A i \in Rows : rows[i].outage \in Nat
  BY Typed DEF TInv, Row
<1>6. NoEarlyAllClear'
  <2>1. ASSUME NEW i \in Rows, NEW a \in Alerts, Recovery(i, a)
        PROVE  IF alert'[a].state = "resolved" THEN rows[i].outage <= alert'[a].outage
               ELSE rows[i].outage < alert'[a].outage
    BY <1>4, <1>5, <2>1 DEF NoEarlyAllClear, Forward
  <2> QED BY <1>1, <2>1 DEF NoEarlyAllClear, Recovery
<1>7. NoAlarmAfterAllClear'
  <2>1. ASSUME NEW a \in Alerts, AllClear(a)' PROVE AllClear(a)
    <3>1. PICK i \in Rows : /\ Recovery(i, a) /\ rows[i].status = "sent"
                            /\ rows[i].outage = alert'[a].outage
      BY <1>1, <2>1 DEF AllClear, Recovery, Rows
    <3>2. alert'[a].state = "resolved"
      BY <2>1 DEF AllClear
    <3>3. alert[a].state = "resolved" /\ alert'[a].outage = alert[a].outage
      BY <1>4, <1>5, <3>1, <3>2 DEF NoEarlyAllClear, Forward
    <3> QED BY <3>1, <3>3 DEF AllClear, Recovery, Rows
  <2> QED BY <1>1, <2>1 DEF NoAlarmAfterAllClear
<1> QED BY <1>3, <1>6, <1>7

\* A step that leaves the alerts in their outages: recoveries are the old ones,
\* or new ones of what is over, and only the worker's own row is sent.
RowKeeps(i) ==
  \/ /\ i \in Rows /\ rows'[i].kind = rows[i].kind /\ rows'[i].items = rows[i].items
     /\ rows'[i].outage = rows[i].outage
     /\ rows'[i].status = "sent" => rows[i].status = "sent" \/ worker'.says = << >>
  \/ /\ rows'[i].status # "sent"
     /\ \A a \in Alerts : rows'[i].items = {a} =>
          alert[a].state = "resolved" /\ rows'[i].outage <= alert[a].outage
RowsKeep == \A i \in Rows' : rows'[i].kind = "resolved" => RowKeeps(i)

LEMMA RowsKeepTold ==
  ASSUME AInv, RowsKeep,
         \A a \in Alerts : alert'[a].state = alert[a].state /\ alert'[a].outage = alert[a].outage,
         worker'.says \in {worker.says, << >>}
  PROVE  NoEarlyAllClear' /\ NoAlarmAfterAllClear'
<1> USE DEF AInv
<1>1. NoEarlyAllClear'
  <2>1. ASSUME NEW i \in Rows', NEW a \in Alerts, Recovery(i, a)'
        PROVE  IF alert[a].state = "resolved" THEN rows'[i].outage <= alert[a].outage
               ELSE rows'[i].outage < alert[a].outage
    BY <2>1 DEF RowsKeep, RowKeeps, Recovery, NoEarlyAllClear
  <2> QED BY <2>1 DEF NoEarlyAllClear
<1>2. NoAlarmAfterAllClear'
  <2>1. ASSUME NEW a \in Alerts, AllClear(a)', worker'.says # << >> PROVE AllClear(a)
    <3>1. PICK i \in Rows' : /\ rows'[i].kind = "resolved" /\ rows'[i].items = {a}
                             /\ rows'[i].status = "sent" /\ rows'[i].outage = alert[a].outage
      BY <2>1 DEF AllClear, Rows
    <3>2. /\ i \in Rows /\ rows[i].kind = "resolved" /\ rows[i].items = {a}
          /\ rows[i].status = "sent" /\ rows[i].outage = alert[a].outage
      BY <2>1, <3>1 DEF RowsKeep, RowKeeps
    <3> QED BY <2>1, <3>2 DEF AllClear, Rows
  <2>2. ASSUME NEW a \in Alerts PROVE << >> # [x \in {a} |-> "down"]
    <3>1. DOMAIN [x \in {a} |-> "down"] = {a} /\ DOMAIN << >> = {}
      OBVIOUS
    <3> QED BY <3>1
  <2> QED BY <2>1, <2>2 DEF NoAlarmAfterAllClear
<1> QED BY <1>1, <1>2

----------------------------------------------------------------------------
\* The engine.

LEMMA EventKeeps == ASSUME AInv, NEW a \in Alerts, Events(a) \/ Recover(a) \/ Settle(a),
                           UNCHANGED flapThreshold
                    PROVE  AInv'
<1> USE DEF AInv, TInv
<1>1. flapThreshold \in Nat /\ events \in 0..MaxEvents /\ alert[a] \in Alert
  BY Constants DEF TypeOK
<1>2. StartsFlapping(a) \in BOOLEAN
  BY <1>1 DEF StartsFlapping
<1>3. alert \in [Alerts -> Alert] /\ \A x \in Alerts : alert[x].outage \in Nat
  BY DEF TypeOK, Alert
<1>4. ASSUME alert' \in [Alerts -> Alert],
             \A x \in Alerts \ {a} : alert'[x] = alert[x],
             alert'[a].outage >= alert[a].outage,
             alert[a].state = "resolved" =>
               IF alert'[a].state = "resolved" THEN alert'[a].outage = alert[a].outage
               ELSE alert'[a].outage > alert[a].outage,
             alert'[a].due => alert'[a].state = "resolved",
             alert'[a].state # "none",
             Engine, UNCHANGED <<rows, worker, alarm>>, events' \in 0..MaxEvents, NewTask,
             task'.does = "resolved" => task'.of = {a} /\ alert'[a].state = "resolved"
      PROVE  AInv'
  <2>1. EngineStep
    BY <1>4 DEF EngineStep
  <2>2. Forward
    BY <1>3, <1>4 DEF Forward
  <2>3. OverWhenDue'
    <3>1. \A x \in Alerts :
            /\ alert'[x].due => alert'[x].state = "resolved"
            /\ alert'[x].state = "none" => ~alert'[x].flapping /\ alert'[x].outage = 0
      BY <1>4 DEF OverWhenDue
    <3>2. task'.of = {a} => Of' = a
      BY DEF Of
    <3>3. task'.does # "recovery"
      BY <1>4, TaskNew DEF Routes
    <3> QED BY <1>4, <3>1, <3>2, <3>3 DEF OverWhenDue
  <2> QED BY <2>1, <2>2, <2>3, EngineTyped, EngineKeeps
<1>5. \A what \in Routes : Does(what, a) => NewTask /\ task'.does = what /\ task'.of = {a}
  <2>1. ASSUME NEW what \in Routes, Does(what, a) PROVE NewTask
    BY <2>1 DEF NewTask
  <2>2. ASSUME NEW what \in Routes, Does(what, a) PROVE task'.does = what /\ task'.of = {a}
    BY <2>2 DEF Does, NoTask
  <2> QED BY <2>1, <2>2
<1>6. /\ {"opened", "reminder", "flapping", "collapse"} \subseteq Routes \ {"resolved"}
      /\ "resolved" \in Routes
      /\ task' = NoTask => NewTask /\ task'.does # "resolved"
  BY DEF Routes, NewTask, NoTask
<1>7. CASE Open(a)
  <2>1. /\ alert' \in [Alerts -> Alert] /\ \A x \in Alerts \ {a} : alert'[x] = alert[x]
        /\ alert'[a].state = "active" /\ alert'[a].outage = 1
        /\ alert'[a].due = alert[a].due /\ alert'[a].flapping = alert[a].flapping
    BY <1>1, <1>3, <1>7 DEF Open, Alert
  <2>2. alert[a].state = "none" /\ ~alert[a].due /\ alert[a].outage = 0
    BY <1>7 DEF Open, OverWhenDue
  <2> QED BY <1>4, <1>5, <1>6, <1>7, <2>1, <2>2, HappensTyped DEF Open
<1>8. CASE RaiseInHold(a) \/ Reopen(a)
  <2>1. alert' = [alert EXCEPT ![a] = Reopened(a)]
    BY <1>8 DEF RaiseInHold, Reopen
  <2>2. /\ Reopened(a) \in Alert /\ Reopened(a).state = "active" /\ ~Reopened(a).due
        /\ Reopened(a).outage = alert[a].outage + 1
    <3> DEFINE f == alert[a].flapping \/ StartsFlapping(a)
    <3>1. f \in BOOLEAN /\ alert[a].transitions + 1 \in Nat /\ alert[a].outage + 1 \in Nat
      BY <1>1, <1>2 DEF Alert
    <3>2. Reopened(a) = [alert[a] EXCEPT !.state = "active", !.due = FALSE, !.recent = TRUE,
                                         !.transitions = @ + 1, !.outage = @ + 1,
                                         !.flapping = f]
      BY DEF Reopened
    <3> HIDE DEF f
    <3> QED BY <1>1, <3>1, <3>2 DEF Alert
  <2>3. /\ alert' \in [Alerts -> Alert] /\ \A x \in Alerts \ {a} : alert'[x] = alert[x]
        /\ alert'[a] = Reopened(a)
    BY <1>3, <2>1, <2>2
  <2>4. NewTask /\ task'.does # "resolved"
    BY <1>5, <1>6, <1>8 DEF RaiseInHold, Reopen
  <2>5. Engine /\ UNCHANGED <<rows, worker, alarm>> /\ events' \in 0..MaxEvents
    BY <1>8, HappensTyped DEF RaiseInHold, Reopen
  <2>6. alert[a].outage \in Nat
    BY <1>3
  <2> QED BY <1>4, <2>2, <2>3, <2>4, <2>5, <2>6
<1>9. CASE Remind(a)
  <2>1. alert[a].state # "none" /\ alert[a].state # "resolved"
    BY <1>9 DEF Remind
  <2> QED BY <1>3, <1>4, <1>5, <1>6, <1>9, <2>1, HappensTyped DEF Remind, OverWhenDue
<1>10. CASE Clear(a) \/ ResolveQuietly(a)
  <2>1. /\ alert' \in [Alerts -> Alert] /\ \A x \in Alerts \ {a} : alert'[x] = alert[x]
        /\ alert'[a].state = "resolved" /\ alert'[a].outage = alert[a].outage
    <3>1. CASE Clear(a)
      <4> DEFINE r == ~alert[a].flapping /\ alert[a].notified
      <4>1. alert' = [alert EXCEPT ![a].state = "resolved", ![a].due = r, ![a].recent = TRUE]
        BY <3>1 DEF Clear
      <4>2. r \in BOOLEAN
        OBVIOUS
      <4> HIDE DEF r
      <4> QED BY <1>1, <1>3, <4>1, <4>2 DEF Alert
    <3>2. CASE ResolveQuietly(a)
      <4>1. PICK byHand \in BOOLEAN :
              alert' = [alert EXCEPT ![a].state = "resolved", ![a].due = FALSE,
                                     ![a].flapping = @ /\ ~byHand, ![a].recent = ~byHand]
        BY <3>2 DEF ResolveQuietly
      <4> DEFINE f == alert[a].flapping /\ ~byHand
                 t == ~byHand
      <4>2. alert' = [alert EXCEPT ![a].state = "resolved", ![a].due = FALSE,
                                   ![a].flapping = f, ![a].recent = t]
        BY <4>1
      <4>3. f \in BOOLEAN /\ t \in BOOLEAN
        OBVIOUS
      <4> HIDE DEF f, t
      <4> QED BY <1>1, <1>3, <4>2, <4>3 DEF Alert
    <3> QED BY <1>10, <3>1, <3>2
  <2>2. NewTask /\ task'.does # "resolved"
    BY <1>5, <1>6, <1>10 DEF Clear, ResolveQuietly
  <2>3. /\ Engine /\ alert[a].state = "active" /\ UNCHANGED <<rows, worker, alarm>>
        /\ events' \in 0..MaxEvents
    BY <1>10, HappensTyped DEF Clear, ResolveQuietly
  <2>4. alert[a].outage \in Nat
    BY <1>3
  <2> QED BY <1>4, <2>1, <2>2, <2>3, <2>4
<1>11. CASE Recover(a) \/ Settle(a)
  <2>1. alert[a].state # "none"
    BY <1>11 DEF Recover, Settle, OverWhenDue
  <2>2. /\ alert' \in [Alerts -> Alert] /\ \A x \in Alerts \ {a} : alert'[x] = alert[x]
        /\ alert'[a].state = alert[a].state /\ alert'[a].outage = alert[a].outage
        /\ alert'[a].due => alert[a].due
    <3>1. CASE Recover(a)
      BY <1>1, <1>3, <3>1 DEF Recover, Alert
    <3>2. CASE Settle(a)
      BY <1>1, <1>3, <3>2 DEF Settle, Alert
    <3> QED BY <1>11, <3>1, <3>2
  <2>3. /\ NewTask /\ task'.of = {a}
        /\ task'.does = "resolved" => alert[a].state = "resolved"
    <3>1. CASE Recover(a)
      BY <1>5, <1>6, <3>1 DEF Recover, OverWhenDue
    <3>2. CASE Settle(a)
      BY <1>1, <1>5, <1>6, <2>1, <3>2 DEF Settle, Alert
    <3> QED BY <1>11, <3>1, <3>2
  <2>4. Engine /\ UNCHANGED <<rows, worker, alarm>> /\ events' \in 0..MaxEvents
    BY <1>1, <1>11, HappensTyped DEF Recover, Settle
  <2>5. alert[a].outage \in Nat
    BY <1>3
  <2> QED BY <1>4, <2>1, <2>2, <2>3, <2>4, <2>5 DEF OverWhenDue
<1> QED BY <1>7, <1>8, <1>9, <1>10, <1>11 DEF Events

----------------------------------------------------------------------------
\* Routing.

\* A row that a recovery of a is taken out of.
LEMMA CollapsedRow ==
  ASSUME NEW r \in Row, NEW a \in Alerts, NEW c, c = Collapsed(r, a)
  PROVE  /\ c \in Row /\ c.kind = r.kind /\ c.outage = r.outage /\ c.digest = r.digest
         /\ c.items = r.items \/ c.items = r.items \ {a}
         /\ c.status = r.status \/ (c.status = "collapsed" /\ r.items = {a})
         /\ r.kind \notin Outage => c = r
<1>1. CASE ~(r.status \in Unsent /\ Carries(r, a))
  BY <1>1 DEF Collapsed
<1>2. CASE r.status \in Unsent /\ Carries(r, a) /\ r.items = {a}
  <2>1. c = [r EXCEPT !.status = "collapsed"]
    BY <1>2 DEF Collapsed
  <2> QED BY <1>2, <2>1 DEF Row, Ended, Carries
<1>3. CASE r.status \in Unsent /\ Carries(r, a) /\ r.items # {a}
  <2>1. c = [r EXCEPT !.items = @ \ {a}]
    BY <1>3 DEF Collapsed
  <2> QED BY <1>3, <2>1 DEF Row, Carries
<1> QED BY <1>1, <1>2, <1>3

\* The task ends, or a recovery goes on to its second part, with rows in their
\* places and perhaps new ones.
TaskEnds ==
  /\ UNCHANGED <<flapThreshold, worker>> /\ events' \in 0..MaxEvents
  /\ task' = NoTask \/ (task.does = "resolved" /\ Does("recovery", Of))
  /\ alert' \in [Alerts -> Alert] /\ rows' \in Seq(Row) /\ Len(rows') >= Len(rows)
  /\ alarm' \in [Alerts -> 0..Len(rows')]

LEMMA TaskAfter ==
  ASSUME TInv, TaskEnds
  PROVE  /\ task'.row = 0 /\ task'.does \in {"idle", "recovery"}
         /\ task'.does = "recovery" =>
              task.does = "resolved" /\ Of \in Alerts /\ task'.of = {Of} /\ Of' = Of
<1>1. CASE task' = NoTask
  BY <1>1 DEF NoTask
<1>2. CASE task.does = "resolved" /\ Does("recovery", Of)
  <2>1. task' = [does |-> "recovery", of |-> {Of}, row |-> 0]
    BY <1>2 DEF Does, NoTask
  <2>2. Of \in Alerts
    BY <1>2, OfTask DEF TInv
  <2>3. Of' = Of
    BY <2>1 DEF Of
  <2> QED BY <1>2, <2>1, <2>2, <2>3
<1> QED BY <1>1, <1>2 DEF TaskEnds

LEMMA TaskEndsTyped == ASSUME TInv, TaskEnds PROVE TInv'
<1>1. Len(rows) \in Nat /\ Len(rows') \in Nat
  BY DEF TInv, TypeOK, TaskEnds
<1>2. /\ task'.does \in {"idle", "recovery"} /\ task'.row = 0
      /\ task'.does # "idle" => \E a \in Alerts : task'.of = {a}
  BY TaskAfter
<1>3. TypeOK'
  BY <1>1, <1>2 DEF TInv, TypeOK, TaskEnds
<1> QED BY <1>2, <1>3 DEF TInv, Shape, TaskEnds

LEMMA TakenBack ==
  ASSUME AInv, TaskEnds, NEW a \in Alerts,
         \A i \in Rows : rows'[i] = Collapsed(rows[i], a),
         \A i \in Rows' \ Rows : rows'[i].status # "grouping" /\ rows'[i].digest = 0,
         alarm' = [alarm EXCEPT ![a] = 0]
  PROVE  Routed'
<1> USE DEF AInv, Routed
<1>1. Rows \subseteq Rows' /\ \A i \in Rows : rows[i] \in Row
  <2>1. Len(rows) \in Nat /\ Len(rows') \in Nat /\ Len(rows') >= Len(rows)
    BY DEF TInv, TypeOK, TaskEnds
  <2> QED BY <2>1, Typed DEF TInv, Rows
<1>2. \A i \in Rows : /\ rows'[i].kind = rows[i].kind /\ rows'[i].digest = rows[i].digest
                      /\ rows'[i].items = rows[i].items \/ rows'[i].items = rows[i].items \ {a}
                      /\ \/ rows'[i].status = rows[i].status
                         \/ rows'[i].status = "collapsed" /\ rows[i].items = {a}
                      /\ rows[i].kind \notin Outage => rows'[i] = rows[i]
  BY <1>1, CollapsedRow
<1>3. GroupsOpen'
  <2>1. ASSUME NEW i \in Rows', rows'[i].status = "grouping"
        PROVE  rows'[i].kind = "opened" /\ rows'[i].digest = 0
    BY <1>2, <2>1 DEF GroupsOpen
  <2> QED BY <2>1 DEF GroupsOpen
<1>4. DigestsTell'
  <2>1. ASSUME NEW i \in Rows', rows'[i].digest # 0
        PROVE  /\ rows'[i].digest \in Rows' /\ rows'[rows'[i].digest].kind = "digest"
               /\ \/ rows'[i].items \subseteq rows'[rows'[i].digest].items
                  \/ Cardinality(rows'[rows'[i].digest].items) = MaxItems
    <3>1. i \in Rows /\ rows[i].digest # 0 /\ rows'[i].digest = rows[i].digest
      BY <1>2, <2>1
    <3>2. PICK d \in Rows : d = rows[i].digest /\ InDigest(i, d)
      BY <3>1 DEF DigestsTell, InDigest
    <3>3. rows'[d] = rows[d]
      BY <1>2, <3>2 DEF InDigest, Outage
    <3> QED BY <1>1, <1>2, <3>1, <3>2, <3>3 DEF InDigest
  <2> QED BY <2>1 DEF DigestsTell, InDigest
<1>5. DigestInTask'
  BY TaskAfter DEF DigestInTask
<1>6. AlarmsKept'
  <2>1. ASSUME NEW x \in Alerts, alarm'[x] # 0
        PROVE  /\ x \in rows'[alarm'[x]].items
               /\ rows'[alarm'[x]].status = "collapsed" => rows'[alarm'[x]].digest # 0
    <3>1. x # a /\ alarm'[x] = alarm[x] /\ alarm[x] \in Rows
      BY <2>1 DEF TInv, TypeOK, Rows
    <3> QED BY <1>2, <2>1, <3>1 DEF AlarmsKept
  <2> QED BY <2>1 DEF AlarmsKept
<1> QED BY <1>3, <1>4, <1>5, <1>6

\* Nobody's row is changed, but for a group the alert is added to.
LEMMA Noticed ==
  ASSUME AInv, TaskEnds, NEW a \in Alerts,
         \A i \in Rows : \/ rows'[i] = rows[i]
                         \/ /\ rows[i].status = "grouping"
                            /\ rows'[i] = [rows[i] EXCEPT !.items = @ \cup {a}],
         \A i \in Rows' \ Rows : /\ rows'[i].status = "grouping" => rows'[i].kind = "opened"
                                 /\ rows'[i].digest = 0,
         \A x \in Alerts \ {a} : alarm'[x] = alarm[x],
         \/ alarm'[a] \in {alarm[a], 0}
         \/ a \in rows'[alarm'[a]].items /\ rows'[alarm'[a]].status # "collapsed"
  PROVE  Routed'
<1> USE DEF AInv, Routed
<1>1. Rows \subseteq Rows' /\ \A i \in Rows : rows[i] \in Row
  <2>1. Len(rows) \in Nat /\ Len(rows') \in Nat /\ Len(rows') >= Len(rows)
    BY DEF TInv, TypeOK, TaskEnds
  <2> QED BY <2>1, Typed DEF TInv, Rows
<1>2. \A i \in Rows : /\ rows'[i].kind = rows[i].kind /\ rows'[i].digest = rows[i].digest
                      /\ rows'[i].status = rows[i].status
                      /\ rows[i].items \subseteq rows'[i].items
                      /\ rows[i].status # "grouping" => rows'[i] = rows[i]
  <2>1. ASSUME NEW r \in Row, NEW c, c = [r EXCEPT !.items = @ \cup {a}]
        PROVE  /\ c.kind = r.kind /\ c.digest = r.digest /\ c.status = r.status
               /\ r.items \subseteq c.items
    BY <2>1 DEF Row
  <2> QED BY <1>1, <2>1
<1>3. GroupsOpen'
  <2>1. ASSUME NEW i \in Rows', rows'[i].status = "grouping"
        PROVE  rows'[i].kind = "opened" /\ rows'[i].digest = 0
    BY <1>2, <2>1 DEF GroupsOpen
  <2> QED BY <2>1 DEF GroupsOpen
<1>4. DigestsTell'
  <2>1. ASSUME NEW i \in Rows', rows'[i].digest # 0
        PROVE  /\ rows'[i].digest \in Rows' /\ rows'[rows'[i].digest].kind = "digest"
               /\ \/ rows'[i].items \subseteq rows'[rows'[i].digest].items
                  \/ Cardinality(rows'[rows'[i].digest].items) = MaxItems
    <3>1. i \in Rows /\ rows[i].digest # 0 /\ rows'[i].digest = rows[i].digest
      BY <1>2, <2>1
    <3>2. PICK d \in Rows : d = rows[i].digest /\ InDigest(i, d)
      BY <3>1 DEF DigestsTell, InDigest
    <3>3. rows'[i] = rows[i] /\ rows'[d] = rows[d]
      BY <1>2, <3>1, <3>2 DEF GroupsOpen, InDigest
    <3> QED BY <1>1, <1>2, <3>1, <3>2, <3>3 DEF InDigest
  <2> QED BY <2>1 DEF DigestsTell, InDigest
<1>5. DigestInTask'
  BY TaskAfter DEF DigestInTask
<1>6. AlarmsKept'
  <2>1. ASSUME NEW x \in Alerts, alarm'[x] # 0
        PROVE  /\ x \in rows'[alarm'[x]].items
               /\ rows'[alarm'[x]].status = "collapsed" => rows'[alarm'[x]].digest # 0
    <3>1. CASE alarm'[x] = alarm[x]
      <4>1. alarm[x] \in Rows
        BY <2>1, <3>1 DEF TInv, TypeOK, Rows
      <4> QED BY <1>2, <2>1, <3>1, <4>1 DEF AlarmsKept
    <3>2. CASE alarm'[x] # alarm[x]
      BY <2>1, <3>2
    <3> QED BY <3>1, <3>2
  <2> QED BY <2>1 DEF AlarmsKept
<1> QED BY <1>3, <1>4, <1>5, <1>6

\* What routing leaves of the alerts: their states.
LEMMA AlertsSame ==
  ASSUME OverWhenDue,
         task'.does \in {"resolved", "recovery"} =>
           task.does = "resolved" /\ Of' = Of /\ Of \in Alerts,
         \A x \in Alerts : /\ alert'[x].state = alert[x].state /\ alert'[x].due = alert[x].due
                           /\ alert'[x].outage = alert[x].outage
                           /\ alert'[x].flapping = alert[x].flapping
  PROVE  OverWhenDue'
BY DEF OverWhenDue

LEMMA RoutedAll ==
  ASSUME AInv, TaskEnds, Routed', RowsKeep,
         \A x \in Alerts : /\ alert'[x].state = alert[x].state /\ alert'[x].due = alert[x].due
                           /\ alert'[x].outage = alert[x].outage
                           /\ alert'[x].flapping = alert[x].flapping
  PROVE  AInv'
<1>1. worker'.says = worker.says
  BY DEF TaskEnds
<1>2. TInv'
  BY TaskEndsTyped DEF AInv
<1>3. OverWhenDue'
  BY TaskAfter, AlertsSame DEF AInv
<1>4. NoEarlyAllClear' /\ NoAlarmAfterAllClear'
  BY <1>1, RowsKeepTold
<1> QED BY <1>2, <1>3, <1>4 DEF AInv

LEMMA NotifiedSame ==
  ASSUME TInv, Of \in Alerts, Notified
  PROVE  /\ alert' \in [Alerts -> Alert]
         /\ \A x \in Alerts : /\ alert'[x].state = alert[x].state /\ alert'[x].due = alert[x].due
                              /\ alert'[x].outage = alert[x].outage
                              /\ alert'[x].flapping = alert[x].flapping
<1> DEFINE a == Of
<1>1. alert' = [alert EXCEPT ![a].notified = TRUE] /\ a \in Alerts
  BY DEF Notified
<1> HIDE DEF a
<1>2. alert \in [Alerts -> Alert]
  BY DEF TInv, TypeOK
<1> QED BY <1>1, <1>2 DEF Alert

\* A row routed now.
LEMMA NewRowTyped ==
  ASSUME NEW kind \in Kinds, NEW items \in SUBSET Alerts,
         NEW status \in {"queued", "grouping"}, NEW n \in Nat
  PROVE  NewRow(kind, items, status, n) \in Row
BY DEF NewRow, Row, Unsent

LEMMA Appended ==
  ASSUME NEW s \in Seq(Row), NEW r \in Row, Len(s) = Len(rows)
  PROVE  /\ Append(s, r) \in Seq(Row) /\ Len(Append(s, r)) = Len(rows) + 1
         /\ Append(s, r)[Len(rows) + 1] = r
         /\ \A i \in Rows : Append(s, r)[i] = s[i]
         /\ 1..Len(Append(s, r)) = Rows \cup {Len(rows) + 1}
BY DEF Rows

LEMMA RouteNobodyKeeps ==
  ASSUME AInv, RouteNobody, UNCHANGED flapThreshold PROVE AInv'
<1> USE DEF AInv, TInv
<1>1. Of \in Alerts
  BY OfTask DEF RouteNobody, Outage
<1>2. /\ UNCHANGED <<alert, rows, worker>> /\ task' = NoTask /\ Rows' = Rows
      /\ events' \in 0..MaxEvents
      /\ alarm' = [alarm EXCEPT ![Of] = IF task.does = "opened" THEN 0 ELSE @]
  BY HappensTyped DEF RouteNobody, Rows
<1>3. /\ alarm' \in [Alerts -> 0..Len(rows)] /\ alarm'[Of] \in {alarm[Of], 0}
      /\ \A x \in Alerts \ {Of} : alarm'[x] = alarm[x]
  BY <1>1, <1>2, Typed DEF TypeOK
<1>4. TaskEnds
  BY <1>2, <1>3, Typed DEF TaskEnds, TypeOK
<1>5. Routed'
  BY <1>1, <1>2, <1>3, <1>4, Noticed
<1>6. RowsKeep
  BY <1>2 DEF RowsKeep, RowKeeps
<1> QED BY <1>2, <1>4, <1>5, <1>6, RoutedAll

LEMMA AddToGroupKeeps ==
  ASSUME AInv, AddToGroup, UNCHANGED flapThreshold PROVE AInv'
<1> USE DEF AInv, TInv
<1> DEFINE g == Max(OpenGroups)
           a == Of
<1>1. a \in Alerts
  BY OfTask DEF AddToGroup, JoinsGroup
<1>2. g \in Rows /\ rows[g].status = "grouping"
  BY GroupIn DEF AddToGroup, JoinsGroup
<1>3. /\ UNCHANGED <<worker, events>> /\ task' = NoTask /\ alarm' = [alarm EXCEPT ![a] = g]
      /\ rows' = [rows EXCEPT ![g].items = @ \cup {a}]
  BY DEF AddToGroup
<1>4. /\ alert' \in [Alerts -> Alert]
      /\ \A x \in Alerts : /\ alert'[x].state = alert[x].state /\ alert'[x].due = alert[x].due
                           /\ alert'[x].outage = alert[x].outage
                           /\ alert'[x].flapping = alert[x].flapping
  BY <1>1, NotifiedSame DEF AddToGroup
<1> HIDE DEF g, a
<1>5. rows \in Seq(Row) /\ rows[g] \in Row
  BY <1>2, Typed DEF TypeOK
<1>6. [rows[g] EXCEPT !.items = @ \cup {a}] \in Row
  BY <1>1, <1>5 DEF Row
<1>7. /\ rows' \in Seq(Row) /\ Len(rows') = Len(rows) /\ Rows' = Rows
      /\ rows'[g] = [rows[g] EXCEPT !.items = @ \cup {a}]
      /\ \A i \in Rows \ {g} : rows'[i] = rows[i]
  <2> DEFINE r == [rows[g] EXCEPT !.items = @ \cup {a}]
  <2>1. rows' = [rows EXCEPT ![g] = r] /\ r \in Row
    BY <1>3, <1>6
  <2> HIDE DEF r
  <2>2. /\ rows' \in Seq(Row) /\ Len(rows') = Len(rows) /\ Rows' = Rows
        /\ rows'[g] = r /\ \A i \in Rows \ {g} : rows'[i] = rows[i]
    BY <1>2, <2>1, RowSaved
  <2> QED BY <2>2 DEF r
<1>8. /\ rows'[g].kind = rows[g].kind /\ rows'[g].status = "grouping"
      /\ a \in rows'[g].items
  BY <1>2, <1>5, <1>7 DEF Row
<1>9. TaskEnds
  <2>1. Len(rows) \in Nat /\ g \in 0..Len(rows)
    BY <1>2, Typed DEF Rows
  <2>2. alarm' \in [Alerts -> 0..Len(rows)]
    BY <1>1, <1>3, <2>1 DEF TypeOK
  <2> QED BY <1>3, <1>4, <1>7, <2>1, <2>2 DEF TaskEnds, TypeOK
<1>10. alarm'[a] = g /\ \A x \in Alerts \ {a} : alarm'[x] = alarm[x]
  BY <1>1, <1>3 DEF TypeOK
<1>11. Routed'
  BY <1>1, <1>2, <1>7, <1>8, <1>9, <1>10, Noticed
<1>12. RowsKeep
  <2>1. rows[g].kind = "opened"
    BY <1>2 DEF Routed, GroupsOpen
  <2> QED BY <1>7, <1>8, <2>1 DEF RowsKeep, RowKeeps
<1> QED BY <1>4, <1>9, <1>11, <1>12, RoutedAll

LEMMA RouteOutageKeeps ==
  ASSUME AInv, RouteOutage, UNCHANGED flapThreshold PROVE AInv'
<1> USE DEF AInv, TInv
<1> DEFINE a == Of
           n == Len(rows) + 1
           status == IF task.does = "opened" /\ Grouping THEN "grouping" ELSE "queued"
           new == NewRow(task.does, {a}, status, alert[a].outage)
<1>1. a \in Alerts /\ task.does \in Outage
  BY OfTask DEF RouteOutage, Outage
<1>2. /\ UNCHANGED <<worker, events>> /\ task' = NoTask
      /\ alarm' = [alarm EXCEPT ![a] = IF task.does = "opened" THEN n ELSE @]
      /\ rows' = Append(rows, new)
  BY DEF RouteOutage
<1>3. /\ alert' \in [Alerts -> Alert]
      /\ \A x \in Alerts : /\ alert'[x].state = alert[x].state /\ alert'[x].due = alert[x].due
                           /\ alert'[x].outage = alert[x].outage
                           /\ alert'[x].flapping = alert[x].flapping
  BY <1>1, NotifiedSame DEF RouteOutage
<1>4. status \in {"queued", "grouping"} /\ (status = "grouping" => task.does = "opened")
  OBVIOUS
<1>5. new \in Row
  <2>1. task.does \in Kinds /\ alert[a].outage \in Nat /\ {a} \in SUBSET Alerts
    BY <1>1 DEF Outage, Kinds, TypeOK, Alert
  <2> QED BY <1>4, <2>1, NewRowTyped
<1>6. /\ new.kind = task.does /\ new.items = {a} /\ new.status = status /\ new.digest = 0
  BY DEF NewRow
<1> HIDE DEF a, status, new
<1>7. /\ rows' \in Seq(Row) /\ Len(rows') = n /\ rows'[n] = new
      /\ \A i \in Rows : rows'[i] = rows[i]
      /\ Rows' = Rows \cup {n}
  BY <1>2, <1>5, Appended DEF TypeOK, Rows
<1>8. /\ Len(rows) \in Nat /\ alarm' \in [Alerts -> 0..n]
      /\ \A x \in Alerts \ {a} : alarm'[x] = alarm[x]
      /\ alarm'[a] \in {alarm[a], n}
  BY <1>1, <1>2, Typed DEF TypeOK
<1>9. TaskEnds
  BY <1>2, <1>3, <1>7, <1>8 DEF TaskEnds, TypeOK
<1>10. Routed'
  BY <1>1, <1>4, <1>6, <1>7, <1>8, <1>9, Noticed
<1>11. RowsKeep
  BY <1>1, <1>6, <1>7 DEF RowsKeep, RowKeeps, Outage
<1> QED BY <1>3, <1>9, <1>10, <1>11, RoutedAll

LEMMA UnroutedRows ==
  ASSUME TypeOK, NEW a \in Alerts
  PROVE  /\ Unrouted(a) \in Seq(Row) /\ Len(Unrouted(a)) = Len(rows)
         /\ \A i \in Rows : Unrouted(a)[i] = Collapsed(rows[i], a)
<1> DEFINE u == Unrouted(a)
<1>1. u = [i \in Rows |-> Collapsed(rows[i], a)]
  BY DEF Unrouted, Rows
<1>2. \A i \in Rows : Collapsed(rows[i], a) \in Row
  BY Typed, CollapsedRow
<1> HIDE DEF u
<1>3. u \in Seq(Row) /\ Len(u) = Len(rows)
  BY <1>1, <1>2, RowsTyped
<1> QED BY <1>1, <1>3 DEF u

LEMMA TakeBackKeeps ==
  ASSUME AInv, CollapseUnsent \/ RouteRecovery, UNCHANGED flapThreshold PROVE AInv'
<1> USE DEF AInv, TInv
<1> DEFINE a == Of
<1>1. a \in Alerts
  BY OfTask DEF CollapseUnsent, RouteRecovery
<1>2. /\ UNCHANGED <<alert, worker, events>> /\ alarm' = [alarm EXCEPT ![a] = 0]
      /\ task' = NoTask \/ (task.does = "resolved" /\ Does("recovery", Of))
      /\ rows' = Unrouted(a)
  BY DEF CollapseUnsent, RouteRecovery
<1> HIDE DEF a
<1>3. /\ rows' \in Seq(Row) /\ Len(rows') = Len(rows) /\ Rows' = Rows
      /\ \A i \in Rows : rows'[i] = Collapsed(rows[i], a)
  BY <1>1, <1>2, UnroutedRows DEF Rows
<1>4. TaskEnds
  <2>1. alarm' \in [Alerts -> 0..Len(rows')]
    BY <1>1, <1>2, <1>3, Typed DEF TypeOK
  <2> QED BY <1>2, <1>3, <2>1, Typed DEF TaskEnds, TypeOK
<1>5. Routed'
  BY <1>1, <1>2, <1>3, <1>4, TakenBack
<1>6. RowsKeep
  <2>1. ASSUME NEW i \in Rows, rows'[i].kind = "resolved" PROVE RowKeeps(i)
    <3>1. rows[i] \in Row /\ rows'[i] = Collapsed(rows[i], a)
      BY <1>3, Typed
    <3>2. rows'[i] = rows[i]
      BY <1>1, <2>1, <3>1, CollapsedRow DEF Outage
    <3> QED BY <3>2 DEF RowKeeps
  <2> QED BY <1>3, <2>1 DEF RowsKeep
<1> QED BY <1>2, <1>4, <1>5, <1>6, RoutedAll

\* The all-clear of what is over by now.
LEMMA TellRecoveryKeeps ==
  ASSUME AInv, TellRecovery, UNCHANGED flapThreshold PROVE AInv'
<1> USE DEF AInv, TInv
<1> DEFINE a == Of
           new == NewRow("resolved", {a}, "queued", alert[a].outage)
<1>1. a \in Alerts
  BY OfTask DEF TellRecovery
<1>2. /\ UNCHANGED <<alert, worker, alarm, events>> /\ task' = NoTask
      /\ rows' = rows \/ rows' = Append(rows, new)
  BY DEF TellRecovery
<1>3. new \in Row /\ alert[a].outage \in Nat
  <2>1. "resolved" \in Kinds /\ alert[a].outage \in Nat /\ {a} \in SUBSET Alerts
    BY <1>1 DEF Kinds, TypeOK, Alert
  <2> QED BY <2>1, NewRowTyped
<1>4. /\ new.kind = "resolved" /\ new.items = {a} /\ new.status = "queued" /\ new.digest = 0
      /\ new.outage = alert[a].outage
  BY DEF NewRow
<1>5. alert[a].state = "resolved"
  BY DEF OverWhenDue, TellRecovery
<1> HIDE DEF a, new
<1>6. /\ rows' \in Seq(Row) /\ Len(rows') \in {Len(rows), Len(rows) + 1}
      /\ \A i \in Rows : rows'[i] = rows[i]
      /\ \A i \in Rows' \ Rows : rows'[i] = new
  <2>1. CASE rows' = rows
    BY <2>1 DEF TypeOK, Rows
  <2>2. CASE rows' = Append(rows, new)
    <3>1. Rows' = Rows \cup {Len(rows) + 1}
      BY <1>3, <2>2, Appended DEF TypeOK, Rows
    <3> QED BY <1>3, <2>2, <3>1, Appended DEF TypeOK
  <2> QED BY <1>2, <2>1, <2>2
<1>7. TaskEnds
  <2>1. Len(rows) \in Nat /\ Len(rows') >= Len(rows)
    BY <1>6, Typed
  <2>2. alarm' \in [Alerts -> 0..Len(rows')]
    BY <1>2, <1>6, <2>1 DEF TypeOK
  <2> QED BY <1>2, <1>6, <2>1, <2>2 DEF TaskEnds, TypeOK
<1>8. Routed'
  BY <1>1, <1>2, <1>4, <1>6, <1>7, Noticed
<1>9. RowsKeep
  <2>1. ASSUME NEW i \in Rows' \ Rows PROVE RowKeeps(i)
    <3>1. rows'[i] = new
      BY <1>6, <2>1
    <3>2. rows'[i].status # "sent" /\ rows'[i].outage <= alert[a].outage
      BY <1>3, <1>4, <3>1
    <3>3. \A x \in Alerts : rows'[i].items = {x} => x = a
      BY <1>4, <3>1
    <3> QED BY <1>5, <3>1, <3>2, <3>3 DEF RowKeeps
  <2>2. ASSUME NEW i \in Rows, rows'[i].kind = "resolved" PROVE RowKeeps(i)
    BY <1>6, <2>2 DEF RowKeeps
  <2> QED BY <2>1, <2>2 DEF RowsKeep
<1> QED BY <1>2, <1>7, <1>8, <1>9, RoutedAll

LEMMA DigestKeeps ==
  ASSUME AInv, CollapseIntoDigest, UNCHANGED flapThreshold PROVE AInv'
<1> USE DEF AInv, TInv
<1> DEFINE d == task.row
           into(i) == [rows[i] EXCEPT !.status = "collapsed", !.digest = d]
<1>1. /\ task.does = "digest" /\ task' = NoTask /\ UNCHANGED <<alert, worker, alarm, events>>
      /\ rows' = [i \in Rows |-> IF i \in task.of THEN into(i) ELSE rows[i]]
  BY DEF CollapseIntoDigest, Rows
<1>2. \A i \in task.of : i \in Rows /\ InDigest(i, d)
  BY <1>1 DEF Routed, DigestInTask
<1>3. d \in Nat /\ (d = 0 => task.of = {})
  <2>1. d \in Nat
    BY Typed DEF TypeOK
  <2> QED BY <1>2, <2>1, Typed DEF InDigest, Rows
<1>4. ASSUME NEW i \in Rows
      PROVE  /\ into(i) \in Row /\ into(i).kind = rows[i].kind /\ into(i).items = rows[i].items
             /\ into(i).outage = rows[i].outage /\ into(i).digest = d
             /\ into(i).status = "collapsed"
  <2>1. ASSUME NEW r \in Row, NEW c, c = [r EXCEPT !.status = "collapsed", !.digest = d]
        PROVE  /\ c \in Row /\ c.kind = r.kind /\ c.items = r.items /\ c.outage = r.outage
               /\ c.digest = d /\ c.status = "collapsed"
    <3> HIDE DEF d
    <3> QED BY <1>3, <2>1 DEF Row, Ended
  <2> QED BY <1>4, <2>1, Typed
<1>5. /\ rows' \in Seq(Row) /\ Len(rows') = Len(rows) /\ Rows' = Rows
      /\ \A i \in Rows : rows'[i] = IF i \in task.of THEN into(i) ELSE rows[i]
  <2>1. \A i \in Rows : (IF i \in task.of THEN into(i) ELSE rows[i]) \in Row
    BY <1>4, Typed
  <2> HIDE DEF into
  <2>2. rows' \in Seq(Row) /\ Len(rows') = Len(rows)
    BY <1>1, <2>1, RowsTyped
  <2> QED BY <1>1, <2>2 DEF Rows
<1> HIDE DEF into, d
<1>6. \A i \in Rows : /\ rows'[i].kind = rows[i].kind /\ rows'[i].items = rows[i].items
                      /\ rows'[i].outage = rows[i].outage
                      /\ IF i \in task.of
                         THEN rows'[i].status = "collapsed" /\ rows'[i].digest = d
                         ELSE rows'[i] = rows[i]
  BY <1>4, <1>5
<1>7. TaskEnds
  BY <1>1, <1>5, Typed DEF TaskEnds, TypeOK
<1>8. Routed'
  <2>1. GroupsOpen'
    BY <1>5, <1>6 DEF Routed, GroupsOpen
  <2>2. \A i \in Rows : rows'[i].digest # 0 => InDigest(i, rows'[i].digest)
    BY <1>2, <1>6 DEF Routed, DigestsTell
  <2>3. DigestsTell'
    BY <1>5, <1>6, <2>2 DEF DigestsTell, InDigest
  <2>4. DigestInTask'
    BY <1>1 DEF DigestInTask, NoTask
  <2>5. AlarmsKept'
    <3>1. ASSUME NEW x \in Alerts, alarm[x] # 0 PROVE alarm[x] \in Rows
      BY <3>1 DEF TypeOK, Rows
    <3> QED BY <1>1, <1>3, <1>6, <3>1 DEF Routed, AlarmsKept
  <2> QED BY <2>1, <2>3, <2>4, <2>5 DEF Routed
<1>9. RowsKeep
  BY <1>5, <1>6 DEF RowsKeep, RowKeeps
<1> QED BY <1>1, <1>7, <1>8, <1>9, RoutedAll

----------------------------------------------------------------------------
\* The worker, the ticks, time and restarts: statuses are rewritten.

Stamped(i) ==
  /\ rows'[i].kind = rows[i].kind /\ rows'[i].items = rows[i].items
  /\ rows'[i].outage = rows[i].outage /\ rows'[i].digest = rows[i].digest
  /\ rows'[i].status = rows[i].status \/ rows'[i].status \notin {"grouping", "collapsed"}
  /\ rows'[i].status = "sent" => rows[i].status = "sent" \/ worker'.says = << >>

Stamp ==
  /\ UNCHANGED <<flapThreshold, alarm>> /\ events' \in 0..MaxEvents
  /\ alert' \in [Alerts -> Alert]
  /\ \A x \in Alerts : /\ alert'[x].state = alert[x].state /\ alert'[x].due = alert[x].due
                       /\ alert'[x].outage = alert[x].outage
                       /\ alert'[x].flapping = alert[x].flapping
  /\ task' \in {task, NoTask}
  /\ rows' \in Seq(Row) /\ Len(rows') = Len(rows) /\ \A i \in Rows : Stamped(i)

PassOK(w) ==
  /\ w = [todo |-> w.todo, at |-> w.at, row |-> w.row, says |-> w.says]
  /\ DOMAIN w.todo \subseteq Rows /\ w.row \in 0..Len(rows)
  /\ w.at \in {"idle", "next", "built", "sending"}
  /\ w.at \in {"built", "sending"} => w.row # 0

LEMMA StampKeeps ==
  ASSUME AInv, Stamp, PassOK(worker')
  PROVE  TInv' /\ Routed' /\ OverWhenDue'
<1> USE DEF AInv, TInv, Stamp
<1>1. Rows' = Rows /\ Len(rows) \in Nat
  BY Typed DEF Rows
<1>2. /\ task'.does \in {task.does, "idle"} /\ task'.row \in {task.row, 0}
      /\ task'.does # "idle" => task' = task
  BY DEF NoTask
<1>3. TypeOK'
  BY <1>1, <1>2 DEF TypeOK, PassOK, Rows
<1>4. Shape'
  BY <1>2 DEF Shape, PassOK
<1>5. GroupsOpen'
  BY <1>1 DEF Routed, GroupsOpen, Stamped
<1>6. \A i \in Rows : rows'[i].digest # 0 => InDigest(i, rows'[i].digest)
  BY DEF Routed, DigestsTell, Stamped
<1>7. DigestsTell'
  BY <1>1, <1>6 DEF DigestsTell, InDigest, Stamped
<1>8. DigestInTask'
  BY <1>1, <1>2 DEF Routed, DigestInTask, InDigest, Stamped
<1>9. AlarmsKept'
  <2>1. \A x \in Alerts : alarm[x] # 0 => alarm[x] \in Rows
    BY DEF TypeOK, Rows
  <2> QED BY <2>1 DEF Routed, AlarmsKept, Stamped
<1>10. OverWhenDue'
  <2>1. task'.does \in {"resolved", "recovery"} => task' = task
    BY <1>2
  <2>2. task'.does \in {"resolved", "recovery"} =>
          task'.does = task.does /\ Of' = Of /\ Of \in Alerts
    BY <2>1, OfTask DEF Of
  <2> QED BY <2>2 DEF OverWhenDue
<1> QED BY <1>3, <1>4, <1>5, <1>7, <1>8, <1>9, <1>10 DEF Routed

LEMMA StampTold ==
  ASSUME AInv, Stamp, PassOK(worker'), worker'.says \in {worker.says, << >>}
  PROVE  AInv'
<1>1. RowsKeep
  <2>1. Rows' = Rows
    BY DEF Stamp, Rows
  <2> QED BY <2>1 DEF Stamp, Stamped, RowsKeep, RowKeeps
<1>2. NoEarlyAllClear' /\ NoAlarmAfterAllClear'
  BY <1>1, RowsKeepTold DEF Stamp
<1> QED BY <1>2, StampKeeps DEF AInv

LEMMA PassNow == ASSUME TInv PROVE PassOK(worker) /\ PassOK(NoPass) /\ NoPass.says = << >>
<1>1. PassOK(worker)
  BY DEF TInv, TypeOK, Shape, PassOK, Rows
<1>2. NoPass = [todo |-> NoPass.todo, at |-> NoPass.at, row |-> NoPass.row,
                says |-> NoPass.says]
  BY DEF NoPass
<1>3. DOMAIN NoPass.todo = {} /\ NoPass.row = 0 /\ NoPass.at = "idle" /\ NoPass.says = << >>
  BY DEF NoPass
<1>4. Len(rows) \in Nat
  BY Typed DEF TInv
<1> QED BY <1>1, <1>2, <1>3, <1>4 DEF PassOK

LEMMA RestOK ==
  ASSUME TInv, NEW i PROVE PassOK(Rest(i)) /\ Rest(i).says = << >>
<1> DEFINE left == DOMAIN worker.todo \ {i}
           t == [k \in left |-> worker.todo[k]]
<1>1. left \subseteq Rows /\ DOMAIN t = left
  BY DEF TInv, TypeOK, Rows
<1>2. left # {} => Rest(i) = [todo |-> t, at |-> "next", row |-> 0, says |-> << >>]
  BY DEF Rest, NoPass
<1>3. left = {} => Rest(i) = NoPass
  BY DEF Rest
<1>4. Len(rows) \in Nat
  BY Typed DEF TInv
<1> HIDE DEF t
<1>5. CASE left # {}
  BY <1>1, <1>2, <1>4, <1>5 DEF PassOK
<1> QED BY <1>3, <1>5, PassNow

\* One status saved, of a row the worker or a tick has in hand.
LEMMA OneStamp ==
  ASSUME AInv, NEW i \in Rows, NEW status \in {"queued", "held", "retrying", "sending", "sent", "lost"},
         rows' = [rows EXCEPT ![i].status = status],
         status = "sent" => worker'.says = << >>,
         UNCHANGED <<flapThreshold, alert, task, alarm, events>>
  PROVE  Stamp
<1> USE DEF AInv, TInv
<1> DEFINE r == [rows[i] EXCEPT !.status = status]
<1>1. rows' = [rows EXCEPT ![i] = r] /\ rows[i] \in Row
  BY Typed
<1>2. /\ r \in Row /\ r.kind = rows[i].kind /\ r.items = rows[i].items
      /\ r.outage = rows[i].outage /\ r.digest = rows[i].digest /\ r.status = status
  <2>1. ASSUME NEW q \in Row, NEW c, c = [q EXCEPT !.status = status]
        PROVE  /\ c \in Row /\ c.kind = q.kind /\ c.items = q.items
               /\ c.outage = q.outage /\ c.digest = q.digest /\ c.status = status
    BY <2>1 DEF Row, Unsent, Ended
  <2> QED BY <1>1, <2>1
<1> HIDE DEF r
<1>3. /\ rows' \in Seq(Row) /\ Len(rows') = Len(rows)
      /\ rows'[i] = r /\ \A k \in Rows \ {i} : rows'[k] = rows[k]
  BY <1>1, <1>2, RowSaved
<1>4. \A k \in Rows : Stamped(k)
  BY <1>2, <1>3 DEF Stamped
<1> QED BY <1>3, <1>4 DEF Stamp, TypeOK

LEMMA ManyStamped ==
  ASSUME AInv, NEW S, NEW status \in {"queued", "retrying"},
         rows' = [i \in Rows |-> IF i \in S THEN [rows[i] EXCEPT !.status = status] ELSE rows[i]]
  PROVE  rows' \in Seq(Row) /\ Len(rows') = Len(rows) /\ \A i \in Rows : Stamped(i)
<1> USE DEF AInv, TInv
<1> DEFINE new(i) == IF i \in S THEN [rows[i] EXCEPT !.status = status] ELSE rows[i]
<1>1. ASSUME NEW q \in Row, NEW c, c = [q EXCEPT !.status = status]
      PROVE  /\ c \in Row /\ c.kind = q.kind /\ c.items = q.items
             /\ c.outage = q.outage /\ c.digest = q.digest /\ c.status = status
  BY <1>1 DEF Row, Unsent, Ended
<1>2. ASSUME NEW i \in Rows
      PROVE  /\ new(i) \in Row /\ new(i).kind = rows[i].kind /\ new(i).items = rows[i].items
             /\ new(i).outage = rows[i].outage /\ new(i).digest = rows[i].digest
             /\ new(i).status \in {rows[i].status, status}
  BY <1>1, Typed
<1>3. rows' = [i \in Rows |-> new(i)]
  OBVIOUS
<1> HIDE DEF new
<1>4. rows' \in Seq(Row) /\ Len(rows') = Len(rows)
  BY <1>2, <1>3, RowsTyped
<1>5. \A i \in Rows : rows'[i] = new(i)
  BY <1>3
<1> QED BY <1>2, <1>4, <1>5 DEF Stamped

LEMMA WorkerKeeps ==
  ASSUME AInv, UNCHANGED flapThreshold,
         \/ BeginPass \/ Send \/ Sent \/ NotSent
         \/ \E i \in Rows : GiveUp(i) \/ Hold(i)
  PROVE  AInv'
<1> USE DEF AInv, TInv
<1>1. CASE BeginPass
  <2>1. PICK again \in SUBSET Retrying :
          worker' = [NoPass EXCEPT !.at = "next",
                       !.todo = [i \in Queued \cup again |-> rows[i].items]]
    BY <1>1 DEF BeginPass
  <2> DEFINE t == [i \in Queued \cup again |-> rows[i].items]
  <2>2. DOMAIN t \subseteq Rows
    BY DEF Queued, Retrying, Rows
  <2>3. worker' = [todo |-> t, at |-> "next", row |-> 0, says |-> << >>]
    BY <2>1 DEF NoPass
  <2> HIDE DEF t
  <2>4. PassOK(worker') /\ worker'.says = << >>
    BY <2>2, <2>3, Typed DEF PassOK
  <2>5. Stamp
    BY <1>1 DEF BeginPass, Stamp, Stamped, TypeOK
  <2> QED BY <2>4, <2>5, StampTold
<1>2. CASE Send
  <2>1. /\ worker' = [worker EXCEPT !.at = "sending"] /\ worker.row \in Rows
        /\ UNCHANGED <<alert, task, alarm, events>>
        /\ rows' = [rows EXCEPT ![worker.row].status = "sending"]
    BY <1>2, Typed DEF Send, TypeOK, Shape, Rows
  <2>2. worker' = [todo |-> worker.todo, at |-> "sending", row |-> worker.row,
                   says |-> worker.says]
    BY <2>1 DEF Shape
  <2>3. PassOK(worker') /\ worker'.says = worker.says
    <3>1. DOMAIN worker.todo \subseteq Rows /\ worker.row # 0 /\ worker.row \in 0..Len(rows)
      BY <2>1, Typed DEF TypeOK, Rows
    <3> QED BY <2>2, <3>1 DEF PassOK
  <2>4. Stamp
    BY <2>1, OneStamp
  <2> QED BY <2>3, <2>4, StampTold
<1>3. ASSUME NEW i \in Rows, NEW status \in {"held", "retrying", "sent", "lost"},
             Leave(i, status), UNCHANGED <<alert, task, alarm, events>>
      PROVE  AInv'
  <2>1. worker' = Rest(i) /\ rows' = [rows EXCEPT ![i].status = status]
    BY <1>3 DEF Leave
  <2>2. PassOK(worker') /\ worker'.says = << >>
    BY <2>1, RestOK
  <2>3. Stamp
    BY <1>3, <2>1, <2>2, OneStamp
  <2> QED BY <2>2, <2>3, StampTold
<1>4. worker.at = "sending" => worker.row \in Rows
  BY Typed DEF Shape, TypeOK, Rows
<1>5. CASE Sent \/ NotSent
  BY <1>3, <1>4, <1>5 DEF Sent, NotSent
<1>6. ASSUME NEW i \in Rows, GiveUp(i) \/ Hold(i) PROVE AInv'
  BY <1>3, <1>6 DEF GiveUp, Hold
<1> QED BY <1>1, <1>2, <1>5, <1>6

\* A message is built: an alarm says of an alert that it is down only while it is.
LEMMA BuildKeeps ==
  ASSUME AInv, NEW i \in Rows, Build(i), UNCHANGED flapThreshold PROVE AInv'
<1> USE DEF AInv, TInv
<1> DEFINE items == worker.todo[i]
           says == [a \in items |-> WordsFor(rows[i].kind, items, a)]
<1>1. /\ UNCHANGED <<alert, rows, task, alarm, events>>
      /\ worker' = [worker EXCEPT !.at = "built", !.row = i, !.says = says]
  BY DEF Build
<1>2. ASSUME NEW a \in Alerts, says = [x \in {a} |-> "down"] PROVE alert[a].state # "resolved"
  <2>1. items = {a} /\ says[a] = "down"
    <3>1. DOMAIN says = items /\ DOMAIN [x \in {a} |-> "down"] = {a}
      OBVIOUS
    <3> HIDE DEF says
    <3> QED BY <1>2, <3>1
  <2>2. WordsFor(rows[i].kind, {a}, a) = "down"
    BY <2>1
  <2>3. Cardinality({a}) = 1
    BY FS_Singleton
  <2>4. rows[i].kind \in Kinds
    BY Typed DEF Row
  <2> QED BY <2>2, <2>3, <2>4 DEF WordsFor, Kinds
<1> HIDE DEF says
<1>3. worker' = [todo |-> worker.todo, at |-> "built", row |-> i, says |-> says]
  BY <1>1 DEF Shape
<1>4. PassOK(worker')
  BY <1>3, Typed DEF PassOK, TypeOK, Rows
<1>5. Stamp /\ Rows' = Rows
  BY <1>1 DEF Stamp, Stamped, TypeOK, Rows
<1>6. RowsKeep
  BY <1>1, <1>5 DEF RowsKeep, RowKeeps
<1>7. NoEarlyAllClear'
  BY <1>1, <1>5 DEF NoEarlyAllClear, Recovery
<1>8. NoAlarmAfterAllClear'
  BY <1>1, <1>2, <1>3 DEF NoAlarmAfterAllClear, AllClear
<1> QED BY <1>4, <1>5, <1>7, <1>8, StampKeeps

LEMMA TicksKeep ==
  ASSUME AInv, Ticks, UNCHANGED flapThreshold PROVE AInv'
<1> USE DEF AInv, TInv
<1>1. CASE ReleaseGroup
  <2>1. /\ UNCHANGED <<alert, task, worker, alarm, events>>
        /\ rows' = [i \in Rows |-> IF i \in OpenGroups
                                   THEN [rows[i] EXCEPT !.status = "queued"] ELSE rows[i]]
    BY <1>1 DEF ReleaseGroup, Rows
  <2>2. Stamp
    BY <2>1, ManyStamped DEF Stamp, TypeOK
  <2> QED BY <2>1, <2>2, PassNow, StampTold
<1>2. CASE ReleaseHeld
  <2>1. /\ UNCHANGED <<alert, task, worker, alarm, events>> /\ Cardinality(Held) = 1
        /\ rows' = [rows EXCEPT ![Min(Held)].status = "queued"]
    BY <1>2 DEF ReleaseHeld
  <2>2. PICK h : Held = {h}
    <3>1. IsFiniteSet(1..Len(rows))
      BY Typed, FS_Interval
    <3>2. IsFiniteSet(Held)
      BY <3>1, FS_Subset DEF Held
    <3> QED BY <2>1, <3>2, FS_Singleton
  <2>3. h \in Rows /\ h \in Nat
    BY <2>2, Typed DEF Held, Rows
  <2>4. Min(Held) = h
    BY <2>2, <2>3 DEF Min
  <2>5. Stamp
    BY <2>1, <2>3, <2>4, OneStamp
  <2> QED BY <2>1, <2>5, PassNow, StampTold
<1>3. CASE CreateDigest
  <2> DEFINE n == Len(rows) + 1
  <2>0. PICK items \in FirstItems(Held) :
          rows' = Append(rows, NewRow("digest", items, "queued", 0))
    BY <1>3 DEF CreateDigest
  <2> DEFINE new == NewRow("digest", items, "queued", 0)
  <2>1. /\ UNCHANGED <<alert, worker, alarm, events>> /\ rows' = Append(rows, new)
        /\ task' = [does |-> "digest", of |-> Held, row |-> n]
    BY <1>3, <2>0 DEF CreateDigest
  <2>2. /\ items \subseteq ItemsOf(Held)
        /\ \A i \in Held : i \in Rows /\ rows[i].status = "held"
        /\ \A i \in Held : rows[i].items \subseteq items \/ Cardinality(items) = MaxItems
    <3>1. items = ItemsOf(Held) \/ (items \subseteq ItemsOf(Held) /\ Cardinality(items) = MaxItems)
      BY DEF FirstItems
    <3>2. \A i \in Held : i \in Rows /\ rows[i].status = "held" /\ rows[i].items \subseteq ItemsOf(Held)
      BY DEF Held, Rows, ItemsOf
    <3> QED BY <3>1, <3>2
  <2>3. new \in Row
    <3>1. \A i \in Held : rows[i].items \subseteq Alerts
      BY <2>2, Typed DEF Row
    <3>2. ItemsOf(Held) \subseteq Alerts
      BY <3>1 DEF ItemsOf
    <3>3. items \subseteq Alerts
      BY <2>2, <3>2
    <3> QED BY <3>3, NewRowTyped DEF Kinds
  <2>4. new.kind = "digest" /\ new.items = items /\ new.status = "queued" /\ new.digest = 0
    BY DEF NewRow
  <2> HIDE DEF new
  <2>5. /\ rows' \in Seq(Row) /\ Len(rows') = n /\ rows'[n] = new /\ n \in Nat \ {0}
        /\ \A i \in Rows : rows'[i] = rows[i]
        /\ Rows' = Rows \cup {n} /\ n \notin Rows
    BY <2>1, <2>3, Appended, Typed DEF TypeOK, Rows
  <2>6. TInv'
    <3>1. TypeOK'
      BY <2>1, <2>5, Typed DEF TypeOK, Rows
    <3> QED BY <2>1, <3>1 DEF Shape
  <2>7. GroupsOpen'
    BY <2>4, <2>5 DEF Routed, GroupsOpen
  <2>8. DigestsTell'
    BY <2>4, <2>5 DEF Routed, DigestsTell, InDigest
  <2>9. DigestInTask'
    <3>1. task'.of = Held /\ task'.row = n
      BY <2>1
    <3> HIDE DEF n
    <3>2. ASSUME NEW i \in Held
          PROVE  i \in Rows' /\ rows'[i].status # "grouping" /\ n \in Rows'
                 /\ rows'[n].kind = "digest"
                 /\ \/ rows'[i].items \subseteq rows'[n].items
                    \/ Cardinality(rows'[n].items) = MaxItems
      <4>1. rows'[i] = rows[i] /\ rows'[n] = new /\ i \in Rows' /\ n \in Rows'
        BY <2>2, <2>5, <3>2
      <4>2. rows[i].items \subseteq new.items \/ Cardinality(new.items) = MaxItems
        BY <2>2, <2>4, <3>2
      <4>3. rows[i].status = "held"
        BY <2>2, <3>2
      <4> QED BY <2>4, <4>1, <4>2, <4>3
    <3> QED BY <3>1, <3>2 DEF DigestInTask, InDigest
  <2>10. AlarmsKept'
    <3>1. \A x \in Alerts : alarm[x] # 0 => alarm[x] \in Rows
      BY DEF TypeOK, Rows
    <3> QED BY <2>1, <2>5, <3>1 DEF Routed, AlarmsKept
  <2>11. OverWhenDue'
    BY <2>1, AlertsSame
  <2>12. RowsKeep
    BY <2>4, <2>5 DEF RowsKeep, RowKeeps
  <2>13. NoEarlyAllClear' /\ NoAlarmAfterAllClear'
    BY <2>1, <2>12, RowsKeepTold
  <2> QED BY <2>6, <2>7, <2>8, <2>9, <2>10, <2>11, <2>13 DEF Routed
<1> QED BY <1>1, <1>2, <1>3 DEF Ticks

LEMMA TimeKeeps ==
  ASSUME AInv, Restart \/ (\E a \in Alerts : Calm(a)), UNCHANGED flapThreshold PROVE AInv'
<1> USE DEF AInv, TInv
<1>1. CASE Restart
  <2>1. PICK stale : rows' = [i \in Rows |-> IF i \in stale
                                             THEN [rows[i] EXCEPT !.status = "retrying"]
                                             ELSE rows[i]]
    BY <1>1 DEF Restart, Rows
  <2>2. Stamp
    BY <1>1, <2>1, ManyStamped, HappensTyped DEF Stamp, Restart, TypeOK
  <2>3. worker' = NoPass
    BY <1>1 DEF Restart
  <2> QED BY <2>2, <2>3, PassNow, StampTold
<1>2. ASSUME NEW a \in Alerts, Calm(a) PROVE AInv'
  <2>1. /\ alert' = [alert EXCEPT ![a].recent = FALSE]
        /\ UNCHANGED <<rows, task, worker, alarm, events>>
    BY <1>2 DEF Calm
  <2>2. /\ alert' \in [Alerts -> Alert]
        /\ \A x \in Alerts : /\ alert'[x].state = alert[x].state /\ alert'[x].due = alert[x].due
                             /\ alert'[x].outage = alert[x].outage
                             /\ alert'[x].flapping = alert[x].flapping
    BY <2>1 DEF TypeOK, Alert
  <2>3. Stamp
    BY <2>1, <2>2 DEF Stamp, Stamped, TypeOK
  <2> QED BY <2>1, <2>3, PassNow, StampTold
<1> QED BY <1>1, <1>2

LEMMA NextKeeps == ASSUME AInv, [Next]_vars PROVE AInv'
<1>1. CASE UNCHANGED vars
  <2>1. /\ TInv' /\ Routed' /\ OverWhenDue'
    BY <1>1 DEF AInv, vars, TInv, TypeOK, Shape, Routed, GroupsOpen, DigestsTell, InDigest,
                DigestInTask, AlarmsKept, OverWhenDue, Rows, Of
  <2> QED BY <1>1, <2>1 DEF AInv, vars, NoEarlyAllClear, Recovery, NoAlarmAfterAllClear,
                           AllClear, Rows
<1>2. CASE Routing /\ UNCHANGED flapThreshold
  BY <1>2, RouteNobodyKeeps, AddToGroupKeeps, RouteOutageKeeps, TakeBackKeeps, TellRecoveryKeeps,
           DigestKeeps
     DEF Routing
<1>3. CASE (Ticks \/ Passing \/ Restart) /\ UNCHANGED flapThreshold
  BY <1>3, TicksKeep, WorkerKeeps, BuildKeeps, TimeKeeps DEF Passing, Rows
<1>4. CASE (\E a \in Alerts : Events(a) \/ Recover(a) \/ Settle(a) \/ Calm(a))
           /\ UNCHANGED flapThreshold
  BY <1>4, EventKeeps, TimeKeeps
<1> QED BY <1>1, <1>2, <1>3, <1>4 DEF Next

LEMMA InitHolds == Init => AInv
<1> SUFFICES ASSUME Init PROVE AInv
  OBVIOUS
<1>1. Len(rows) = 0 /\ Rows = {} /\ rows \in Seq(Row)
  BY DEF Init, Rows
<1>2. \A a \in Alerts : /\ alert[a].state = "none" /\ ~alert[a].due /\ ~alert[a].flapping
                        /\ alert[a].outage = 0 /\ alarm[a] = 0
  BY DEF Init
<1>3. alert \in [Alerts -> Alert]
  BY DEF Init, Alert
<1>4. /\ task.does = "idle" /\ task.row = 0 /\ alarm \in [Alerts -> {0}]
      /\ worker = [todo |-> << >>, at |-> "idle", row |-> 0, says |-> << >>]
      /\ flapThreshold \in FlapThresholds /\ events = 0
  BY DEF Init, NoTask, NoPass
<1>5. TInv
  <2>1. DOMAIN worker.todo = {}
    BY <1>4
  <2> QED BY <1>1, <1>3, <1>4, <2>1, Constants DEF TInv, TypeOK, Shape
<1>6. Routed
  BY <1>1, <1>2, <1>4 DEF Routed, GroupsOpen, DigestsTell, DigestInTask, AlarmsKept
<1>7. OverWhenDue
  BY <1>2, <1>4 DEF OverWhenDue
<1>8. NoEarlyAllClear /\ NoAlarmAfterAllClear
  BY <1>1, <1>2 DEF NoEarlyAllClear, NoAlarmAfterAllClear, AllClear
<1> QED BY <1>5, <1>6, <1>7, <1>8 DEF AInv

LEMMA Always == Spec => []AInv
<1>1. AInv /\ [Next]_vars => AInv'
  BY NextKeeps
<1> QED BY InitHolds, <1>1, PTL DEF Spec

----------------------------------------------------------------------------
\* The variables keep their types: the rows are never lost, and everything that
\* points at one points at a row that exists.
THEOREM TypeOKAlways == Spec => []TypeOK
<1>1. AInv => TypeOK
  BY DEF AInv, TInv
<1> QED BY Always, <1>1, PTL

\* The notice of an alert that is still active is not lost to the recovery of
\* another alert of its group, a copy of the worker or a restart, nor to a digest
\* that names fewer alerts than it may (collapseUnsent and routingTick of
\* routing.ts against delivery_worker.ts).
THEOREM AlarmStandsAlways == Spec => []AlarmStands
<1>1. AInv => AlarmStands
  <2> SUFFICES ASSUME AInv, NEW a \in Alerts, alarm[a] # 0
               PROVE  LET r == rows[alarm[a]] IN
                        IF r.status = "collapsed"
                        THEN r.digest # 0 /\ Told(rows[r.digest], a)
                        ELSE a \in r.items
    BY DEF AlarmStands
  <2>1. alarm[a] \in Rows
    BY DEF AInv, TInv, TypeOK, Rows
  <2> QED BY <2>1 DEF AInv, Routed, AlarmsKept, DigestsTell, InDigest, Told
<1> QED BY Always, <1>1, PTL

\* Once the destination has its all-clear, no notice of that outage is on the
\* way to it, although one may have been when the alert was resolved
\* (buildMessage of render.ts, runDeliveryPass of delivery_worker.ts).
THEOREM NoAlarmAfterAllClearAlways == Spec => []NoAlarmAfterAllClear
<1>1. AInv => NoAlarmAfterAllClear
  BY DEF AInv
<1> QED BY Always, <1>1, PTL

=============================================================================
