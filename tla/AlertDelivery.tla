---------------------------- MODULE AlertDelivery ----------------------------
(***************************************************************************)
(* Alerts that open, resolve, reopen and flap (engine.ts), the deliveries  *)
(* made of them (routing.ts) and the worker that sends these to one        *)
(* destination (delivery_worker.ts).  The engine's queue takes one event   *)
(* at a time; the worker runs beside it, a pass over copies of the rows it *)
(* found due, and saves the columns it changes.                            *)
(*                                                                         *)
(* The rules are those of a condition without a hold before it opens, with *)
(* a hold before its recovery.  Severities only order a pass: any order.   *)
(***************************************************************************)
EXTENDS Integers, Sequences, FiniteSets, FiniteSetsExt

CONSTANTS
  Alerts,          \* alerts of one type
  Grouping,        \* groupSeconds > 0
  MaxItems,        \* MAX_ITEMS of a group and of a digest
  FlapThresholds,  \* 0: no flap damping, and no reopening after the recovery
  MaxEvents        \* raises, clears, reminders, ends of flapping, mutes, restarts

ASSUME AlertAssumption ==
  /\ IsFiniteSet(Alerts) /\ Grouping \in BOOLEAN
  /\ FlapThresholds \subseteq Nat /\ MaxEvents \in Nat /\ MaxItems \in Nat \ {0}

VARIABLES
  flapThreshold,   \* the rule's
  alert,    \* alerts
  rows,     \* alert_deliveries, in the order of their ids
  task,     \* what the engine has still to do for the event it is at
  worker,   \* the pass: the items of the rows it found due, the one it is at
  alarm,    \* history: the row that carries an alert's last opening
  events    \* the bounded events so far

vars == <<flapThreshold, alert, rows, task, worker, alarm, events>>

Kinds == {"opened", "reminder", "flapping", "resolved", "digest"}
Outage == {"opened", "reminder", "flapping"}
Unsent == {"queued", "grouping", "held", "retrying"}
\* "lost": failed, expired, or collapsed because the destination is disabled or gone.
Ended == {"sent", "lost", "collapsed"}
Alert == [state : {"none", "active", "resolved"}, due : BOOLEAN, notified : BOOLEAN,
          transitions : Nat, flapping : BOOLEAN, recent : BOOLEAN, outage : Nat]
Row == [kind : Kinds, items : SUBSET Alerts, status : Unsent \cup {"sending"} \cup Ended,
        outage : Nat, digest : Nat]

NoTask == [does |-> "idle", of |-> {}, row |-> 0]
NoPass == [todo |-> << >>, at |-> "idle", row |-> 0, says |-> << >>]

TypeOK ==
  /\ flapThreshold \in FlapThresholds
  /\ alert \in [Alerts -> Alert]
  /\ rows \in Seq(Row)
  /\ task.does \in {"idle", "opened", "reminder", "flapping", "resolved", "recovery",
                   "collapse", "digest"}
  /\ task.row \in 0..Len(rows)
  /\ DOMAIN worker.todo \subseteq 1..Len(rows)
  /\ worker.at \in {"idle", "next", "built", "sending"}
  /\ worker.row \in 0..Len(rows)
  /\ alarm \in [Alerts -> 0..Len(rows)]
  /\ events \in 0..MaxEvents

Init ==
  /\ flapThreshold \in FlapThresholds
  /\ alert = [a \in Alerts |-> [state |-> "none", due |-> FALSE, notified |-> FALSE,
                                transitions |-> 0, flapping |-> FALSE, recent |-> FALSE,
                                outage |-> 0]]
  /\ rows = << >> /\ task = NoTask /\ worker = NoPass
  /\ alarm = [a \in Alerts |-> 0]
  /\ events = 0

Happens == events < MaxEvents /\ events' = events + 1

----------------------------------------------------------------------------
\* The engine's events.  Each saves the alert first, then routes.

Engine == task.does = "idle"
Does(what, a) == task' = [NoTask EXCEPT !.does = what, !.of = {a}]

\* startsFlapping, with the transitions the event adds counted in.
StartsFlapping(a) ==
  flapThreshold > 0 /\ ~alert[a].flapping /\ alert[a].transitions + 1 >= flapThreshold
Reopened(a) == [alert[a] EXCEPT !.state = "active", !.due = FALSE, !.recent = TRUE,
                                !.transitions = @ + 1, !.outage = @ + 1,
                                !.flapping = @ \/ StartsFlapping(a)]

\* processRaise: a new alert.
Open(a) ==
  /\ Engine /\ alert[a].state = "none" /\ Happens
  /\ alert' = [alert EXCEPT ![a].state = "active", ![a].recent = TRUE, ![a].outage = 1]
  /\ Does("opened", a)
  /\ UNCHANGED <<rows, worker, alarm>>

\* Raised again inside the recovery hold: the recovery is cancelled.
RaiseInHold(a) ==
  /\ Engine /\ alert[a].state = "resolved" /\ alert[a].due /\ Happens
  /\ alert' = [alert EXCEPT ![a] = Reopened(a)]
  /\ IF StartsFlapping(a) THEN Does("flapping", a) ELSE task' = NoTask
  /\ UNCHANGED <<rows, worker, alarm>>

\* Raised again inside the flap window.
Reopen(a) ==
  /\ Engine /\ alert[a].state = "resolved" /\ ~alert[a].due
  /\ flapThreshold > 0 /\ alert[a].recent /\ Happens
  /\ alert' = [alert EXCEPT ![a] = Reopened(a)]
  /\ IF StartsFlapping(a) THEN Does("flapping", a)
     ELSE IF alert[a].flapping THEN task' = NoTask ELSE Does("opened", a)
  /\ UNCHANGED <<rows, worker, alarm>>

\* Escalated, or due for a reminder.
Remind(a) ==
  /\ Engine /\ alert[a].state = "active" /\ ~alert[a].flapping /\ Happens
  /\ Does("reminder", a)
  /\ UNCHANGED <<alert, rows, worker, alarm>>

\* processClear: the recovery waits for its hold.
Clear(a) ==
  /\ Engine /\ alert[a].state = "active" /\ Happens
  /\ LET recovers == ~alert[a].flapping /\ alert[a].notified IN
     /\ alert' = [alert EXCEPT ![a].state = "resolved", ![a].due = recovers,
                               ![a].recent = TRUE]
     /\ IF recovers \/ alert[a].flapping THEN task' = NoTask ELSE Does("collapse", a)
  /\ UNCHANGED <<rows, worker, alarm>>

\* The recovery hold has passed.
Recover(a) ==
  /\ Engine /\ alert[a].due
  /\ alert' = [alert EXCEPT ![a].due = FALSE]
  /\ Does("resolved", a)
  /\ UNCHANGED <<rows, worker, alarm, events>>

\* A flapping period ends.
Settle(a) ==
  /\ Engine /\ alert[a].flapping /\ ~alert[a].recent /\ Happens
  /\ alert' = [alert EXCEPT ![a].flapping = FALSE, ![a].transitions = 0]
  /\ Does(IF alert[a].state = "active" THEN "opened" ELSE "resolved", a)
  /\ UNCHANGED <<rows, worker, alarm>>

\* Resolved by hand, or its rule is switched off.
ResolveQuietly(a) ==
  /\ Engine /\ alert[a].state = "active" /\ Happens
  /\ \E byHand \in BOOLEAN :
       alert' = [alert EXCEPT ![a].state = "resolved", ![a].due = FALSE,
                              ![a].flapping = @ /\ ~byHand, ![a].recent = ~byHand]
  /\ Does("collapse", a)
  /\ UNCHANGED <<rows, worker, alarm>>

----------------------------------------------------------------------------
\* Routing.

NewRow(kind, items, status, outage) ==
  [kind |-> kind, items |-> items, status |-> status,
   outage |-> outage, digest |-> 0]
Of == CHOOSE a \in task.of : TRUE
Notified == alert' = [alert EXCEPT ![Of].notified = TRUE]
\* A group that still waits for more; the latest takes it, until it is full.
OpenGroups == {i \in 1..Len(rows) : rows[i].status = "grouping"}
JoinsGroup == /\ task.does = "opened" /\ Grouping /\ OpenGroups # {}
              /\ Cardinality(rows[Max(OpenGroups)].items) < MaxItems

\* A mute, the rule, its hourly limit or the filters: nobody is told.
RouteNobody ==
  /\ task.does \in Outage \cup {"resolved"} /\ Happens
  /\ task' = NoTask
  /\ alarm' = [alarm EXCEPT ![Of] = IF task.does = "opened" THEN 0 ELSE @]
  /\ UNCHANGED <<alert, rows, worker>>

AddToGroup ==
  /\ JoinsGroup
  /\ rows' = [rows EXCEPT ![Max(OpenGroups)].items = @ \cup {Of}]
  /\ alarm' = [alarm EXCEPT ![Of] = Max(OpenGroups)]
  /\ Notified /\ task' = NoTask
  /\ UNCHANGED <<worker, events>>

RouteOutage ==
  /\ task.does \in Outage /\ ~JoinsGroup
  /\ LET status == IF task.does = "opened" /\ Grouping THEN "grouping" ELSE "queued" IN
     rows' = Append(rows, NewRow(task.does, {Of}, status, alert[Of].outage))
  /\ alarm' = [alarm EXCEPT ![Of] = IF task.does = "opened" THEN Len(rows) + 1 ELSE @]
  /\ Notified /\ task' = NoTask
  /\ UNCHANGED <<worker, events>>

\* collapseUnsent
Carries(r, a) == r.kind \in Outage /\ a \in r.items
\* Mutant: a group goes with its first recovery.
CollapsedWhole(r, a) ==
  IF r.status \in Unsent /\ Carries(r, a) THEN [r EXCEPT !.status = "collapsed"] ELSE r
Collapsed(r, a) ==
  IF ~(r.status \in Unsent /\ Carries(r, a)) THEN r
  ELSE IF r.items = {a} THEN [r EXCEPT !.status = "collapsed"]
  ELSE [r EXCEPT !.items = @ \ {a}]
Unrouted(a) == [i \in 1..Len(rows) |-> Collapsed(rows[i], a)]

CollapseUnsent ==
  /\ task.does = "collapse"
  /\ rows' = Unrouted(Of) /\ task' = NoTask /\ alarm' = [alarm EXCEPT ![Of] = 0]
  /\ UNCHANGED <<alert, worker, events>>

\* routeRecovery: what is unsent collapses first.  Then the destination is told,
\* if it had, or was to have, an outage notice and is not disabled by now.
RouteRecovery ==
  /\ task.does = "resolved"
  /\ rows' = Unrouted(Of) /\ alarm' = [alarm EXCEPT ![Of] = 0]
  /\ IF \E i \in 1..Len(rows) : Carries(rows[i], Of) THEN Does("recovery", Of)
     ELSE task' = NoTask
  /\ UNCHANGED <<alert, worker, events>>
TellRecovery ==
  /\ task.does = "recovery"
  /\ \/ rows' = Append(rows, NewRow("resolved", {Of}, "queued", alert[Of].outage))
     \/ UNCHANGED rows
  /\ task' = NoTask
  /\ UNCHANGED <<alert, worker, alarm, events>>

\* routingTick: the window of a group passes.
ReleaseGroup ==
  /\ Engine /\ OpenGroups # {}
  /\ rows' = [i \in 1..Len(rows) |->
                IF i \in OpenGroups THEN [rows[i] EXCEPT !.status = "queued"] ELSE rows[i]]
  /\ UNCHANGED <<alert, task, worker, alarm, events>>

Held == {i \in 1..Len(rows) : rows[i].status = "held"}
ItemsOf(held) == UNION {rows[i].items : i \in held}
ReleaseHeld ==
  /\ Engine /\ Cardinality(Held) = 1
  /\ rows' = [rows EXCEPT ![Min(Held)].status = "queued"]
  /\ UNCHANGED <<alert, task, worker, alarm, events>>
\* ids.slice(0, MAX_ITEMS): the alerts of the first rows, as many as a digest takes.
FirstRow(held, a) == Min({i \in held : a \in rows[i].items})
FirstItems(held) ==
  LET all == ItemsOf(held) IN
  IF Cardinality(all) <= MaxItems THEN {all}
  ELSE {s \in SUBSET all : /\ Cardinality(s) = MaxItems
                           /\ \A a \in s, b \in all \ s : FirstRow(held, a) <= FirstRow(held, b)}
\* Two or more become one digest, then they collapse, told in it or not.
CreateDigest ==
  /\ Engine /\ Cardinality(Held) > 1
  /\ \E items \in FirstItems(Held) : rows' = Append(rows, NewRow("digest", items, "queued", 0))
  /\ task' = [does |-> "digest", of |-> Held, row |-> Len(rows) + 1]
  /\ UNCHANGED <<alert, worker, alarm, events>>
CollapseIntoDigest ==
  /\ task.does = "digest"
  /\ rows' = [i \in 1..Len(rows) |->
                IF i \in task.of THEN [rows[i] EXCEPT !.status = "collapsed", !.digest = task.row]
                ELSE rows[i]]
  /\ task' = NoTask
  /\ UNCHANGED <<alert, worker, alarm, events>>

----------------------------------------------------------------------------
\* The worker.  It saves a status over whatever the row has by now.

\* runDeliveryPass: one pass at a time (kickDeliveries).
Queued == {i \in 1..Len(rows) : rows[i].status = "queued"}
Retrying == {i \in 1..Len(rows) : rows[i].status = "retrying"}
BeginPass ==
  /\ worker.at = "idle"
  /\ \E again \in SUBSET Retrying :
       /\ Queued \cup again # {}
       /\ worker' = [NoPass EXCEPT !.at = "next",
                       !.todo = [i \in Queued \cup again |-> rows[i].items]]
  /\ UNCHANGED <<alert, rows, task, alarm, events>>

\* The pass goes on with the rest.
Rest(i) ==
  LET left == DOMAIN worker.todo \ {i} IN
  IF left = {} THEN NoPass
  ELSE [NoPass EXCEPT !.at = "next", !.todo = [k \in left |-> worker.todo[k]]]
Leave(i, status) == rows' = [rows EXCEPT ![i].status = status] /\ worker' = Rest(i)

\* Expired, or no destination any more.
GiveUp(i) ==
  /\ worker.at = "next" /\ i \in DOMAIN worker.todo /\ Leave(i, "lost")
  /\ UNCHANGED <<alert, task, alarm, events>>
\* Quiet hours, or the destination's rate limit.
Hold(i) ==
  /\ worker.at = "next" /\ i \in DOMAIN worker.todo /\ Leave(i, "held")
  /\ UNCHANGED <<alert, task, alarm, events>>

\* buildMessage, from the alerts' state by now and the items the pass read.
\* Mutant: the words follow the transition alone.
WordsOfKind(kind, items, a) ==
  CASE kind = "resolved" -> "back" [] kind = "flapping" -> "flapping" [] OTHER -> "down"
WordsFor(kind, items, a) ==
  CASE kind = "flapping" -> "flapping"
    [] kind = "resolved" -> "back"
    [] kind \in {"opened", "reminder"} /\ Cardinality(items) > 1 -> "down"
    [] OTHER -> IF alert[a].state = "resolved" THEN "back" ELSE "down"
Build(i) ==
  /\ worker.at = "next" /\ i \in DOMAIN worker.todo
  /\ LET items == worker.todo[i] IN
     worker' = [worker EXCEPT !.at = "built", !.row = i,
                  !.says = [a \in items |-> WordsFor(rows[i].kind, items, a)]]
  /\ UNCHANGED <<alert, rows, task, alarm, events>>
Send ==
  /\ worker.at = "built"
  /\ rows' = [rows EXCEPT ![worker.row].status = "sending"]
  /\ worker' = [worker EXCEPT !.at = "sending"]
  /\ UNCHANGED <<alert, task, alarm, events>>

Sent ==
  /\ worker.at = "sending" /\ Leave(worker.row, "sent")
  /\ UNCHANGED <<alert, task, alarm, events>>
\* Mutant: the sender's outcome is stored as the status.
NotSentAsOutcome ==
  /\ worker.at = "sending" /\ Leave(worker.row, "retry")
  /\ UNCHANGED <<alert, task, alarm, events>>
\* It may have been heard all the same.
NotSent ==
  /\ worker.at = "sending"
  /\ Leave(worker.row, "retrying") \/ Leave(worker.row, "lost")
  /\ UNCHANGED <<alert, task, alarm, events>>

----------------------------------------------------------------------------
\* Time, and restarts.

\* The flap window passes, where that is looked at.
Calm(a) ==
  /\ alert[a].recent /\ (alert[a].state = "resolved" \/ alert[a].flapping)
  /\ alert' = [alert EXCEPT ![a].recent = FALSE]
  /\ UNCHANGED <<rows, task, worker, alarm, events>>
\* resetStaleSending takes the rows that were left for more than two minutes.
Restart ==
  /\ Happens /\ task' = NoTask /\ worker' = NoPass
  /\ \E stale \in SUBSET {i \in 1..Len(rows) : rows[i].status = "sending"} :
       rows' = [i \in 1..Len(rows) |->
                  IF i \in stale THEN [rows[i] EXCEPT !.status = "retrying"] ELSE rows[i]]
  /\ UNCHANGED <<alert, alarm>>

Routing == \/ RouteNobody \/ AddToGroup \/ RouteOutage \/ CollapseUnsent \/ RouteRecovery
           \/ TellRecovery \/ CollapseIntoDigest
Ticks == ReleaseGroup \/ ReleaseHeld \/ CreateDigest
Passing == \/ BeginPass \/ Send \/ Sent \/ NotSent
           \/ \E i \in 1..Len(rows) : GiveUp(i) \/ Hold(i) \/ Build(i)
Events(a) == \/ Open(a) \/ RaiseInHold(a) \/ Reopen(a) \/ Remind(a) \/ Clear(a)
             \/ ResolveQuietly(a)
Next == /\ \/ Routing \/ Ticks \/ Passing \/ Restart
           \/ \E a \in Alerts : Events(a) \/ Recover(a) \/ Settle(a) \/ Calm(a)
        /\ UNCHANGED flapThreshold

Spec == Init /\ [][Next]_vars

----------------------------------------------------------------------------
\* Properties.

\* The notice of an alert that is still active is not lost on the way: not to
\* a recovery of another alert of its group, a stale copy, a restart or a digest,
\* unless that digest already names as many alerts as it may.
Told(r, a) == a \in r.items \/ Cardinality(r.items) = MaxItems
AlarmStands ==
  \A a \in Alerts : alert[a].state = "active" /\ alarm[a] # 0 =>
    LET r == rows[alarm[a]] IN
      IF r.status = "collapsed" THEN r.digest # 0 /\ Told(rows[r.digest], a)
      ELSE a \in r.items

\* Once the destination has its all-clear, no notice of that outage is on the
\* way to it, although one may have been when the alert was resolved.
AllClear(a) ==
  /\ alert[a].state = "resolved"
  /\ \E i \in 1..Len(rows) : /\ rows[i].kind = "resolved" /\ rows[i].items = {a}
                             /\ rows[i].status = "sent" /\ rows[i].outage = alert[a].outage
NoAlarmAfterAllClear ==
  \A a \in Alerts : AllClear(a) => worker.says # [x \in {a} |-> "down"]

=============================================================================
