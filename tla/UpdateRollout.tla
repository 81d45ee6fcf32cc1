--------------------------- MODULE UpdateRollout ---------------------------
(***************************************************************************)
(* A staged update of many devices (agent_updates/rollouts.ts): the canary *)
(* alone first, observed, then batches, with a pause at the first failure. *)
(* A step of the engine reads the rollout and its devices once and then    *)
(* saves row after row, while update jobs end, the admin acts and the      *)
(* controller may restart between any two of its saves.                    *)
(*                                                                         *)
(* A device's update jobs (UpdateJob) are reduced to what the rollout      *)
(* reads of them.                                                          *)
(***************************************************************************)
EXTENDS Integers, FiniteSets, FiniteSetsExt

CONSTANTS
  NumDevices,     \* devices of the product, in the order of their positions
  BatchSize,      \* batchSize
  StopOnFailure,  \* stopOnFailure
  MaxEvents       \* actions of the admin, jobs of others, restarts

ASSUME RolloutAssumption ==
  /\ {NumDevices, BatchSize} \subseteq Nat \ {0}
  /\ MaxEvents \in Nat
  /\ StopOnFailure \in BOOLEAN

VARIABLES
  rollout,    \* agent_update_rollouts: its state, canaryConfirmedAt, nextActionAt passed
  device,     \* agent_update_rollout_devices, by position
  job,        \* the last update job of the rollout on each device
  other,      \* the last one of somebody else there, since that one
  offerable,  \* the release can be offered
  step,       \* the step under way, with the rows it read
  torn,       \* failed devices whose step broke off before its pause
  events      \* the bounded events so far

jobs == <<job, other>>
vars == <<rollout, device, jobs, offerable, step, torn, events>>

Devices == 1..NumDevices
Running == {"canary", "observing", "rolling"}
OpenStates == Running \cup {"paused"}
Rollout == [state : OpenStates \cup {"none", "completed", "cancelled"},
            confirmed : BOOLEAN, due : BOOLEAN]
DeviceRow == [state : {"pending", "running", "confirmed", "failed", "skipped"},
              canary : BOOLEAN]
Job == {"none", "queued", "open", "confirmed", "failed", "cancelled", "expired"}
IsOpen(j) == j \in {"queued", "open"}
Idle == [at |-> "idle", rollout |-> [state |-> "none", confirmed |-> FALSE, due |-> FALSE],
         device |-> [d \in Devices |-> [state |-> "pending", canary |-> FALSE]],
         todo |-> {}, settled |-> FALSE, stop |-> FALSE, started |-> 0]

TypeOK ==
  /\ rollout \in Rollout
  /\ device \in [Devices -> DeviceRow]
  /\ job \in [Devices -> Job]
  /\ other \in [Devices -> {"none", "open", "done"}]
  /\ offerable \in BOOLEAN
  /\ step \in [at : {"idle", "settle", "decide", "promote", "observe", "roll", "start", "record"},
               rollout : Rollout, device : [Devices -> DeviceRow], todo : SUBSET Devices,
               settled : BOOLEAN, stop : BOOLEAN, started : 0..BatchSize]
  /\ torn \subseteq Devices
  /\ events \in 0..MaxEvents

Init ==
  /\ rollout = Idle.rollout /\ device = Idle.device
  /\ job = [d \in Devices |-> "none"] /\ other = [d \in Devices |-> "none"]
  /\ offerable = TRUE /\ step = Idle /\ torn = {} /\ events = 0

Happens == events < MaxEvents /\ events' = events + 1

----------------------------------------------------------------------------
\* A step of the engine (advanceRollout).

At(place) == step.at = place
Among(s) == {d \in Devices : step.device[d].state = s}
Canaries == {d \in Devices : step.device[d].canary}

\* save() writes the columns that differ from the row the step read.
Saved(now, copy, new) ==
  [f \in DOMAIN copy |-> IF new[f] # copy[f] THEN new[f] ELSE now[f]]
SaveRollout(new) == rollout' = Saved(rollout, step.rollout, new)
SetDevice(d, new) == device' = [device EXCEPT ![d] = Saved(@, step.device[d], new)]
\* The step goes on with the row it has just saved.
Now(d, new) == [step.device EXCEPT ![d] = new]

\* advanceRollouts takes the open rollouts, advanceRollout its devices.
Begin ==
  /\ At("idle") /\ rollout.state \in Running /\ offerable
  /\ step' = [Idle EXCEPT !.at = "settle", !.rollout = rollout, !.device = device,
                          !.todo = {d \in Devices : device[d].state = "running"}]
  /\ UNCHANGED <<rollout, device, jobs, offerable, torn, events>>

\* The release cannot be offered any more.
PauseUnofferable ==
  /\ At("idle") /\ rollout.state \in Running /\ ~offerable
  /\ rollout' = [rollout EXCEPT !.state = "paused"]
  /\ UNCHANGED <<device, jobs, offerable, step, torn, events>>

\* settleRunning, one device after the other.
\* Mutant: the device gets the job's state as it is.
VerdictAsJob(j) == j
Verdict(j) ==
  CASE j = "confirmed" -> "confirmed"
    [] j \in {"cancelled", "expired"} -> "skipped"
    [] OTHER -> "failed"
\* Mutant: only the canary's failure stops.
StopsAsCanary(row) == row.state = "failed" /\ row.canary
Stops(row) == row.state = "failed" /\ (row.canary \/ StopOnFailure)
Settle ==
  /\ At("settle") /\ step.todo # {}
  /\ LET d == Min(step.todo)
         new == [step.device[d] EXCEPT !.state = Verdict(job[d])]
     IN IF IsOpen(job[d])
        THEN step' = [step EXCEPT !.todo = @ \ {d}] /\ UNCHANGED device
        ELSE /\ SetDevice(d, new)
             /\ step' = [step EXCEPT !.todo = @ \ {d}, !.settled = TRUE,
                                     !.device = Now(d, new), !.stop = @ \/ Stops(new)]
  /\ UNCHANGED <<rollout, jobs, offerable, torn, events>>
SettledAll ==
  /\ At("settle") /\ step.todo = {}
  /\ step' = [step EXCEPT !.at = "decide"]
  /\ UNCHANGED <<rollout, device, jobs, offerable, torn, events>>

\* The step ends, with the rollout in another state or as it was.
End(s) == /\ SaveRollout([step.rollout EXCEPT !.state = s]) /\ step' = Idle
          /\ UNCHANGED <<device, jobs, offerable, torn, events>>
Wait == step' = Idle /\ UNCHANGED <<rollout, device, jobs, offerable, torn, events>>

PauseOnFailure == At("decide") /\ step.stop /\ End("paused")

Deciding(s) == At("decide") /\ ~step.stop /\ step.rollout.state = s

\* The canary was skipped: the next pending device is the canary.
\* Mutant: the missing canary is one whose flag is gone.
CanaryMissing == Canaries = {}
CanaryGone == \A d \in Canaries : step.device[d].state = "skipped"
Demote ==
  /\ Deciding("canary") /\ CanaryGone /\ Canaries # {} /\ Among("pending") # {}
  /\ LET d == Min(Canaries)  new == [step.device[d] EXCEPT !.canary = FALSE] IN
     SetDevice(d, new) /\ step' = [step EXCEPT !.at = "promote", !.device = Now(d, new)]
  /\ UNCHANGED <<rollout, jobs, offerable, torn, events>>
Promote ==
  /\ \/ At("promote")
     \/ Deciding("canary") /\ Canaries = {}
  /\ Among("pending") # {}
  /\ LET d == Min(Among("pending")) IN
     SetDevice(d, [step.device[d] EXCEPT !.canary = TRUE])
  /\ step' = Idle
  /\ UNCHANGED <<rollout, jobs, offerable, torn, events>>
NobodyLeft == Deciding("canary") /\ CanaryGone /\ Among("pending") = {} /\ End("completed")

\* In its window the canary starts; it is observed once confirmed.
StartCanary ==
  /\ Deciding("canary") /\ ~CanaryGone /\ step.device[Min(Canaries)].state = "pending"
  /\ step' = [step EXCEPT !.at = "start", !.todo = Canaries]
  /\ UNCHANGED <<rollout, device, jobs, offerable, torn, events>>
AwaitCanary ==
  /\ Deciding("canary") /\ ~CanaryGone
  /\ step.device[Min(Canaries)].state # "confirmed" /\ Wait
CanaryConfirmed ==
  /\ Deciding("canary") /\ ~CanaryGone /\ step.device[Min(Canaries)].state = "confirmed"
  /\ \E observe \in BOOLEAN :  \* canaryObserveMinutes > 0
       LET new == [state |-> "observing", confirmed |-> TRUE, due |-> ~observe] IN
       /\ SaveRollout(new)
       /\ step' = IF observe THEN Idle ELSE [step EXCEPT !.rollout = new]
  /\ UNCHANGED <<device, jobs, offerable, torn, events>>

\* canary_changed, canary_offline, or not observed long enough.
CanaryLost == Deciding("observing") /\ End("paused")
Observe == Deciding("observing") /\ Wait
Observed ==
  /\ Deciding("observing") /\ step.rollout.due
  /\ LET new == [step.rollout EXCEPT !.state = "rolling", !.due = TRUE] IN
     SaveRollout(new) /\ step' = [step EXCEPT !.rollout = new]
  /\ UNCHANGED <<device, jobs, offerable, torn, events>>

\* A batch is under way, or has just ended: the gap starts now.
Rolling == Deciding("rolling") /\ Among("running") = {}
BatchUnderWay == Deciding("rolling") /\ Among("running") # {} /\ Wait
Gap ==
  /\ Rolling /\ step.settled
  /\ LET new == [step.rollout EXCEPT !.due = FALSE] IN
     SaveRollout(new) /\ step' = [step EXCEPT !.settled = FALSE, !.rollout = new]
  /\ UNCHANGED <<device, jobs, offerable, torn, events>>
Complete == Rolling /\ ~step.settled /\ Among("pending") = {} /\ End("completed")
Hold == Rolling /\ ~step.settled /\ Among("pending") # {} /\ Wait
StartBatch ==
  /\ Rolling /\ ~step.settled /\ Among("pending") # {} /\ step.rollout.due
  /\ step' = [step EXCEPT !.at = "start", !.todo = Among("pending")]
  /\ UNCHANGED <<rollout, device, jobs, offerable, torn, events>>

\* startDevice, for one device after the other.
Starting(d) == /\ At("start") /\ step.started < BatchSize
               /\ step.todo # {} /\ d = Min(step.todo)
Left == [step EXCEPT !.todo = @ \ {Min(step.todo)}]

\* Gone, ineligible, or offline for too long.
SkipDevice(d) ==
  /\ Starting(d)
  /\ SetDevice(d, [step.device[d] EXCEPT !.state = "skipped"]) /\ step' = Left
  /\ UNCHANGED <<rollout, jobs, offerable, torn, events>>
\* Offline, or busy with an update of somebody else.
Occupied(d) == other[d] = "open"
PassOver(d) ==
  /\ Starting(d) /\ step' = Left
  /\ UNCHANGED <<rollout, device, jobs, offerable, torn, events>>
\* A job of this rollout is open there: the row that names it was never saved.
Adopt(d) ==
  /\ Starting(d) /\ IsOpen(job[d])
  /\ SetDevice(d, [step.device[d] EXCEPT !.state = "running"])
  /\ step' = [Left EXCEPT !.started = @ + 1]
  /\ UNCHANGED <<rollout, jobs, offerable, torn, events>>
\* A device that runs the release is not eligible, until somebody else has
\* put another version on it.
StartJob(d) ==
  /\ Starting(d) /\ ~IsOpen(job[d]) /\ ~Occupied(d)
  /\ job[d] = "confirmed" => other[d] = "done"
  /\ job' = [job EXCEPT ![d] = "queued"]
  /\ other' = [other EXCEPT ![d] = "none"]
  /\ step' = [step EXCEPT !.at = "record"]
  /\ UNCHANGED <<rollout, device, offerable, torn, events>>
Record ==
  /\ At("record")
  /\ SetDevice(Min(step.todo), [step.device[Min(step.todo)] EXCEPT !.state = "running"])
  /\ step' = [Left EXCEPT !.at = "start", !.started = @ + 1]
  /\ UNCHANGED <<rollout, jobs, offerable, torn, events>>
Started ==
  /\ At("start") /\ (step.todo = {} \/ step.started = BatchSize) /\ Wait

----------------------------------------------------------------------------
\* The admin.  Each request reads and saves in one go.

\* createRollout: the canary is the first.
Create ==
  /\ rollout.state = "none" /\ At("idle") /\ offerable
  /\ rollout' = [state |-> "canary", confirmed |-> FALSE, due |-> TRUE]
  /\ device' = [device EXCEPT ![1].canary = TRUE]
  /\ UNCHANGED <<jobs, offerable, step, torn, events>>

Pause ==
  /\ rollout.state \in Running /\ Happens
  /\ rollout' = [rollout EXCEPT !.state = "paused"]
  /\ UNCHANGED <<device, jobs, offerable, step, torn>>

\* Mutant: without asking whether a canary was ever confirmed.
PastCanary == TRUE
CanaryPassed == rollout.confirmed
Resume(skipFailed) ==
  /\ rollout.state = "paused" /\ offerable /\ Happens
  /\ device' = [d \in Devices |->
       IF device[d].state = "failed"
       THEN [device[d] EXCEPT !.state = IF skipFailed THEN "skipped" ELSE "pending"]
       ELSE device[d]]
  /\ rollout' = [rollout EXCEPT !.state = IF CanaryPassed THEN "rolling" ELSE "canary",
                                !.due = TRUE]
  /\ torn' = {}
  /\ UNCHANGED <<jobs, offerable, step>>

\* cancelRollout: queued jobs are aborted, running ones finish.
Cancel ==
  /\ rollout.state \in OpenStates /\ Happens
  /\ LET queued == {d \in Devices : device[d].state = "running" /\ job[d] = "queued"} IN
     /\ job' = [d \in Devices |-> IF d \in queued THEN "cancelled" ELSE job[d]]
     /\ device' = [d \in Devices |->
                     IF d \in queued \/ device[d].state = "pending"
                     THEN [device[d] EXCEPT !.state = "skipped"] ELSE device[d]]
  /\ rollout' = [rollout EXCEPT !.state = "cancelled"]
  /\ UNCHANGED <<other, offerable, step, torn>>

\* A withdrawn release pauses its rollouts at once.
Withdraw ==
  /\ offerable /\ Happens
  /\ offerable' = FALSE
  /\ rollout' = [rollout EXCEPT !.state = IF @ \in Running THEN "paused" ELSE @]
  /\ UNCHANGED <<device, jobs, step, torn>>
Restore ==
  /\ ~offerable /\ Happens /\ offerable' = TRUE
  /\ UNCHANGED <<rollout, device, jobs, step, torn>>

\* An update the admin starts himself, on a device no rollout has to update.
UpdateByHand(d) ==
  /\ ~IsOpen(job[d]) /\ ~Occupied(d) /\ Happens
  /\ ~(rollout.state \in OpenStates /\ device[d].state \in {"pending", "running"})
  /\ other' = [other EXCEPT ![d] = "open"]
  /\ UNCHANGED <<rollout, device, job, offerable, step, torn>>
\* Back to the previous version: nobody asks whose the device is.
RollBackByHand(d) ==
  /\ ~IsOpen(job[d]) /\ ~Occupied(d) /\ Happens
  /\ other' = [other EXCEPT ![d] = "open"]
  /\ UNCHANGED <<rollout, device, job, offerable, step, torn>>
AbortJob(d) ==
  /\ IsOpen(job[d]) /\ Happens
  /\ job' = [job EXCEPT ![d] = "cancelled"]
  /\ UNCHANGED <<rollout, device, other, offerable, step, torn>>

----------------------------------------------------------------------------
\* The jobs, and time.

\* Only the pass takes a job out of the queue, before or after its step.
JobLeavesQueue(d) ==
  /\ At("idle") /\ job[d] = "queued"
  /\ \E s \in {"open", "failed", "expired"} : job' = [job EXCEPT ![d] = s]
  /\ UNCHANGED <<rollout, device, other, offerable, step, torn, events>>
JobEnds(d) ==
  /\ job[d] = "open"
  /\ \E s \in {"confirmed", "failed"} : job' = [job EXCEPT ![d] = s]
  /\ UNCHANGED <<rollout, device, other, offerable, step, torn, events>>
OtherEnds(d) ==
  /\ Occupied(d) /\ other' = [other EXCEPT ![d] = "done"]
  /\ UNCHANGED <<rollout, device, job, offerable, step, torn, events>>

\* nextActionAt passes.
Due ==
  /\ ~rollout.due /\ rollout.state \in OpenStates
  /\ rollout' = [rollout EXCEPT !.due = TRUE]
  /\ UNCHANGED <<device, jobs, offerable, step, torn, events>>

\* A restart, or an error, in the middle of a step: a pause that was due for a
\* failure is not saved any more.
Crash ==
  /\ ~At("idle") /\ Happens
  /\ step' = Idle
  /\ torn' = IF step.stop THEN torn \cup {d \in Devices : device[d].state = "failed"} ELSE torn
  /\ UNCHANGED <<rollout, device, jobs, offerable>>

StartDevice(d) == SkipDevice(d) \/ PassOver(d) \/ Adopt(d) \/ StartJob(d)
CanaryStep == \/ Demote \/ Promote \/ NobodyLeft \/ StartCanary \/ AwaitCanary
              \/ CanaryConfirmed \/ CanaryLost \/ Observe \/ Observed
BatchStep == BatchUnderWay \/ Gap \/ Complete \/ Hold \/ StartBatch
Engine == \/ Begin \/ PauseUnofferable \/ Settle \/ SettledAll \/ PauseOnFailure
          \/ CanaryStep \/ BatchStep \/ Record \/ Started
          \/ \E d \in Devices : StartDevice(d)
Admin == \/ Create \/ Pause \/ Cancel \/ Withdraw \/ Restore
         \/ \E skipFailed \in BOOLEAN : Resume(skipFailed)
         \/ \E d \in Devices : UpdateByHand(d) \/ RollBackByHand(d) \/ AbortJob(d)
Next == Engine \/ Admin \/ Due \/ Crash
        \/ \E d \in Devices : JobLeavesQueue(d) \/ JobEnds(d) \/ OtherEnds(d)

Spec == Init /\ [][Next]_vars

----------------------------------------------------------------------------
\* Properties.

Starts(d) == IsOpen(job[d])' /\ ~IsOpen(job[d])

\* "canary first": until the canary's update is confirmed no other device is
\* being updated, and afterwards never more than a batch, whatever is settled,
\* tried again, adopted, skipped or promoted in between.
OneBatch ==
  Cardinality({d \in Devices : device[d].state = "running" /\ IsOpen(job[d])})
    <= IF rollout.confirmed THEN BatchSize ELSE 1

\* "a failure pauses": after one that stops the rollout nothing starts until
\* the admin resumes, whatever the admin does and wherever a step breaks off,
\* but for two: a failure met by the step that adopted the job, and one whose
\* step saved the device's row and broke off before it saved the pause.
NothingAfterFailure ==
  [][\A d, e \in Devices :
       Starts(d) => ~(/\ job[e] = "failed" /\ device[e].state \in {"running", "failed"}
                      /\ e \notin torn /\ step.device[e].state # "pending"
                      /\ device[e].canary \/ StopOnFailure)]_vars

\* "Cancel: nothing more starts".
NothingOnceCancelled ==
  [][\A d \in Devices : Starts(d) => rollout.state # "cancelled"]_vars

\* A rollout ends or waits for the admin, unless an update job of one of its
\* devices stays open for ever (an unknown one may), or its canary has failed
\* and the step broke off before the pause.
JobStays(d) == <>[]IsOpen(job[d]) \/ <>[]Occupied(d)
CanaryTorn == \E d \in torn : device[d].canary
RolloutEnds ==
  \/ []<>(rollout.state \notin Running)
  \/ <>[]CanaryTorn
  \/ \E d \in Devices : JobStays(d)

\* The engine steps every tick.  The window opens again and again; a device
\* that is not busy is offline for too long, or is found online and started;
\* the observed canary likewise.  Of the jobs nothing is assumed.
Fairness ==
  /\ WF_vars(Engine) /\ SF_vars(StartCanary) /\ SF_vars(StartBatch) /\ SF_vars(Observed)
  /\ SF_vars(\E d \in Devices : ~Occupied(d) /\ (SkipDevice(d) \/ Adopt(d) \/ StartJob(d)))
  /\ WF_vars(Due)
FairSpec == Spec /\ Fairness

=============================================================================
