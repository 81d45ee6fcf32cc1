------------------------------ MODULE UpdateJob ------------------------------
(***************************************************************************)
(* The update jobs of one device (agent_updates/jobs.ts), the pass that    *)
(* stages, installs and times them out (tick.ts), what the device's        *)
(* reports and notifications do to them (bridge.ts) and the admin who      *)
(* creates and aborts them.  Nothing queues these handlers: each reads the *)
(* job's row, may await the device or other queries, and saves the columns *)
(* it changed, over whatever the others made of the row meanwhile.  A      *)
(* handler that saves what it has just read is one step.                   *)
(*                                                                         *)
(* The device is the agent on the other end of the socket, modelled from   *)
(* the answers, results and phases the code tells apart.                   *)
(***************************************************************************)
EXTENDS Integers, Sequences

CONSTANTS
  MaxJobs,      \* jobs the admin creates; job j updates the device to version j
  MaxRestages,  \* MAX_RESTAGES
  MaxEvents     \* sessions lost, power cuts, late answers, restarts, aborts, applies

ASSUME JobAssumption ==
  /\ MaxJobs \in Nat \ {0}
  /\ {MaxRestages, MaxEvents} \subseteq Nat

VARIABLES
  row,      \* agent_update_jobs
  tick,     \* what the pass is at, with the row it read
  confirm,  \* the confirm in flight (confirming)
  abort,    \* the abort in flight, with the row it read
  wire,     \* requests on their way to the device
  notes,    \* results the device notified, not handled yet
  report,   \* the hello's update block being handled
  session,  \* the live session and what its block said
  dev,      \* the device
  hold,     \* the device is in the in-flight set
  ticked,   \* a pass ran since the controller started
  apply,    \* an apply of a configuration plane waits for its confirm
  events,   \* the bounded events so far
  reopened, \* history: jobs whose closed row was saved as open again
  crossed   \* history: jobs whose row changed state while the pass or an abort had
            \* a copy of it, or that were queued again while the device had them

calls == <<tick, confirm, abort>>
link == <<wire, notes, report, session>>
history == <<reopened, crossed>>
vars == <<row, calls, link, dev, hold, ticked, apply, events, history>>

Jobs == 1..MaxJobs
\* Mutant: only from the install on.
Restarting == {"installing", "probation", "unknown"}
InFlight == {"staged", "installing", "probation", "unknown"}
Open == {"queued", "staging"} \cup InFlight
\* rolled_back stands for rollback_failed and rollback_unavailable as well.
Final == {"confirmed", "failed", "rolled_back", "cancelled", "expired"}
Row == [state : {"none"} \cup Open \cup Final, key : BOOLEAN,
        restages : 0..MaxRestages, sent : BOOLEAN]
Phases == {"none", "downloading", "staged", "installing", "probation", "rolling"}
Result == [job : Jobs, outcome : {"staged", "failed", "url_expired", "confirmed", "rolled_back",
                                  "cancelled"}]
Asks == {"stage", "install", "confirm", "abort"}
Request == [op : Asks, job : Jobs, live : BOOLEAN]
Answers == {"none", "lost", "busy", "refused", "downloading", "staged", "installing",
            "not_staged", "confirmed", "cancelled", "rolling", "unknown_update"}
NoRow == [state |-> "none", key |-> FALSE, restages |-> 0, sent |-> FALSE]
NoCall == [op |-> "none", job |-> 1, copy |-> NoRow, answer |-> "none"]
\* What the pass is at before it asks the device, or without asking it.
Ops == {"start", "put", "overdue", "expire"}
Call == [op : {"none"} \cup Ops \cup Asks, job : Jobs, copy : Row, answer : Answers]
NoReport == [busy |-> FALSE, todo |-> {}, sent |-> {}]

StateOK ==
  /\ row \in [Jobs -> Row]
  /\ tick \in Call /\ confirm \in Call /\ abort \in Call
  /\ wire \in Seq(Request) /\ notes \in Seq(Result)
  /\ report \in [busy : BOOLEAN, todo : SUBSET Result, sent : SUBSET Result]
  /\ session \in [up : BOOLEAN, runs : 0..MaxJobs, active : 0..MaxJobs, phase : Phases,
                  after : SUBSET Jobs]
  /\ dev \in [runs : 0..MaxJobs, old : 0..MaxJobs, active : 0..MaxJobs, phase : Phases,
              results : SUBSET Result, kept : SUBSET Jobs]
  /\ hold \in BOOLEAN /\ ticked \in BOOLEAN
  /\ apply \in {"none", "pending", "early"}
  /\ events \in 0..MaxEvents
TypeOK == StateOK /\ reopened \subseteq Jobs /\ crossed \subseteq Jobs

Init ==
  /\ row = [j \in Jobs |-> NoRow]
  /\ tick = NoCall /\ confirm = NoCall /\ abort = NoCall
  /\ wire = <<>> /\ notes = <<>> /\ report = NoReport
  /\ session = [up |-> FALSE, runs |-> 0, active |-> 0, phase |-> "none", after |-> {}]
  /\ dev = [runs |-> 0, old |-> 0, active |-> 0, phase |-> "none", results |-> {},
            kept |-> {}]
  /\ hold = FALSE /\ ticked = FALSE /\ apply = "none"
  /\ events = 0 /\ reopened = {} /\ crossed = {}

Happens == events < MaxEvents /\ events' = events + 1

----------------------------------------------------------------------------
\* Rows.

\* Mutant: a closed row keeps the key.
ToWithKey(copy, s) == [copy EXCEPT !.state = s]
\* The row a handler leaves: final states clear the key (transition).
To(copy, s) == [copy EXCEPT !.state = s, !.key = copy.key /\ s \in Open]

\* save() writes the columns that differ from the row the handler read.
Saved(now, copy, new) ==
  [f \in DOMAIN copy |-> IF new[f] # copy[f] THEN new[f] ELSE now[f]]

\* transition(): the row and the in-flight set.
Save(j, copy, new) ==
  /\ row' = [row EXCEPT ![j] = Saved(row[j], copy, new)]
  /\ hold' = (new.state \in InFlight)
Move(j, s) == Save(j, row[j], To(row[j], s))
Keep == UNCHANGED <<row, hold>>

\* An answer is acted on before anything else comes from the network.
AnswersTaken == \A c \in {tick, confirm, abort} : c.answer = "none"

\* The admin, or a rollout, creates a job: the unique key refuses a second.
CreateJob(j) ==
  /\ row[j].state = "none" /\ (j > 1 => row[j - 1].state # "none")
  /\ \A i \in Jobs : ~row[i].key
  /\ row' = [row EXCEPT ![j] = [NoRow EXCEPT !.state = "queued", !.key = TRUE]]
  /\ UNCHANGED <<calls, link, dev, hold, ticked, apply, events>>

----------------------------------------------------------------------------
\* The pass (agentUpdatesTick): it reads the rows of a part of its work, then
\* goes on with one of them at a time.

Idle == ticked /\ tick = NoCall

\* refreshInFlight, the first thing a pass does.
RefreshInFlight ==
  /\ tick = NoCall
  /\ hold' = \E j \in Jobs : row[j].state \in InFlight
  /\ ticked' = TRUE
  /\ UNCHANGED <<row, calls, link, dev, apply, events>>

Sent(op, j) == [op |-> op, job |-> j, copy |-> row[j], answer |-> "none"]
Send(op, j) == wire' = Append(wire, [op |-> op, job |-> j, live |-> TRUE])

\* The rows a part of the pass looks for: to stage, to install, past their
\* deadline and its grace, and past queueExpiryHours.
Wanted(op) ==
  CASE op \in {"start", "expire"} -> {"queued"}
    [] op = "put" -> {"staged"}
    [] op = "overdue" -> {"installing", "probation"}
ReadJob(op, j) ==
  /\ Idle /\ row[j].state \in Wanted(op) /\ tick' = Sent(op, j)
  /\ UNCHANGED <<row, confirm, abort, link, dev, hold, ticked, apply, events>>

\* applyPending, asked before the request.
MayCall == session.up /\ apply = "none"

\* startQueuedJob sends its request ...
StartQueued ==
  /\ tick.op = "start" /\ MayCall
  /\ tick' = [tick EXCEPT !.op = "stage"] /\ Send("stage", tick.job)
  /\ UNCHANGED <<row, confirm, abort, notes, report, session, dev, hold, ticked, apply,
                 events>>

\* ... or the release is gone, cannot be offered any more or cannot be fetched.
CannotStart ==
  /\ tick.op = "start" /\ Save(tick.job, tick.copy, To(tick.copy, "failed"))
  /\ tick' = NoCall
  /\ UNCHANGED <<confirm, abort, link, dev, ticked, apply, events>>

\* The job is left for a later pass: no session, an apply pending, and for a
\* stage the window closed or the files not fetched yet.
LetGo ==
  /\ tick.op = "start" \/ (tick.op = "put" /\ ~MayCall)
  /\ tick' = NoCall
  /\ UNCHANGED <<row, confirm, abort, link, dev, hold, ticked, apply, events>>

\* startQueuedJob after its answer, with the row it read before it.
StageAnswered ==
  /\ tick.op = "stage" /\ tick.answer # "none"
  /\ LET j == tick.job  copy == tick.copy  To1(s) == Save(j, copy, To(copy, s)) IN
     CASE tick.answer = "downloading" -> To1("staging")
       [] tick.answer = "staged" -> To1("staged")
       [] tick.answer = "refused" -> To1("failed")
       [] OTHER -> Keep
  /\ tick' = NoCall
  /\ UNCHANGED <<confirm, abort, link, dev, ticked, apply, events>>

\* installStagedJob sends its request: no session so far is a candidate.  A
\* session lost since isOnline fails the request, which counts as sent.
InstallStaged ==
  /\ tick.op = "put" /\ apply = "none"
  /\ session' = [session EXCEPT !.after = @ \ {tick.job}]
  /\ IF session.up
     THEN tick' = [tick EXCEPT !.op = "install"] /\ Send("install", tick.job)
     ELSE tick' = [tick EXCEPT !.op = "install", !.answer = "lost"] /\ UNCHANGED wire
  /\ UNCHANGED <<row, confirm, abort, notes, report, dev, hold, ticked, apply, events>>

\* installStagedJob after its answer: without one the install may be running.
InstallAnswered ==
  /\ tick.op = "install" /\ tick.answer # "none"
  /\ LET j == tick.job  copy == tick.copy IN
     CASE tick.answer \in {"installing", "lost"} ->
            Save(j, copy, [To(copy, "installing") EXCEPT !.sent = TRUE])
       [] tick.answer = "not_staged" /\ copy.restages < MaxRestages ->
            Save(j, copy, [To(copy, "queued") EXCEPT !.restages = @ + 1])
       [] tick.answer = "busy" -> Keep
       [] OTHER -> Save(j, copy, To(copy, "failed"))
  /\ tick' = NoCall
  /\ UNCHANGED <<confirm, abort, link, dev, ticked, apply, events>>

\* markOverdue and expireQueued go through copies, with a save after the other.
Expires(op, s) ==
  /\ tick.op = op /\ Save(tick.job, tick.copy, To(tick.copy, s))
  /\ tick' = NoCall
  /\ UNCHANGED <<confirm, abort, link, dev, ticked, apply, events>>
MarkOverdue == Expires("overdue", "unknown")
ExpireQueued == Expires("expire", "expired")

----------------------------------------------------------------------------
\* The confirm, run by the pass, by an accepted push and by a report.

Candidate(j) ==
  /\ row[j].key /\ row[j].state \in {"installing", "probation", "unknown"} /\ row[j].sent
  /\ session.up /\ j \in session.after
  /\ session.runs = j /\ session.active = j /\ session.phase = "probation"

SeeCandidate(j) ==
  /\ Candidate(j) /\ row[j].state # "probation" /\ Move(j, "probation")
  /\ UNCHANGED <<calls, link, dev, ticked, apply, events>>

\* stableSeconds and minPushes later.
SendConfirm(j) ==
  /\ Candidate(j) /\ confirm = NoCall /\ Move(j, "probation")
  /\ confirm' = Sent("confirm", j) /\ Send("confirm", j)
  /\ UNCHANGED <<tick, abort, notes, report, session, dev, ticked, apply, events>>

\* The row is read again after the answer; a refusal only leaves a note.
ConfirmAnswered ==
  /\ confirm.answer # "none"
  /\ IF confirm.answer = "confirmed" /\ row[confirm.job].state \in Open
     THEN Move(confirm.job, "confirmed") ELSE Keep
  /\ confirm' = NoCall
  /\ UNCHANGED <<tick, abort, link, dev, ticked, apply, events>>

----------------------------------------------------------------------------
\* The admin aborts (abortJob).

\* Mutant: also while the device has a session.
ClosedWithDevice(j) == row[j].state \in {"queued", "staging", "staged", "unknown"}
\* Nothing on the device, or it cannot be asked.
ClosedAlone(j) ==
  row[j].state = "queued" \/ (~session.up /\ row[j].state \in {"staging", "staged", "unknown"})

Abort(j) ==
  /\ row[j].state \in Open /\ abort = NoCall /\ AnswersTaken
  /\ Happens
  /\ \/ /\ ClosedAlone(j) /\ Move(j, "cancelled")
        /\ UNCHANGED <<abort, wire>>
     \/ /\ row[j].state # "queued" /\ session.up
        /\ abort' = Sent("abort", j) /\ Send("abort", j) /\ Keep
  /\ UNCHANGED <<tick, confirm, notes, report, session, dev, ticked, apply>>

AbortAnswered ==
  /\ abort.answer # "none"
  /\ LET copy == abort.copy IN
     IF \/ abort.answer = "cancelled"
        \/ abort.answer = "unknown_update" /\ copy.state \in {"staging", "staged"}
     THEN Save(abort.job, copy, To(copy, "cancelled")) ELSE Keep
  /\ abort' = NoCall
  /\ UNCHANGED <<tick, confirm, link, dev, ticked, apply, events>>

----------------------------------------------------------------------------
\* What the device reports.

\* Mutant: staged again without a bound.
SettledUnbounded(r) ==
  LET now == row[r.job] IN
  IF now.state \notin Open \/ r.outcome = "staged" THEN now
  ELSE IF r.outcome = "url_expired"
  THEN [To(now, "queued") EXCEPT !.restages = @ + 1] ELSE To(now, r.outcome)
\* settleResult: results of unknown and final jobs are ignored.
Settled(r) ==
  LET now == row[r.job] IN
  IF now.state \notin Open THEN now
  ELSE
  CASE r.outcome = "staged" ->
         IF now.state \in {"queued", "staging"} THEN To(now, "staged") ELSE now
    [] r.outcome = "url_expired" ->
         IF now.restages < MaxRestages
         THEN [To(now, "queued") EXCEPT !.restages = @ + 1] ELSE To(now, "failed")
    [] OTHER -> To(now, r.outcome)
Settle(r) ==
  LET new == Settled(r) IN
  IF new = row[r.job] THEN Keep ELSE Save(r.job, row[r.job], new)

\* The ack lets the device forget the results; it may be lost.
Ack(results) ==
  \/ dev' = [dev EXCEPT !.results = @ \ results]
  \/ UNCHANGED dev

\* onResult.
HandleNote ==
  /\ notes # <<>> /\ AnswersTaken
  /\ Settle(Head(notes)) /\ Ack({Head(notes)})
  /\ notes' = Tail(notes)
  /\ UNCHANGED <<calls, wire, report, session, ticked, apply, events>>

\* recordUpdateReport: the results of the block, one after the other ...
HandleResult ==
  /\ report.busy
  /\ \E r \in report.todo : Settle(r) /\ report' = [report EXCEPT !.todo = @ \ {r}]
  /\ UNCHANGED <<calls, wire, notes, session, dev, ticked, apply, events>>

\* Mutant: whatever runs, nothing active means the update is over.
ResyncedAnyVersion(j) ==
  LET now == row[j]  mine == session.active = j IN
  CASE now.state \in {"staging", "staged"} /\ ~mine -> To(now, "failed")
    [] now.state \in {"staging", "installing"} /\ mine /\ session.phase = "staged" ->
         To(now, "staged")
    [] now.state \in {"installing", "probation", "unknown"} /\ session.active = 0 ->
         To(now, "confirmed")
    [] OTHER -> now
\* Mutant: a job the device lost is not noticed.
ResyncedActiveOnly(j) ==
  LET now == row[j] IN
  IF /\ now.state \in {"installing", "probation", "unknown"}
     /\ session.active = 0 /\ session.runs = j
  THEN To(now, "confirmed") ELSE now
\* ... then the open job against what the block says is active.
Resynced(j) ==
  LET now == row[j]  mine == session.active = j IN
  CASE now.state \in {"staging", "staged"} /\ ~mine -> To(now, "failed")
    [] now.state \in {"staging", "installing"} /\ mine /\ session.phase = "staged" ->
         To(now, "staged")
    [] now.state \in {"installing", "probation", "unknown"} /\ session.active = 0
         /\ session.runs = j -> To(now, "confirmed")
    [] OTHER -> now
Resync ==
  /\ report.busy /\ report.todo = {}
  /\ IF \E j \in Jobs : row[j].key
     THEN LET j == CHOOSE j \in Jobs : row[j].key  new == Resynced(j) IN
          IF new = row[j] THEN Keep ELSE Save(j, row[j], new)
     ELSE Keep
  /\ Ack(report.sent)
  /\ report' = NoReport
  /\ UNCHANGED <<calls, wire, notes, session, ticked, apply, events>>

----------------------------------------------------------------------------
\* The link.

\* The hello and its update block; a device in the middle of a swap is silent.
Connect ==
  /\ ~session.up /\ ~report.busy /\ dev.phase # "installing" /\ AnswersTaken
  /\ session' = [up |-> TRUE, runs |-> dev.runs, active |-> dev.active, phase |-> dev.phase,
                 after |-> {j \in Jobs : row[j].sent}]
  /\ report' = [busy |-> TRUE, todo |-> dev.results, sent |-> dev.results]
  /\ UNCHANGED <<row, calls, wire, notes, dev, hold, ticked, apply, events>>

\* The session ends: the calls on it fail, what was on the wire is gone.
Failed(c) == IF c.op \in Asks /\ c.answer = "none" THEN [c EXCEPT !.answer = "lost"] ELSE c
Down ==
  /\ session' = [session EXCEPT !.up = FALSE]
  /\ tick' = Failed(tick) /\ confirm' = Failed(confirm) /\ abort' = Failed(abort)
  /\ wire' = <<>> /\ notes' = <<>> /\ UNCHANGED report

Drop ==
  /\ session.up /\ Happens /\ Down
  /\ UNCHANGED <<row, dev, hold, ticked, apply>>

\* No answer in time: the request may still reach the device.
Late(c) ==
  /\ c.op \in Asks /\ c.answer = "none" /\ Happens
  /\ wire' = [i \in DOMAIN wire |->
                IF wire[i].op = c.op THEN [wire[i] EXCEPT !.live = FALSE] ELSE wire[i]]
  /\ UNCHANGED <<row, notes, report, session, dev, hold, ticked, apply>>
TimeOut ==
  \/ Late(tick) /\ tick' = Failed(tick) /\ UNCHANGED <<confirm, abort>>
  \/ Late(confirm) /\ confirm' = Failed(confirm) /\ UNCHANGED <<tick, abort>>
  \/ Late(abort) /\ abort' = Failed(abort) /\ UNCHANGED <<tick, confirm>>

\* The controller restarts: its memory and the sessions are gone.
Crash ==
  /\ Happens
  /\ tick' = NoCall /\ confirm' = NoCall /\ abort' = NoCall
  /\ wire' = <<>> /\ notes' = <<>> /\ report' = NoReport
  /\ session' = [session EXCEPT !.up = FALSE]
  /\ hold' = FALSE /\ ticked' = FALSE
  /\ UNCHANGED <<row, dev, apply>>

----------------------------------------------------------------------------
\* The device.

\* The device keeps one result per update, until it is acked.
Others(j) == {r \in dev.results : r.job # j}
With(j, o) == Others(j) \cup {[job |-> j, outcome |-> o]}

\* Answers to one request: the device after it, and the answer.
Replies(m) ==
  LET mine == dev.active = m.job
      Same(a) == [dev |-> dev, answer |-> a]
      At(phase, a) == [dev |-> [dev EXCEPT !.active = m.job, !.phase = phase,
                                           !.results = Others(m.job)], answer |-> a]
      Cleared == [dev EXCEPT !.active = 0, !.phase = "none"]
      Kept == [Cleared EXCEPT !.kept = @ \cup {m.job}]
  IN
  CASE m.op = "stage" ->
         IF dev.active = 0
         THEN {At("downloading", "downloading"), At("staged", "staged"), Same("refused")}
         ELSE IF mine /\ dev.phase \in {"downloading", "staged"} THEN {Same(dev.phase)}
         ELSE {Same("busy")}
    [] m.op = "install" ->
         IF ~mine \/ dev.phase = "downloading" THEN {Same("not_staged")}
         ELSE IF dev.phase # "staged" THEN {Same("installing")}
         ELSE IF apply # "none" THEN {Same("busy")}
         ELSE {At("installing", "installing"), [dev |-> Cleared, answer |-> "refused"]}
    [] m.op = "confirm" ->
         IF mine /\ dev.phase = "probation"
         THEN {[dev |-> Kept, answer |-> "confirmed"],
               [dev |-> [Kept EXCEPT !.results = With(m.job, "confirmed")],
                answer |-> "confirmed"]}
         ELSE {Same("refused")}
    [] m.op = "abort" ->
         IF ~mine THEN {Same("unknown_update")}
         ELSE IF dev.phase \notin {"downloading", "staged"} THEN {At("rolling", "rolling")}
         ELSE {[dev |-> [Cleared EXCEPT !.results = With(m.job, "cancelled")],
                answer |-> "cancelled"]}

Answered(c, m, a) == IF m.live /\ c.op = m.op THEN [c EXCEPT !.answer = a] ELSE c
Handle ==
  /\ wire # <<>> /\ session.up
  /\ LET m == Head(wire) IN \E reply \in Replies(m) :
       /\ dev' = reply.dev
       /\ tick' = Answered(tick, m, reply.answer)
       /\ confirm' = Answered(confirm, m, reply.answer)
       /\ abort' = Answered(abort, m, reply.answer)
       /\ notes' = IF reply.answer = "cancelled"
                   THEN Append(notes, [job |-> m.job, outcome |-> "cancelled"]) ELSE notes
  /\ wire' = Tail(wire)
  /\ UNCHANGED <<row, report, session, hold, ticked, apply, events>>

\* A result is notified if there is a session.
DownloadEnds ==
  /\ dev.phase = "downloading"
  /\ \E o \in {"staged", "failed", "url_expired"} :
       /\ dev' = [dev EXCEPT !.results = With(dev.active, o),
                             !.active = IF o = "staged" THEN @ ELSE 0,
                             !.phase = IF o = "staged" THEN "staged" ELSE "none"]
       /\ notes' = IF session.up THEN Append(notes, [job |-> dev.active, outcome |-> o])
                  ELSE notes
  /\ UNCHANGED <<row, calls, wire, report, session, hold, ticked, apply, events>>

\* The agent stops, its binary is swapped and the new one starts, or it cannot
\* be and the old one comes back.
Swap ==
  /\ dev.phase = "installing" /\ Down
  /\ \/ dev' = [dev EXCEPT !.phase = "probation", !.runs = dev.active, !.old = dev.runs]
     \/ dev' = [dev EXCEPT !.phase = "none", !.active = 0,
                           !.results = With(dev.active, "failed")]
  /\ UNCHANGED <<row, hold, ticked, apply, events>>

\* The watchdog's deadline, a crash loop or an abort: back to the old version.
RollBack ==
  /\ dev.phase \in {"probation", "rolling"} /\ Down
  /\ dev' = [dev EXCEPT !.phase = "none", !.active = 0,
                        !.runs = IF dev.active = dev.runs THEN dev.old ELSE @,
                        !.results = With(dev.active, "rolled_back")]
  /\ UNCHANGED <<row, hold, ticked, apply, events>>

\* A power cut takes the staged files with it.
LoseFiles ==
  /\ dev.phase \in {"downloading", "staged"} /\ Happens /\ Down
  /\ dev' = [dev EXCEPT !.phase = "none", !.active = 0]
  /\ UNCHANGED <<row, hold, ticked, apply>>

----------------------------------------------------------------------------
\* The configuration planes' apply on this device: deviceUpdateInFlight is
\* asked before it starts.

StartApply ==
  /\ apply = "none" /\ ~hold /\ session.up /\ Happens
  /\ apply' = IF ticked THEN "pending" ELSE "early"
  /\ UNCHANGED <<row, calls, link, dev, hold, ticked>>
EndApply ==
  /\ apply # "none" /\ apply' = "none"
  /\ UNCHANGED <<row, calls, link, dev, hold, ticked, events>>

Pass ==
  \/ RefreshInFlight \/ \E op \in Ops, j \in Jobs : ReadJob(op, j)
  \/ StartQueued \/ CannotStart \/ LetGo \/ StageAnswered
  \/ InstallStaged \/ InstallAnswered \/ MarkOverdue \/ ExpireQueued
Confirm == ConfirmAnswered \/ \E j \in Jobs : SeeCandidate(j) \/ SendConfirm(j)
Admin == AbortAnswered \/ \E j \in Jobs : CreateJob(j) \/ Abort(j)
Reports == HandleNote \/ HandleResult \/ Resync
Link == Connect \/ Drop \/ TimeOut \/ Crash
Device == Handle \/ DownloadEnds \/ Swap \/ RollBack \/ LoseFiles
Step == Pass \/ Confirm \/ Admin \/ Reports \/ Link \/ Device \/ StartApply \/ EndApply

Moved(j) == row'[j].state # row[j].state
HasCopy(c, j) == c # NoCall /\ c.job = j
KeepsCopy(j) == \/ HasCopy(tick, j) /\ HasCopy(tick', j)
                \/ HasCopy(abort, j) /\ HasCopy(abort', j)
SentBack(j) == dev.active = j /\ row'[j].state = "queued"
Noted ==
  /\ reopened' = reopened \cup {j \in Jobs : row[j].state \in Final /\ row'[j].state \in Open}
  /\ crossed' = crossed \cup {j \in Jobs : Moved(j) /\ (KeepsCopy(j) \/ SentBack(j))}
Next == Step /\ Noted

Spec == Init /\ [][Next]_vars

----------------------------------------------------------------------------
\* Properties.

\* "One open job per device" and "`ap:4` while open, null once final"
\* (jobs.spec.ts, agent_update_job.ts).
OneOpenJob ==
  /\ \A j \in Jobs : row[j].key <=> row[j].state \in Open
  /\ \A i, j \in Jobs : row[i].state \in Open /\ row[j].state \in Open => i = j

\* Whoever saves an old copy of a row, no closed job keeps its device's key (it
\* would let no other job on the device, ever), no two jobs have it, and a job is
\* open without it, so beside another, only if an old copy saved over its closed
\* row has opened it again.
OneOpenUnlessReopened ==
  /\ \A j \in Jobs : row[j].key => row[j].state \in Open
  /\ \A j \in Jobs \ reopened : row[j].state \in Open => row[j].key
  /\ \A i, j \in Jobs : row[i].key /\ row[j].key => i = j

\* The record never contradicts the device, however the handlers overlap: a
\* confirmed job is one the device kept, and no job it kept is recorded as
\* failed, rolled back or expired.
VerdictIsTrue ==
  \A j \in Jobs :
    /\ row[j].state = "confirmed" => j \in dev.kept
    /\ j \in dev.kept => row[j].state \notin {"failed", "rolled_back", "expired"}

\* No apply of a configuration plane is under way on a device that swaps or
\* tests a binary for an open job, unless it began before the first pass
\* after a restart (state.ts: "at most one tick (5 s) behind") or a handler's
\* copy of a row has been overtaken: the in-flight set follows the last save.
NeverBoth ==
  apply = "pending" /\ dev.phase \in {"installing", "probation", "rolling"} /\ crossed = {}
    => row[dev.active].state \notin Open

\* Nobody installs what the admin or the clock has closed, but for a job whose
\* row moved under a copy that a handler had of it, as when it is closed while
\* the pass sends its install.
InstallsOpenJobs ==
  [][dev.phase = "staged" /\ dev'.phase = "installing"
       => row[dev.active].state \notin {"cancelled", "expired"} \/ dev.active \in crossed]_vars

\* No job keeps its device's key for ever: it ends, or is left as unknown with
\* the admin to close it.
KeyGivenBack == []<>(\A j \in Jobs : row[j].key => row[j].state = "unknown")

\* Passes repeat every 5 s and go through all their parts, answers and timeouts
\* come, the device works on and connects again.
Answer == StageAnswered \/ InstallAnswered \/ ConfirmAnswered \/ AbortAnswered
GoesOn == StartQueued \/ CannotStart \/ LetGo \/ InstallStaged \/ MarkOverdue \/ ExpireQueued
Reads(op) == \E j \in Jobs : ReadJob(op, j)
Fairness ==
  /\ WF_vars(RefreshInFlight /\ Noted) /\ WF_vars(Answer /\ Noted)
  /\ WF_vars(Reports /\ Noted) /\ WF_vars(GoesOn /\ Noted)
  /\ \A op \in {"put", "overdue", "expire"} : SF_vars(Reads(op) /\ Noted)
  /\ WF_vars(Connect /\ Noted) /\ WF_vars((Handle \/ DownloadEnds \/ Swap) /\ Noted)
  /\ WF_vars(EndApply /\ Noted)
FairSpec == Spec /\ Fairness

=============================================================================
