---------------------------- MODULE GatewayApply ----------------------------
(***************************************************************************)
(* The commit-confirm apply protocol between the controller and the agent  *)
(* on one managed gateway (two-way mode):                                  *)
(*                                                                         *)
(*   - the job rows and the section rows, which survive a controller       *)
(*     restart (apply_lifecycle.ts, gateway_store.ts);                     *)
(*   - the gateway's serial queue (serial_queue.ts): one task runs at a    *)
(*     time and holds the queue across its RPCs.  A task is a stack of     *)
(*     frames, one per function the code calls, its top first.  One request *)
(*     runs beside it: that of a timer set inside a task, which inherits   *)
(*     the task's turn (qos_plane_writers.ts);                             *)
(*   - the session, its hello and the one RPC the running task awaits      *)
(*     (agent_hub.ts, gateway_registry.ts);                                *)
(*   - the router's agent, which is not in this repository and is modelled *)
(*     from how the code uses it and from the scripted agent its tests run *)
(*     against (tests/helpers/fake_gateway.ts).                            *)
(*                                                                         *)
(* A section's content is opaque (a single owned option).  All sections    *)
(* are in one UCI config, whose hash is its content.                       *)
(***************************************************************************)
EXTENDS Integers, Sequences

CONSTANTS
  Sections,       \* the synced sections of the router
  Guarded,        \* those on the management path: a protected job of their own
  Contents,       \* what a section can hold
  Modes,          \* confirm modes a request may ask for
  Checked,        \* do jobs carry router-side checks (config.checks.v1)?
  KeepsConfirmed, \* does the agent list a confirmed job among its results?
  WindowEdits,    \* does the router's admin also edit during a confirm window?
  MaxChain,       \* jobs one request may produce (MAX_CHAIN)
  MaxPending,     \* tasks the serial queue holds, the running one included
  MaxDetached,    \* requests of a timer that inherited a task's turn
  DetachedOn,     \* the frames of a task such a request may come on
  MaxJobs, MaxSessions, MaxEdits, MaxRouterEdits, MaxTimeouts, MaxCrashes

ASSUME ApplyAssumption ==
  /\ Guarded \subseteq Sections
  /\ Modes \subseteq {"agent", "admin_and_agent"}
  /\ {Checked, KeepsConfirmed, WindowEdits} \subseteq BOOLEAN
  /\ \A n \in {MaxChain, MaxPending, MaxJobs} : n \in Nat \ {0}
  /\ \A n \in {MaxSessions, MaxEdits, MaxRouterEdits, MaxTimeouts, MaxCrashes,
                MaxDetached} : n \in Nat

VARIABLES
  \* Controller, persisted.
  jobs,        \* the gateway_applies rows
  rows,        \* the gateway_sections rows
  observed,    \* gateways.observed_hashes
  \* Controller, in memory.
  queue,       \* tasks waiting in the serial queue
  run,         \* frames of the running task, the innermost call first
  reply,       \* the answer it will get
  ingest,      \* the session whose collector.push is being ingested, 0 if none
  \* The connection.
  session,     \* number of the live session, 0 if none
  hello,       \* what its hello said
  wire,        \* requests on the live session the agent has not handled
  \* The router's agent.
  uci,         \* the configuration the router runs
  snapshot,    \* what it ran before the pending job, if one is
  fate,        \* what became of each job on the router
  jobSession,  \* the session the pending job came in on
  agentChecks, \* where the checks of the pending job stand
  results,     \* outcomes not acked yet
  window,      \* each job's confirm window against the clock
  count        \* how often each bounded event happened

persisted == <<jobs, rows, observed>>
memory == <<queue, run, reply, ingest>>
link == <<session, hello, wire>>
router == <<uci, snapshot, fate, jobSession, agentChecks, results>>
vars == <<persisted, memory, link, router, window, count>>

JobIds == 1..MaxJobs
Sess == 0..MaxSessions
Config == [Sections -> Contents]
NoPartial == [s \in {} |-> s]
Partial == UNION {[D -> Contents] : D \in SUBSET Sections}

JobStates == {"none", "queued", "sending", "pending_confirm", "confirmed",
              "rolled_back", "failed", "expired", "cancelled"}
Finished == {"confirmed", "rolled_back", "failed", "expired", "cancelled"}
InFlight == {"sending", "pending_confirm"}
ChecksStates == {"none", "pending", "passed", "failed", "overridden"}

Job == [state : JobStates,
        mode : {"agent", "admin_and_agent"},
        sentIn : Sess,          \* sessions up to this one began before sentAt
        reconnected : BOOLEAN,  \* agentReconnectedAt
        agentHalf : BOOLEAN,    \* agentConfirmedAt
        halfFrom : Sess,        \* history: the session of the push behind it
        adminHalf : BOOLEAN,    \* adminConfirmedAt
        checks : ChecksStates,  \* checksState
        retried : BOOLEAN,
        assumed : BOOLEAN,      \* outcome.assumed
        chainStep : 0..MaxChain,
        secs : SUBSET Sections, \* perchIds
        written : Partial,
        replaced : Partial,     \* replacedRouterContent
        base : Config]          \* baseHashes

Row == [base : Contents, router : Contents, desired : Contents,
        conflict : {"none", "merge", "rollback_discarded"},
        discarded : Contents]   \* the router's side of a rollback_discarded

Result == [job : JobIds,
           outcome : {"rolled_back", "confirmed"},
           checksFailed : BOOLEAN,  \* its reason; the others are not told apart
           hash : Config,
           discarded : Partial]

Task == [t : {"hello", "read"}]
        \cup [t : {"result"}, res : Result]
        \cup [t : {"push"}, sess : Sess]
        \cup [t : {"checks"}, job : JobIds, state : {"passed"}]

Frame == [f : {"sendApply", "awaitApply", "tryConfirm", "awaitConfirm",
               "awaitRollback", "chainNext", "readIfConfirmed"}, job : JobIds]
         \cup [f : {"onAgentReconnected", "readAndReconcile", "awaitRead",
                    "readLater"}]
         \cup [f : {"applyResult", "ackResults"}, res : Result]
         \cup [f : {"applyResults"}, set : SUBSET Result]
         \cup [f : {"readIfMoved"}, hash : Config \cup {NoPartial}]
         \cup [f : {"onPushAccepted"}, sess : Sess]
         \cup [f : {"recordChecksReport"}, job : JobIds, state : {"passed"}]

Request == [m : {"apply", "confirm", "rollback"}, job : JobIds,
            override : BOOLEAN, late : BOOLEAN]
           \cup [m : {"read"}, late : BOOLEAN]

Reply == [code : {"none", "offline", "timeout", "refused", "busy", "stale_base",
                  "unknown_apply", "not_reconnected", "checks_pending",
                  "pending_confirm", "rolling_back"}]
         \cup [code : {"noop", "confirmed", "read"}, hash : Config]
         \cup [code : {"apply_failed", "deadline_passed"}, res : Result]

Hello == [apply : 0..MaxJobs, checks : ChecksStates,
          results : SUBSET Result, hash : Config \cup {NoPartial}]

PersistedOK ==
  jobs \in [JobIds -> Job] /\ rows \in [Sections -> Row] /\ observed \in Config

MemoryOK ==
  queue \in Seq(Task) /\ run \in Seq(Frame) /\ reply \in Reply /\ ingest \in Sess

LinkOK == session \in Sess /\ hello \in Hello /\ wire \in Seq(Request)

RouterOK ==
  /\ uci \in Config /\ snapshot \in Config
  /\ fate \in [JobIds -> {"none", "live", "kept", "noop", "restored"}]
  /\ jobSession \in Sess
  /\ agentChecks \in {"none", "pending", "passed"}
  /\ results \in SUBSET Result

ClockOK ==
  /\ window \in [JobIds -> {"none", "open", "closed", "over"}]
  /\ count \in [sessions : Sess, edits : 0..MaxEdits,
                routerEdits : 0..MaxRouterEdits, timeouts : 0..MaxTimeouts,
                crashes : 0..MaxCrashes, detached : 0..MaxDetached]

TypeOK == PersistedOK /\ MemoryOK /\ LinkOK /\ RouterOK /\ ClockOK

-----------------------------------------------------------------------------
NoReply == [code |-> "none"]
NoHello == [apply |-> 0, checks |-> "none", results |-> {}, hash |-> NoPartial]

Init ==
  \E c \in Config :
    /\ uci = c /\ snapshot = c /\ observed = c
    /\ rows = [s \in Sections |->
                [base |-> c[s], router |-> c[s], desired |-> c[s],
                 conflict |-> "none", discarded |-> c[s]]]
    /\ jobs = [j \in JobIds |->
                [state |-> "none", mode |-> "agent", sentIn |-> 0,
                 reconnected |-> FALSE, agentHalf |-> FALSE, halfFrom |-> 0,
                 adminHalf |-> FALSE, checks |-> "none", retried |-> FALSE, assumed |-> FALSE,
                 chainStep |-> 0, secs |-> {}, written |-> NoPartial,
                 replaced |-> NoPartial, base |-> c]]
    /\ queue = <<>> /\ run = <<>> /\ reply = NoReply /\ ingest = 0
    /\ session = 0 /\ wire = <<>>
    /\ hello = NoHello
    /\ fate = [j \in JobIds |-> "none"] /\ jobSession = 0
    /\ agentChecks = "none" /\ results = {}
    /\ window = [j \in JobIds |-> "none"]
    /\ count = [sessions |-> 0, edits |-> 0, routerEdits |-> 0,
                timeouts |-> 0, crashes |-> 0, detached |-> 0]

-----------------------------------------------------------------------------
(* The serial queue and the running task.                                  *)

Idle == run = <<>>
Running(f) == run # <<>> /\ Head(run).f = f
Top == Head(run)
Return == run' = Tail(run)
Call(frames) == run' = frames \o Tail(run)

\* The task is queued, or dropped (QueueFullError) when too much waits.
Enqueued(q, task) ==
  IF Len(q) + (IF Idle THEN 0 ELSE 1) < MaxPending THEN Append(q, task) ELSE q

Awaiting == run # <<>> /\ Head(run).f \in {"awaitApply", "awaitConfirm",
                                           "awaitRollback", "awaitRead"}
\* The steps of a task between two RPCs read and write the controller's state;
\* what goes on around it meanwhile commutes with them and happens after.  A
\* crash may come between any two.
Waiting == Idle \/ Awaiting
Answered(f) == Running(f) /\ reply.code # "none" /\ reply' = NoReply
Ask(request) == wire' = Append(wire, request)

-----------------------------------------------------------------------------
(* Jobs and rows.                                                          *)

Open(j) == jobs[j].state \in {"queued", "sending", "pending_confirm"}
HasOpenApply == \E j \in JobIds : Open(j)
\* Mutant: the sections of a job whose apply is not answered yet are not held.
CarriedOnceCommitted(s) ==
  \E j \in JobIds : jobs[j].state = "pending_confirm" /\ s \in jobs[j].secs
Carried(s) == \E j \in JobIds : jobs[j].state \in InFlight /\ s \in jobs[j].secs
\* The next row of gateway_applies.
Fresh(j) == jobs[j].state = "none" /\ \A k \in JobIds : k < j => jobs[k].state # "none"

\* planApply: conflicts are blocked; ordinary sections go before guarded ones.
Drafts == {s \in Sections : rows[s].conflict = "none"
                            /\ rows[s].desired # rows[s].router}
Planned == IF Drafts \ Guarded # {} THEN Drafts \ Guarded ELSE Drafts
Blocked == \E s \in Sections : rows[s].conflict # "none"

\* applyJob: the plan's first job onto a job row.
WithPlan(job) ==
  [job EXCEPT !.secs = Planned,
              !.written = [s \in Planned |-> rows[s].desired],
              !.replaced = [s \in Planned |-> rows[s].router],
              !.base = observed]

CreateApply(j, mode, step) ==
  jobs' = [jobs EXCEPT ![j] =
             WithPlan([@ EXCEPT !.state = "queued", !.mode = mode,
                                !.chainStep = step])]

\* Mutant: the error's code is stored as the state.
FailApplyWithCode(j) == jobs' = [jobs EXCEPT ![j].state = "timeout"]
FailApply(j) == jobs' = [jobs EXCEPT ![j].state = "failed"]

ChecksAllowConfirm(j) == jobs[j].checks \in {"none", "passed", "overridden"}

\* nextChecksState
NextChecks(current, reported) ==
  IF reported = "none" \/ current = "overridden"
     \/ (current \in {"passed", "failed"} /\ reported = "pending")
  THEN current ELSE reported

\* Mutant: the job's own row is not saved.
FinishRows(j, hash) ==
  /\ UNCHANGED jobs
  /\ rows' = [s \in Sections |->
                IF s \in jobs[j].secs
                THEN [rows[s] EXCEPT !.base = jobs[j].written[s],
                                     !.router = jobs[j].written[s]]
                ELSE rows[s]]
  /\ observed' = hash
\* finishConfirmed: the job is live and kept, B := R := written.
FinishConfirmed(j, hash) ==
  /\ jobs' = [jobs EXCEPT ![j].state = "confirmed"]
  /\ rows' = [s \in Sections |->
                IF s \in jobs[j].secs
                THEN [rows[s] EXCEPT !.base = jobs[j].written[s],
                                     !.router = jobs[j].written[s]]
                ELSE rows[s]]
  /\ observed' = hash

\* settleRolledBack: the content from before the job is back, the draft stays
\* and a router edit the rollback discarded becomes a conflict.
SettleRolledBack(j, res) ==
  /\ jobs' = [jobs EXCEPT
       ![j].state = IF Open(j) THEN "rolled_back" ELSE @,
       ![j].assumed = FALSE,
       ![j].checks = IF res.checksFailed /\ @ # "overridden"
                     THEN "failed" ELSE @]
  /\ rows' = [s \in Sections |->
       IF s \notin jobs[j].secs THEN rows[s]
       ELSE IF s \in DOMAIN res.discarded
               /\ res.discarded[s] # jobs[j].replaced[s]
       THEN [rows[s] EXCEPT !.router = jobs[j].replaced[s],
                            !.conflict = "rollback_discarded",
                            !.discarded = res.discarded[s]]
       ELSE [rows[s] EXCEPT !.router = jobs[j].replaced[s]]]
  /\ observed' = res.hash

\* reconcileRow in two-way mode, of one section observed as o.
Settled(row) == IF row.conflict = "merge" THEN "none" ELSE row.conflict
ReconcileRow(s, o) ==
  LET row == rows[s] IN
  CASE Carried(s) -> [row EXCEPT !.router = o]
    [] ~Carried(s) /\ o = row.base ->
         [row EXCEPT !.router = o, !.conflict = Settled(row)]
    [] ~Carried(s) /\ o # row.base /\ row.desired \in {row.base, o} ->
         [row EXCEPT !.base = o, !.router = o, !.desired = o,
                     !.conflict = Settled(row)]
    [] ~Carried(s) /\ o # row.base /\ row.desired \notin {row.base, o} ->
         IF row.conflict # "none" /\ row.router = o THEN row
         ELSE [row EXCEPT !.router = o, !.conflict = "merge"]

-----------------------------------------------------------------------------
(* The frames of the running task, in the order the code calls them.       *)

CallOf(fn, j) == [f |-> fn, job |-> j]
Read == [f |-> "readAndReconcile"]
Settle(res) == [f |-> "applyResult", res |-> res]

\* What the handler queued for each event of the agent calls.
Handler(task) ==
  CASE task.t = "hello" ->
         IF session = 0 THEN <<>>
         ELSE <<[f |-> "applyResults", set |-> hello.results],
                [f |-> "onAgentReconnected"],
                [f |-> "readIfMoved", hash |-> hello.hash]>>
    [] task.t = "result" -> <<Settle(task.res), [f |-> "readLater"]>>
    [] task.t = "push"   -> <<[f |-> "onPushAccepted", sess |-> task.sess]>>
    [] task.t = "checks" -> <<[f |-> "recordChecksReport", job |-> task.job,
                               state |-> task.state]>>
    [] task.t = "read"   -> <<Read>>

StartTask ==
  /\ Idle /\ queue # <<>>
  /\ queue' = Tail(queue) /\ run' = Handler(Head(queue))
  /\ UNCHANGED <<persisted, reply, ingest, link, router, window, count>>

\* The outcomes the hello carried, the oldest job's first.
ApplyResults ==
  /\ Running("applyResults")
  /\ \/ Top.set = {} /\ Return
     \/ \E r \in Top.set :
          /\ \A other \in Top.set : r.job <= other.job
          /\ Call(<<Settle(r), [f |-> "applyResults", set |-> Top.set \ {r}]>>)
  /\ UNCHANGED <<persisted, queue, reply, ingest, link, router, window, count>>

\* A result settles an open job, or one whose rollback was only assumed.
\* Mutant: one that counts as rolled back already is left as it is.
RestoresOpen(res) == res.outcome = "rolled_back" /\ Open(res.job)
Restores(res) ==
  res.outcome = "rolled_back" /\ (Open(res.job) \/ jobs[res.job].assumed)

ApplyResult ==
  /\ Running("applyResult")
  /\ LET res == Top.res
         keeps == res.outcome = "confirmed" /\ Open(res.job)
         restores == Restores(res)
         ack == [f |-> "ackResults", res |-> res]
     IN \/ /\ keeps
           /\ FinishConfirmed(res.job, res.hash)
           /\ Call(<<CallOf("chainNext", res.job), ack>>)
        \/ restores /\ SettleRolledBack(res.job, res) /\ Call(<<ack>>)
        \/ ~keeps /\ ~restores /\ Call(<<ack>>) /\ UNCHANGED persisted
  /\ UNCHANGED <<queue, reply, ingest, link, router, window, count>>

\* gateway.config.ack; an ack that does not arrive is not repeated here.
AckResults ==
  /\ Running("ackResults") /\ Return
  /\ \/ session # 0 /\ results' = {r \in results : r.job # Top.res.job}
     \/ UNCHANGED results
  /\ UNCHANGED <<persisted, queue, reply, ingest, link, window, count,
                 uci, snapshot, fate, jobSession, agentChecks>>

\* A queued job is planned again from the rows as they are now, then sent.
SendApply ==
  /\ Running("sendApply")
  /\ LET j == Top.job IN
     \/ session = 0 /\ Return /\ UNCHANGED <<jobs, wire>>
     \/ /\ session # 0 /\ Planned = {}
        /\ jobs' = [jobs EXCEPT ![j].state = IF Blocked THEN "failed" ELSE "cancelled"]
        /\ Return /\ UNCHANGED wire
     \/ /\ session # 0 /\ Planned # {}
        /\ jobs' = [jobs EXCEPT ![j] = [WithPlan(@) EXCEPT !.state = "sending",
                                                           !.sentIn = session]]
        /\ Ask([m |-> "apply", job |-> j, override |-> FALSE, late |-> FALSE])
        /\ Call(<<CallOf("awaitApply", j)>>)
  /\ UNCHANGED <<rows, observed, queue, reply, ingest, session, hello, router,
                 window, count>>

\* A refusal because the router moved on is read, merged and retried, once.
\* Mutant: an answer that did not come is a reason to send again, too.
RetriesUnanswered(j) ==
  reply.code \in {"stale_base", "timeout", "offline"} /\ ~jobs[j].retried
Retries(j) == reply.code = "stale_base" /\ ~jobs[j].retried

\* onApplyReply and onSendError.
AwaitApply ==
  /\ Answered("awaitApply")
  /\ LET j == Top.job IN
     \/ /\ reply.code \in {"offline", "timeout"} /\ ~Retries(j)
        /\ Return /\ UNCHANGED persisted
     \/ /\ reply.code = "apply_failed"
        /\ Call(<<Settle(reply.res)>>) /\ UNCHANGED persisted
     \/ /\ Retries(j)
        /\ jobs' = [jobs EXCEPT ![j].retried = TRUE, ![j].state = "queued"]
        /\ Call(<<Read, CallOf("sendApply", j)>>)
        /\ UNCHANGED <<rows, observed>>
     \/ /\ reply.code \in {"busy", "refused", "stale_base"} /\ ~Retries(j)
        /\ FailApply(j) /\ Return /\ UNCHANGED <<rows, observed>>
     \/ /\ reply.code = "pending_confirm"
        /\ jobs' = [jobs EXCEPT ![j].state = "pending_confirm",
                                ![j].checks = IF Checked THEN "pending" ELSE @]
        /\ Return /\ UNCHANGED <<rows, observed>>
     \/ /\ reply.code = "noop"
        /\ FinishConfirmed(j, reply.hash) /\ Call(<<CallOf("chainNext", j)>>)
  /\ UNCHANGED <<queue, ingest, link, router, window, count>>

\* The next job of the same request; a checked one has the WAN's confirm mode.
ChainNext ==
  /\ Running("chainNext")
  /\ LET j == Top.job  step == jobs[j].chainStep + 1 IN
     \/ /\ step >= MaxChain \/ Planned = {}
        /\ Return /\ UNCHANGED jobs
     \/ /\ step < MaxChain /\ Planned # {}
        /\ \E next \in JobIds, mode \in IF Checked THEN Modes ELSE {jobs[j].mode} :
             /\ Fresh(next) /\ CreateApply(next, mode, step)
             /\ Call(<<CallOf("sendApply", next)>>)
  /\ UNCHANGED <<rows, observed, queue, reply, ingest, link, router, window, count>>

\* Mutant: the admin's half is not waited for.
ReadyWithoutAdmin(j) ==
  /\ jobs[j].state = "pending_confirm" /\ jobs[j].agentHalf
  /\ ChecksAllowConfirm(j) /\ session # 0
\* Mutant: the agent's half is not waited for.
ReadyWithoutAgent(j) ==
  /\ jobs[j].state = "pending_confirm"
  /\ jobs[j].mode = "admin_and_agent" => jobs[j].adminHalf
  /\ ChecksAllowConfirm(j) /\ session # 0
ReadyToConfirm(j) ==
  /\ jobs[j].state = "pending_confirm" /\ jobs[j].agentHalf
  /\ jobs[j].mode = "admin_and_agent" => jobs[j].adminHalf
  /\ ChecksAllowConfirm(j)
  /\ session # 0

TryConfirm ==
  /\ Running("tryConfirm")
  /\ LET j == Top.job IN
     \/ ~ReadyToConfirm(j) /\ Return /\ UNCHANGED wire
     \/ /\ ReadyToConfirm(j)
        /\ Ask([m |-> "confirm", job |-> j, late |-> FALSE,
                override |-> jobs[j].checks = "overridden"])
        /\ Call(<<CallOf("awaitConfirm", j)>>)
  /\ UNCHANGED <<persisted, queue, reply, ingest, session, hello, router,
                 window, count>>

AwaitConfirm ==
  /\ Answered("awaitConfirm")
  /\ LET j == Top.job IN
     \/ /\ reply.code \in {"offline", "timeout", "not_reconnected"}
        /\ Return /\ UNCHANGED persisted
     \/ /\ reply.code = "checks_pending"
        /\ jobs' = [jobs EXCEPT ![j].checks = NextChecks(@, "pending")]
        /\ Return /\ UNCHANGED <<rows, observed>>
     \/ /\ reply.code = "deadline_passed"
        /\ Call(<<Settle(reply.res)>>) /\ UNCHANGED persisted
     \/ /\ reply.code = "unknown_apply"
        /\ FailApply(j) /\ Return /\ UNCHANGED <<rows, observed>>
     \/ /\ reply.code = "confirmed"
        /\ FinishConfirmed(j, reply.hash) /\ Call(<<CallOf("chainNext", j)>>)
  /\ UNCHANGED <<queue, ingest, link, router, window, count>>

\* "Undo now": the result arrives as a notification of its own.
AwaitRollback ==
  /\ Answered("awaitRollback") /\ Return
  /\ UNCHANGED <<persisted, queue, ingest, link, router, window, count>>

\* The job in flight, when this session began after it was sent.
\* Mutant: a job given up for lack of an answer is taken up again.
SentBeforeOrFailed(j) ==
  session # 0 /\ jobs[j].state \in InFlight \cup {"failed"} /\ jobs[j].sentIn < session
SentBefore(j) == session # 0 /\ jobs[j].state \in InFlight /\ jobs[j].sentIn < session

OnAgentReconnected ==
  /\ Running("onAgentReconnected")
  /\ \/ /\ \A j \in JobIds : ~SentBefore(j)
        /\ Return /\ UNCHANGED jobs
     \/ \E j \in JobIds :
          LET pendingHere == hello.apply = j
              lost == jobs[j].state = "sending" /\ \A r \in hello.results : r.job # j
              now == NextChecks(jobs[j].checks, hello.checks)
              passes == now = "passed" /\ jobs[j].checks # "passed"
          IN
          /\ SentBefore(j)
          /\ \/ /\ pendingHere
                /\ jobs' = [jobs EXCEPT ![j].state = "pending_confirm",
                                        ![j].reconnected = TRUE, ![j].checks = now]
                /\ IF passes THEN Call(<<CallOf("tryConfirm", j)>>) ELSE Return
             \/ ~pendingHere /\ lost /\ FailApply(j) /\ Return
             \/ ~pendingHere /\ ~lost /\ Return /\ UNCHANGED jobs
  /\ UNCHANGED <<rows, observed, queue, reply, ingest, link, router, window, count>>

\* The first accepted push is the agent half of the confirm.
OnPushAccepted ==
  /\ Running("onPushAccepted")
  /\ LET waits(j) == jobs[j].state = "pending_confirm" /\ jobs[j].reconnected
                     /\ ~jobs[j].agentHalf
     IN \/ (\A j \in JobIds : ~waits(j)) /\ Return /\ UNCHANGED jobs
        \/ \E j \in JobIds :
             /\ waits(j)
             /\ jobs' = [jobs EXCEPT ![j].agentHalf = TRUE, ![j].halfFrom = Top.sess]
             /\ Call(<<CallOf("tryConfirm", j), CallOf("readIfConfirmed", j)>>)
  /\ UNCHANGED <<rows, observed, queue, reply, ingest, link, router, window, count>>

RecordChecksReport ==
  /\ Running("recordChecksReport")
  /\ LET j == Top.job
         now == NextChecks(jobs[j].checks, Top.state)
     IN \/ ~Open(j) /\ Return /\ UNCHANGED jobs
        \/ /\ Open(j)
           /\ jobs' = [jobs EXCEPT ![j].checks = now]
           /\ IF now = "passed" /\ jobs[j].checks # "passed"
              THEN Call(<<CallOf("tryConfirm", j)>>) ELSE Return
  /\ UNCHANGED <<rows, observed, queue, reply, ingest, link, router, window, count>>

\* A read of its own, queued behind what waits already.
ReadIfConfirmed ==
  /\ Running("readIfConfirmed") /\ Return
  /\ queue' = IF jobs[Top.job].state = "confirmed"
              THEN Enqueued(queue, [t |-> "read"]) ELSE queue
  /\ UNCHANGED <<persisted, reply, ingest, link, router, window, count>>

ReadLater ==
  /\ Running("readLater") /\ Return
  /\ queue' = Enqueued(queue, [t |-> "read"])
  /\ UNCHANGED <<persisted, reply, ingest, link, router, window, count>>

ReadIfMoved ==
  /\ Running("readIfMoved")
  /\ IF Top.hash = observed THEN Return ELSE Call(<<Read>>)
  /\ UNCHANGED <<persisted, queue, reply, ingest, link, router, window, count>>

ReadAndReconcile ==
  /\ Running("readAndReconcile")
  /\ \/ session = 0 /\ Return /\ UNCHANGED wire
     \/ /\ session # 0 /\ Ask([m |-> "read", late |-> FALSE])
        /\ Call(<<[f |-> "awaitRead"]>>)
  /\ UNCHANGED <<persisted, queue, reply, ingest, session, hello, router,
                 window, count>>

\* mergeRead: the rows and the hashes on record, from one and the same read.
\* Mutant: the hashes are those of the router by now.
ObserveNewer(config) ==
  /\ rows' = [s \in Sections |-> ReconcileRow(s, config[s])]
  /\ observed' = uci
Observe(config) ==
  /\ rows' = [s \in Sections |-> ReconcileRow(s, config[s])]
  /\ observed' = config

AwaitRead ==
  /\ Answered("awaitRead") /\ Return
  /\ \/ reply.code = "read" /\ Observe(reply.hash)
     \/ reply.code # "read" /\ UNCHANGED <<rows, observed>>
  /\ UNCHANGED <<jobs, queue, ingest, link, router, window, count>>

Controller ==
  \/ StartTask \/ ApplyResults \/ ApplyResult \/ AckResults
  \/ SendApply \/ AwaitApply \/ ChainNext \/ TryConfirm \/ AwaitConfirm
  \/ AwaitRollback \/ OnAgentReconnected \/ OnPushAccepted
  \/ RecordChecksReport \/ ReadIfConfirmed \/ ReadLater \/ ReadIfMoved
  \/ ReadAndReconcile \/ AwaitRead

-----------------------------------------------------------------------------
(* The admin's requests.  Each is a task of the same queue; it starts when  *)
(* the queue reaches it, so it is enabled whenever no task runs.  That of a *)
(* detached timer is the exception.                                         *)

LeavesRouter == UNCHANGED <<queue, reply, ingest, link, router, window>>

\* A job that cannot be sent now waits, confirmed by the agent alone.  (MaxJobs
\* leaves room for the chain of the request.)
RequestApply(j, mode) ==
  /\ Idle /\ ~HasOpenApply /\ Planned # {}
  /\ Fresh(j) /\ j + MaxChain <= MaxJobs + 1
  /\ CreateApply(j, IF session = 0 THEN "agent" ELSE mode, 0)
  /\ run' = IF session = 0 THEN <<>> ELSE <<CallOf("sendApply", j)>>
  /\ LeavesRouter /\ UNCHANGED <<rows, observed, count>>

\* requestQosSync, from the timer that onApply sets when a job ends while the QoS
\* package waits: startApply finds the gateway's turn held and runs at once,
\* whatever task has the turn (when none has, that is RequestApply).  The task on
\* whose steps it comes is taken to go on when the request is done.
DetachedRequest(j) ==
  /\ ~Idle /\ Top.f \in DetachedOn /\ count.detached < MaxDetached
  /\ \E k \in JobIds : jobs[k].state \in Finished
  /\ ~HasOpenApply /\ Planned # {} /\ Fresh(j)
  /\ CreateApply(j, "agent", 0)
  /\ \/ session = 0 /\ UNCHANGED run
     \/ session # 0 /\ ~Awaiting /\ run' = <<CallOf("sendApply", j)>> \o run
  /\ count' = [count EXCEPT !.detached = @ + 1]
  /\ LeavesRouter /\ UNCHANGED <<rows, observed>>

\* "Keep changes", and "Keep anyway" while the router's checks are pending.
AdminConfirm(j, overrideChecks) ==
  /\ Idle
  /\ \/ jobs[j].state = "sending"
     \/ jobs[j].state = "pending_confirm" /\ window[j] = "open"
  /\ ~jobs[j].adminHalf \/ overrideChecks   \* again would only retry the confirm
  /\ \/ ChecksAllowConfirm(j) /\ ~overrideChecks
     \/ jobs[j].checks = "pending" /\ overrideChecks
  /\ jobs' = [jobs EXCEPT ![j].adminHalf = TRUE,
                          ![j].checks = IF overrideChecks THEN "overridden" ELSE @]
  /\ run' = <<CallOf("tryConfirm", j)>>
  /\ LeavesRouter /\ UNCHANGED <<rows, observed, count>>

RevertApply(j) ==
  /\ Idle
  /\ \/ /\ jobs[j].state = "queued"
        /\ jobs' = [jobs EXCEPT ![j].state = "cancelled"]
        /\ UNCHANGED <<run, wire>>
     \/ /\ jobs[j].state = "pending_confirm" /\ session # 0
        /\ Ask([m |-> "rollback", job |-> j, override |-> FALSE, late |-> FALSE])
        /\ run' = <<CallOf("awaitRollback", j)>>
        /\ UNCHANGED jobs
  /\ UNCHANGED <<rows, observed, queue, reply, ingest, session, hello, router,
                 window, count>>

\* A draft edit; refused for the sections of a job in flight.
EditSections(s, c) ==
  /\ Idle /\ count.edits < MaxEdits
  /\ ~Carried(s) /\ rows[s].desired # c
  /\ rows' = [rows EXCEPT ![s].desired = c]
  /\ count' = [count EXCEPT !.edits = @ + 1]
  /\ LeavesRouter /\ UNCHANGED <<jobs, observed, run>>

\* B := R, C := the side taken; refused to no section, in flight or not.
ResolveConflict(s, take) ==
  LET routerSide == IF rows[s].conflict = "rollback_discarded"
                    THEN rows[s].discarded ELSE rows[s].router
  IN
  /\ Idle /\ rows[s].conflict # "none"
  /\ rows' = [rows EXCEPT ![s].base = rows[s].router, ![s].conflict = "none",
                          ![s].desired = IF take = "router" THEN routerSide ELSE @]
  /\ LeavesRouter /\ UNCHANGED <<jobs, observed, run, count>>

Admin ==
  \/ \E j \in JobIds, mode \in Modes : RequestApply(j, mode)
  \/ \E j \in JobIds : DetachedRequest(j)
  \/ \E j \in JobIds, o \in BOOLEAN : AdminConfirm(j, o)
  \/ \E j \in JobIds : RevertApply(j)
  \/ \E s \in Sections, c \in Contents : EditSections(s, c)
  \/ \E s \in Sections, take \in {"router", "controller"} : ResolveConflict(s, take)

-----------------------------------------------------------------------------
(* tickGateway: what the 5 s tick does with the open job, also a task.      *)

TickExpire(j) ==
  /\ Idle /\ jobs[j].state = "queued"
  /\ jobs' = [jobs EXCEPT ![j].state = "expired"]
  /\ LeavesRouter /\ UNCHANGED <<rows, observed, run, count>>

TickSend(j) ==
  /\ Idle /\ jobs[j].state = "queued" /\ session # 0
  /\ run' = <<CallOf("sendApply", j)>>
  /\ LeavesRouter /\ UNCHANGED <<persisted, count>>

\* A confirm that failed on the wire is sent again while the window is open.
TickConfirm(j) ==
  /\ Idle /\ window[j] = "open" /\ ReadyToConfirm(j)
  /\ run' = <<CallOf("tryConfirm", j)>>
  /\ LeavesRouter /\ UNCHANGED <<persisted, count>>

\* Mutant: the assumed rollback is not told from a reported one.
AssumeForGood(j) == jobs' = [jobs EXCEPT ![j].state = "rolled_back"]
Assume(j) == jobs' = [jobs EXCEPT ![j].state = "rolled_back", ![j].assumed = TRUE]

\* assumeRolledBack: no result by the deadline and its grace.
TickAssume(j) ==
  /\ Idle /\ jobs[j].state = "pending_confirm" /\ window[j] = "over"
  /\ Assume(j)
  /\ rows' = [s \in Sections |->
                IF s \in jobs[j].secs
                THEN [rows[s] EXCEPT !.router = jobs[j].replaced[s]] ELSE rows[s]]
  /\ LeavesRouter /\ UNCHANGED <<observed, run, count>>

\* Mutant: the timeout is looked at only while the router is there.
TickNoAnswerOnline(j) ==
  /\ Idle /\ jobs[j].state = "sending" /\ session # 0
  /\ FailApply(j)
  /\ LeavesRouter /\ UNCHANGED <<rows, observed, run, count>>

\* Mutant: the tick does not wait for the queue.
TickNoAnswerUnqueued(j) ==
  /\ jobs[j].state = "sending"
  /\ FailApply(j)
  /\ LeavesRouter /\ UNCHANGED <<rows, observed, run, count>>

\* SENDING_TIMEOUT_SECONDS without a reply or a hello that settles the job.
TickNoAnswer(j) ==
  /\ Idle /\ jobs[j].state = "sending"
  /\ FailApply(j)
  /\ LeavesRouter /\ UNCHANGED <<rows, observed, run, count>>

Tick == \E j \in JobIds : TickExpire(j) \/ TickSend(j) \/ TickConfirm(j)
                          \/ TickAssume(j) \/ TickNoAnswer(j)

-----------------------------------------------------------------------------
(* The agent on the router: external, as the code and its scripted agent    *)
(* take it.  It handles a request at once or never (the session drops); an  *)
(* answer to a request the controller gave up on is not read.               *)

Live(j) == fate[j] = "live"
AnyLive == \E j \in JobIds : Live(j)
Received(m) == wire # <<>> /\ Head(wire).m = m /\ wire' = Tail(wire)
Answer(r) == reply' = IF Head(wire).late THEN reply ELSE r
Over(config, part) == [s \in Sections |-> IF s \in DOMAIN part THEN part[s]
                                                               ELSE config[s]]

\* A notification queues a task of the controller, when a session carries it.
Notify(task) == queue' = IF session = 0 THEN queue ELSE Enqueued(queue, task)

Outcome(j, outcome, checksFailed, hash, discarded) ==
  [job |-> j, outcome |-> outcome, checksFailed |-> checksFailed, hash |-> hash,
   discarded |-> discarded]

AgentApply ==
  /\ Received("apply")
  /\ LET j == Head(wire).job
         moved == uci # jobs[j].base
         after == Over(uci, jobs[j].written)
     IN
     \/ /\ AnyLive /\ Answer([code |-> "busy"])
        /\ UNCHANGED <<router, window>>
     \/ /\ ~AnyLive /\ moved /\ Answer([code |-> "stale_base"])
        /\ UNCHANGED <<router, window>>
     \/ ~AnyLive /\ Answer([code |-> "refused"]) /\ UNCHANGED <<router, window>>
     \/ /\ ~AnyLive /\ ~moved          \* failed after the first commit
        /\ LET res == Outcome(j, "rolled_back", FALSE, uci, NoPartial)
           IN results' = results \cup {res}
              /\ Answer([code |-> "apply_failed", res |-> res])
        /\ fate' = [fate EXCEPT ![j] = "restored"]
        /\ UNCHANGED <<uci, snapshot, jobSession, agentChecks, window>>
     \/ /\ ~AnyLive /\ ~moved /\ after = uci
        /\ Answer([code |-> "noop", hash |-> uci])
        /\ fate' = [fate EXCEPT ![j] = "noop"]
        /\ UNCHANGED <<uci, snapshot, jobSession, agentChecks, results, window>>
     \/ /\ ~AnyLive /\ ~moved /\ after # uci
        /\ uci' = after /\ snapshot' = uci
        /\ fate' = [fate EXCEPT ![j] = "live"]
        /\ jobSession' = session
        /\ agentChecks' = IF Checked THEN "pending" ELSE "none"
        /\ window' = [window EXCEPT ![j] = "open"]
        /\ Answer([code |-> "pending_confirm"])
        /\ UNCHANGED results
  /\ UNCHANGED <<persisted, queue, run, ingest, session, hello, count>>

AgentConfirm ==
  /\ Received("confirm")
  /\ LET j == Head(wire).job
         held == agentChecks = "pending" /\ ~Head(wire).override
     IN
     \/ /\ ~Live(j)
        /\ \/ \E r \in results : r.job = j
                                 /\ Answer([code |-> "deadline_passed", res |-> r])
           \/ /\ \A r \in results : r.job # j
              /\ Answer([code |-> "unknown_apply"])
        /\ UNCHANGED router
     \/ /\ Live(j) /\ session <= jobSession
        /\ Answer([code |-> "not_reconnected"]) /\ UNCHANGED router
     \/ /\ Live(j) /\ session > jobSession /\ held
        /\ Answer([code |-> "checks_pending"]) /\ UNCHANGED router
     \/ /\ Live(j) /\ session > jobSession /\ ~held
        /\ fate' = [fate EXCEPT ![j] = "kept"]
        /\ agentChecks' = "none"
        /\ results' = IF KeepsConfirmed
                      THEN results \cup {Outcome(j, "confirmed", FALSE, uci, NoPartial)}
                      ELSE results
        /\ Answer([code |-> "confirmed", hash |-> uci])
        /\ snapshot' = uci /\ jobSession' = 0 /\ UNCHANGED uci
  /\ UNCHANGED <<persisted, queue, run, ingest, session, hello, window, count>>

\* The snapshot is back; edits of the window are listed as discarded.
Restored(j, checksFailed) ==
  LET committed == Over(snapshot, jobs[j].written)
      edited == {s \in Sections : uci[s] # committed[s]}
  IN Outcome(j, "rolled_back", checksFailed, snapshot, [s \in edited |-> uci[s]])

Restore(j, checksFailed) ==
  /\ Live(j)
  /\ uci' = snapshot
  /\ fate' = [fate EXCEPT ![j] = "restored"]
  /\ agentChecks' = "none"
  /\ results' = results \cup {Restored(j, checksFailed)}
  /\ jobSession' = 0 /\ UNCHANGED snapshot

RestoreAndNotify(j, checksFailed) ==
  Restore(j, checksFailed) /\ Notify([t |-> "result", res |-> Restored(j, checksFailed)])

AgentRollback ==
  /\ Received("rollback")
  /\ LET j == Head(wire).job IN
     \/ RestoreAndNotify(j, FALSE) /\ Answer([code |-> "rolling_back"])
     \/ ~Live(j) /\ Answer([code |-> "unknown_apply"]) /\ UNCHANGED <<queue, router>>
  /\ UNCHANGED <<persisted, run, ingest, session, hello, window, count>>

AgentRead ==
  /\ Received("read") /\ Answer([code |-> "read", hash |-> uci])
  /\ UNCHANGED <<persisted, queue, run, ingest, session, hello, router, window, count>>

\* The agent's own timer: it rolls back unless the job was confirmed.
AgentDeadline(j) ==
  /\ window[j] # "open" /\ RestoreAndNotify(j, FALSE)
  /\ UNCHANGED <<persisted, run, reply, ingest, link, window, count>>

ChecksPass(j) ==
  /\ Live(j) /\ agentChecks = "pending" /\ agentChecks' = "passed"
  /\ Notify([t |-> "checks", job |-> j, state |-> "passed"])
  /\ UNCHANGED <<persisted, run, reply, ingest, link, uci, snapshot, fate,
                 jobSession, results, window, count>>

ChecksFail(j) ==
  /\ agentChecks = "pending" /\ RestoreAndNotify(j, TRUE)
  /\ UNCHANGED <<persisted, run, reply, ingest, link, window, count>>

Agent ==
  /\ Waiting
  /\ \/ AgentApply \/ AgentConfirm \/ AgentRollback \/ AgentRead
     \/ \E j \in JobIds : AgentDeadline(j) \/ ChecksPass(j) \/ ChecksFail(j)

-----------------------------------------------------------------------------
(* The link, the clock, the router's own admin and controller restarts.     *)

\* The socket closes: what was on the wire is lost, and so is, maybe, an
\* answer on its way back.  The running task sees AgentOfflineError.
Closed ==
  /\ session' = 0 /\ wire' = <<>> /\ hello' = NoHello

Drop ==
  /\ session # 0 /\ Closed
  /\ \/ Awaiting /\ reply' = [code |-> "offline"]
     \/ (Awaiting => reply # NoReply) /\ UNCHANGED reply
  /\ UNCHANGED <<persisted, queue, run, ingest, router, window, count>>

\* A fresh session; its hello tells what is pending and what became of the
\* jobs the controller has not acked.  (A router that was off past the
\* deadline has restored its snapshot before it dials.)
Dial ==
  /\ session = 0 /\ count.sessions < MaxSessions
  /\ \A j \in JobIds : Live(j) => window[j] # "over"
  /\ session' = count.sessions + 1
  /\ count' = [count EXCEPT !.sessions = @ + 1]
  /\ hello' = [apply |-> IF AnyLive THEN CHOOSE j \in JobIds : Live(j) ELSE 0,
               checks |-> agentChecks, results |-> results, hash |-> uci]
  /\ queue' = Enqueued(queue, [t |-> "hello"])
  /\ UNCHANGED <<persisted, run, reply, ingest, wire, router, window>>

\* The router restarts: its boot guard restores the snapshot of a pending job.
Reboot ==
  /\ \E j \in JobIds : Restore(j, FALSE)
  /\ Closed
  /\ reply' = IF Awaiting /\ reply = NoReply THEN [code |-> "offline"] ELSE reply
  /\ UNCHANGED <<persisted, queue, run, ingest, window, count>>

\* The RPC's timeout; its request, or its answer, may still be on its way.
Timeout ==
  /\ Awaiting /\ session # 0 /\ count.timeouts < MaxTimeouts
  /\ reply.code # "timeout" /\ reply' = [code |-> "timeout"]
  /\ wire' = [i \in DOMAIN wire |-> [wire[i] EXCEPT !.late = TRUE]]
  /\ count' = [count EXCEPT !.timeouts = @ + 1]
  /\ UNCHANGED <<persisted, queue, run, ingest, session, hello, router, window>>

\* A collector.push is accepted and ingested; only then does the config plane
\* hear of it.  Pushes nothing waits for change nothing and are left out; one
\* is on its way at a time.
AgentPush ==
  /\ session # 0 /\ ingest = 0
  /\ \A i \in DOMAIN queue : queue[i].t # "push"
  /\ \E j \in JobIds : jobs[j].state \in InFlight /\ ~jobs[j].agentHalf
  /\ ingest' = session
  /\ UNCHANGED <<persisted, queue, run, reply, link, router, window, count>>

PushIngested ==
  /\ ingest # 0 /\ ingest' = 0
  /\ queue' = Enqueued(queue, [t |-> "push", sess |-> ingest])
  /\ UNCHANGED <<persisted, run, reply, link, router, window, count>>

\* The router's admin edits a section: gateway.config.changed makes the
\* controller read it, or the hashes of the next hello do.
RouterEdit(s, c) ==
  /\ count.routerEdits < MaxRouterEdits /\ uci[s] # c
  /\ AnyLive => WindowEdits
  /\ uci' = [uci EXCEPT ![s] = c]
  /\ Notify([t |-> "read"])
  /\ count' = [count EXCEPT !.routerEdits = @ + 1]
  /\ UNCHANGED <<persisted, run, reply, ingest, link, snapshot, fate, jobSession,
                 agentChecks, results, window>>

\* The controller process restarts: what it keeps in memory is gone.
Crash ==
  /\ count.crashes < MaxCrashes
  /\ queue' = <<>> /\ run' = <<>> /\ reply' = NoReply /\ ingest' = 0
  /\ Closed
  /\ count' = [count EXCEPT !.crashes = @ + 1]
  /\ UNCHANGED <<persisted, router, window>>

\* The deadline passes.  Both clocks are taken to agree.
WindowCloses(j) ==
  /\ window[j] = "open" /\ (Live(j) \/ Open(j))
  /\ window' = [window EXCEPT ![j] = "closed"]
  /\ UNCHANGED <<persisted, memory, link, router, count>>

\* The grace (DEADLINE_GRACE_SECONDS) passes; the agent's timer fires in it,
\* unless the router is off.
WindowEnds(j) ==
  /\ window[j] = "closed" /\ (Live(j) => session = 0)
  /\ Live(j) \/ Open(j)
  /\ window' = [window EXCEPT ![j] = "over"]
  /\ UNCHANGED <<persisted, memory, link, router, count>>

Environment ==
  \/ /\ Waiting
     /\ \/ Drop \/ Dial \/ Reboot \/ Timeout \/ AgentPush \/ PushIngested
        \/ \E s \in Sections, c \in Contents : RouterEdit(s, c)
        \/ \E j \in JobIds : WindowCloses(j) \/ WindowEnds(j)
  \/ Crash

Next == Controller \/ Admin \/ Tick \/ Agent \/ Environment

Spec == Init /\ [][Next]_vars

(***************************************************************************)
(* Fairness.  A task the queue started goes on, and an RPC it awaits is    *)
(* answered or times out; timers fire.  The queue is FIFO, so a tick that   *)
(* keeps coming is served although other tasks hold the queue in between:   *)
(* strong fairness.  Nothing is assumed of the link, of the admins or of    *)
(* the agent's answers beyond its own timer.                               *)
(***************************************************************************)
Fairness ==
  /\ WF_vars(Controller)
  /\ WF_vars(Awaiting /\ (AgentApply \/ AgentConfirm \/ AgentRollback \/ AgentRead))
  /\ \A j \in JobIds :
       /\ SF_vars(TickExpire(j)) /\ SF_vars(TickAssume(j)) /\ SF_vars(TickNoAnswer(j))
       /\ WF_vars(WindowCloses(j)) /\ WF_vars(WindowEnds(j))
       /\ WF_vars(AgentDeadline(j))

FairSpec == Spec /\ Fairness

-----------------------------------------------------------------------------
(* Safety.                                                                 *)

\* As long as no detached timer has made a request beside the queue's task: one
\* job at a time per gateway, however requests, chains, retries and late results
\* interleave (openApplies, chainNext).
OneOpen == count.detached = 0 => \A j, k \in JobIds : Open(j) /\ Open(k) => j = k

\* As long as no detached timer has: a task holds the queue across its RPCs, so
\* what it does next to a job it does to the job as the task left it, whatever the
\* answer was and however long it took (no tick, request, hello or result in
\* between); a chain goes on only when no job is open (gatewayQueue.run around
\* every handler).
TaskHoldsJob ==
  count.detached = 0 /\ run # <<>> =>
    /\ Top.f = "sendApply" => jobs[Top.job].state = "queued"
    /\ Top.f = "awaitApply" => jobs[Top.job].state = "sending"
    /\ Top.f = "awaitConfirm" => jobs[Top.job].state = "pending_confirm"
    /\ Top.f = "chainNext" => ~HasOpenApply

\* What the controller reports is what the router did: a confirmed job is the
\* router's configuration for good, and a job reported rolled back (and not
\* only assumed to be) is not.
VerdictIsTrue ==
  \A j \in JobIds :
    /\ jobs[j].state = "confirmed" => fate[j] \in {"kept", "noop"}
    /\ jobs[j].state = "rolled_back" /\ ~jobs[j].assumed => fate[j] = "restored"

\* The router keeps a change only when every gate was open: the agent was back on
\* a session newer than the apply's and a push was ingested after that (not
\* always a push of that session: AgentHalfFromFreshSession), the admin agreed
\* where the mode asks for it, the router's checks passed or were overridden.
KeptWithEveryGate ==
  \A j \in JobIds : fate[j] = "kept" =>
    /\ jobs[j].agentHalf
    /\ jobs[j].mode = "admin_and_agent" => jobs[j].adminHalf
    /\ Checked => jobs[j].checks \in {"passed", "overridden"}

\* An outcome leaves the agent's list only once the controller has settled it:
\* as long as it takes a rolled back job for open, or for assumed, the agent
\* still holds its result (applyResult acks last; hellos repeat what is not acked).
ResultWaitsForSettlement ==
  \A j \in JobIds :
    fate[j] = "restored" /\ (Open(j) \/ jobs[j].assumed) => \E r \in results : r.job = j

\* No job overwrites content of the router nobody has seen: what a committed
\* job replaces is what the controller had on record when it planned the job,
\* or what an earlier job of its own wrote (base hashes, re-planning, stale_base).
NoUnseenEditOverwritten ==
  \A j \in JobIds : Live(j) => \A s \in jobs[j].secs :
    \/ snapshot[s] = jobs[j].replaced[s]
    \/ \E k \in JobIds : k # j /\ fate[k] = "kept" /\ s \in jobs[k].secs
                         /\ snapshot[s] = jobs[k].written[s]

\* A finished job stays what it is, late answers, results and ticks included.
FinishedIsFinal ==
  [][\A j \in JobIds : jobs[j].state \in Finished =>
       jobs'[j].state = jobs[j].state]_jobs

\* The router commits a job at most once: a job whose answer was lost is not
\* sent again.
CommittedOnce ==
  [][\A j \in JobIds : fate[j] \notin {"none", "live"} => fate'[j] = fate[j]]_fate

\* While a job is in flight the base and the draft of its sections hold still:
\* reads are deferred, edits refused (reconcileRow, editSections).  As long as no
\* detached timer has opened another, whose confirm would move them.
CarriedRowsHold ==
  [][count.detached = 0 =>
       \A j \in JobIds, s \in Sections :
         {jobs[j].state, jobs'[j].state} \subseteq InFlight /\ s \in jobs[j].secs =>
           /\ rows'[s].base = rows[s].base
           /\ rows'[s].desired = rows[s].desired]_<<jobs, rows>>

-----------------------------------------------------------------------------
(* Liveness.                                                               *)

\* Every job ends, whatever becomes of the link, the router and the admin.
JobsEnd == \A j \in JobIds : Open(j) ~> ~Open(j)

-----------------------------------------------------------------------------
(* The protocol implements what CommitConfirm promises.                    *)

Verdict(j) ==
  IF jobs[j].state = "none" THEN "none"
  ELSE IF Open(j) THEN "open"
  ELSE IF jobs[j].state = "confirmed" THEN "confirmed"
  ELSE IF jobs[j].state = "rolled_back" /\ ~jobs[j].assumed THEN "rolled_back"
  ELSE "given_up"

Agreed(j) == jobs[j].agentHalf /\ (jobs[j].mode = "admin_and_agent" => jobs[j].adminHalf)

Promise == INSTANCE CommitConfirm WITH
  Jobs <- JobIds, router <- fate,
  verdict <- [j \in JobIds |-> Verdict(j)],
  agreed <- {j \in JobIds : Agreed(j)}

\* Every behaviour of the protocol is one CommitConfirm allows.
KeepsPromise == Promise!Spec

-----------------------------------------------------------------------------
(* What the documents and comments say, and the code does not always do.   *)

Quiet == Idle /\ queue = <<>> /\ session # 0 /\ ~HasOpenApply

\* config-plane.md 6.1: "merged after the job resolves (a read follows every
\* confirm and result)".  With every task done and no hash moved, what is on
\* record of the router after a confirm is what the router has.
ReadFollowsConfirm ==
  Quiet /\ observed = uci /\ (\E j \in JobIds : jobs[j].state = "confirmed")
    => \A s \in Sections : rows[s].router = uci[s]

\* config-plane.md 6.2: "The first accepted collector.push on that session sets
\* agent_confirmed_at", that session being one that began after the job was sent.
AgentHalfFromFreshSession ==
  \A j \in JobIds : jobs[j].agentHalf => jobs[j].halfFrom > jobs[j].sentIn
=============================================================================
