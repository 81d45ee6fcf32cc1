--------------------------- MODULE GatewayApplyTypes ---------------------------
(***************************************************************************)
(* Type correctness of GatewayApply for every value of its constants.      *)
(* TypeOK is not inductive: what a confirmed or a rolled back job puts on  *)
(* record of its sections is read from two functions stored with the job,  *)
(* so they must be defined on just those sections (PlansOK).               *)
(***************************************************************************)
EXTENDS GatewayApply, SequenceTheorems, TLAPS

PlanOK(job) == DOMAIN job.written = job.secs /\ DOMAIN job.replaced = job.secs
PlansOK == \A j \in JobIds : PlanOK(jobs[j])
TypeInv == TypeOK /\ PlansOK

-----------------------------------------------------------------------------
(* The record sets.                                                        *)

\* The fields a frame has, by its function.
LEMMA FrameFields ==
  ASSUME NEW x \in Frame
  PROVE /\ x.f \in {"sendApply", "awaitApply", "tryConfirm", "awaitConfirm",
                    "awaitRollback", "chainNext", "readIfConfirmed",
                    "recordChecksReport"} => x.job \in JobIds
        /\ x.f \in {"applyResult", "ackResults"} => x.res \in Result
        /\ x.f = "applyResults" => x.set \in SUBSET Result
        /\ x.f = "recordChecksReport" => x.state = "passed"
        /\ x.f = "onPushAccepted" => x.sess \in Sess
BY DEF Frame

\* What the code calls is a frame.
LEMMA FrameMakes ==
  /\ \A fn \in {"sendApply", "awaitApply", "tryConfirm", "awaitConfirm",
                "awaitRollback", "chainNext", "readIfConfirmed"}, j \in JobIds :
       CallOf(fn, j) \in Frame
  /\ Read \in Frame
  /\ \A r \in Result : Settle(r) \in Frame /\ [f |-> "ackResults", res |-> r] \in Frame
  /\ \A R \in SUBSET Result : [f |-> "applyResults", set |-> R] \in Frame
  /\ [f |-> "awaitRead"] \in Frame /\ [f |-> "readLater"] \in Frame
  /\ [f |-> "onAgentReconnected"] \in Frame
  /\ \A h \in Config \cup {NoPartial} : [f |-> "readIfMoved", hash |-> h] \in Frame
  /\ \A n \in Sess : [f |-> "onPushAccepted", sess |-> n] \in Frame
  /\ \A j \in JobIds :
       [f |-> "recordChecksReport", job |-> j, state |-> "passed"] \in Frame
BY DEF Frame, CallOf, Read, Settle

LEMMA TaskFields ==
  ASSUME NEW x \in Task
  PROVE /\ x.t \in {"hello", "read", "result", "push", "checks"}
        /\ x.t = "result" => x.res \in Result
        /\ x.t = "push" => x.sess \in Sess
        /\ x.t = "checks" => x.job \in JobIds /\ x.state = "passed"
BY DEF Task

LEMMA TaskMakes ==
  /\ [t |-> "hello"] \in Task /\ [t |-> "read"] \in Task
  /\ \A r \in Result : [t |-> "result", res |-> r] \in Task
  /\ \A n \in Sess : [t |-> "push", sess |-> n] \in Task
  /\ \A j \in JobIds : [t |-> "checks", job |-> j, state |-> "passed"] \in Task
BY DEF Task

LEMMA RequestFields ==
  ASSUME NEW x \in Request
  PROVE /\ x.m \in {"apply", "confirm", "rollback"} => x.job \in JobIds
        /\ x.late \in BOOLEAN
        /\ [x EXCEPT !.late = TRUE] \in Request
BY DEF Request

LEMMA RequestMakes ==
  /\ \A m \in {"apply", "confirm", "rollback"}, j \in JobIds, o \in BOOLEAN :
       [m |-> m, job |-> j, override |-> o, late |-> FALSE] \in Request
  /\ [m |-> "read", late |-> FALSE] \in Request
BY DEF Request

LEMMA ReplyFields ==
  ASSUME NEW x \in Reply
  PROVE /\ x.code \in {"noop", "confirmed", "read"} => x.hash \in Config
        /\ x.code \in {"apply_failed", "deadline_passed"} => x.res \in Result
BY DEF Reply

LEMMA ReplyMakes ==
  /\ \A v \in {"none", "offline", "timeout", "refused", "busy", "stale_base",
               "unknown_apply", "not_reconnected", "checks_pending",
               "pending_confirm", "rolling_back"} : [code |-> v] \in Reply
  /\ NoReply \in Reply
  /\ \A v \in {"noop", "confirmed", "read"}, h \in Config :
       [code |-> v, hash |-> h] \in Reply
  /\ \A v \in {"apply_failed", "deadline_passed"}, r \in Result :
       [code |-> v, res |-> r] \in Reply
BY DEF Reply, NoReply

\* A partial configuration is defined on sections and holds contents.
LEMMA PartialIs ==
  /\ \A p \in Partial : DOMAIN p \in SUBSET Sections /\ \A s \in DOMAIN p : p[s] \in Contents
  /\ \A D \in SUBSET Sections : \A p \in [D -> Contents] : p \in Partial
  /\ NoPartial \in Partial /\ DOMAIN NoPartial = {}
<1>1. \A D \in SUBSET Sections : \A p \in [D -> Contents] : p \in Partial BY DEF Partial
<1>2. NoPartial \in [{} -> Contents] /\ DOMAIN NoPartial = {} BY DEF NoPartial
<1> QED BY <1>1, <1>2 DEF Partial

LEMMA OverIsConfig ==
  ASSUME NEW config \in Config, NEW p \in Partial
  PROVE Over(config, p) \in Config
BY PartialIs DEF Over, Config

LEMMA RestoredIsResult ==
  ASSUME TypeOK, NEW j \in JobIds, NEW b \in BOOLEAN
  PROVE Restored(j, b) \in Result
<1>. DEFINE edited == {s \in Sections : uci[s] # Over(snapshot, jobs[j].written)[s]}
<1>1. [s \in edited |-> uci[s]] \in [edited -> Contents]
  BY DEF TypeOK, RouterOK, Config
<1>2. [s \in edited |-> uci[s]] \in Partial
  BY <1>1, PartialIs
<1> QED BY <1>2 DEF Restored, Outcome, Result, TypeOK, RouterOK

-----------------------------------------------------------------------------
(* The stack and the queue.                                                *)

LEMMA ReturnRun ==
  ASSUME MemoryOK, run # <<>>, Return
  PROVE run' \in Seq(Frame)
BY DEF MemoryOK, Return

LEMMA CallRun ==
  ASSUME MemoryOK, run # <<>>, NEW fs \in Seq(Frame), Call(fs)
  PROVE run' \in Seq(Frame)
BY DEF MemoryOK, Call

LEMMA CallRun1 ==
  ASSUME MemoryOK, run # <<>>, NEW x \in Frame, Call(<<x>>)
  PROVE run' \in Seq(Frame)
<1>1. <<x>> \in Seq(Frame) OBVIOUS
<1> QED BY <1>1, CallRun

LEMMA CallRun2 ==
  ASSUME MemoryOK, run # <<>>, NEW x \in Frame, NEW y \in Frame, Call(<<x, y>>)
  PROVE run' \in Seq(Frame)
<1>1. <<x, y>> \in Seq(Frame) OBVIOUS
<1> QED BY <1>1, CallRun

LEMMA EnqueuedQueue ==
  ASSUME NEW q \in Seq(Task), NEW task \in Task
  PROVE Enqueued(q, task) \in Seq(Task)
BY DEF Enqueued

LEMMA TopFrame ==
  ASSUME MemoryOK, run # <<>>
  PROVE Top \in Frame
BY DEF MemoryOK, Top

LEMMA AskWire ==
  ASSUME LinkOK, NEW r \in Request, Ask(r)
  PROVE wire' \in Seq(Request)
BY DEF LinkOK, Ask

-----------------------------------------------------------------------------
(* Job rows.                                                               *)

LEMMA JobState ==
  ASSUME NEW x \in Job, NEW v \in JobStates
  PROVE [x EXCEPT !.state = v] \in Job /\ (PlanOK(x) => PlanOK([x EXCEPT !.state = v]))
BY DEF Job, PlanOK

\* One job changes: the rows stay typed and the others' plans what they were.
LEMMA JobUpdate ==
  ASSUME TypeInv, NEW j \in JobIds, NEW x \in Job, PlanOK(x),
         jobs' = [jobs EXCEPT ![j] = x]
  PROVE jobs' \in [JobIds -> Job] /\ PlansOK'
BY DEF TypeInv, TypeOK, PersistedOK, PlansOK, PlanOK

LEMMA JobIs ==
  ASSUME TypeInv, NEW j \in JobIds
  PROVE jobs[j] \in Job /\ PlanOK(jobs[j])
BY DEF TypeInv, TypeOK, PersistedOK, PlansOK

LEMMA SetState ==
  ASSUME TypeInv, NEW j \in JobIds, NEW v \in JobStates,
         jobs' = [jobs EXCEPT ![j].state = v]
  PROVE jobs' \in [JobIds -> Job] /\ PlansOK'
BY JobIs, JobState, JobUpdate

LEMMA PlannedSections == Planned \in SUBSET Sections
BY DEF Planned, Drafts

LEMMA RowIs ==
  ASSUME TypeOK, NEW s \in Sections
  PROVE /\ rows[s] \in Row
        /\ rows[s].base \in Contents /\ rows[s].router \in Contents
        /\ rows[s].desired \in Contents /\ rows[s].discarded \in Contents
BY DEF TypeOK, PersistedOK, Row

LEMMA WithPlanJob ==
  ASSUME TypeOK, NEW x \in Job
  PROVE WithPlan(x) \in Job /\ PlanOK(WithPlan(x))
<1>. DEFINE w == [s \in Planned |-> rows[s].desired]
            r == [s \in Planned |-> rows[s].router]
<1>1. w \in [Planned -> Contents] /\ r \in [Planned -> Contents]
  BY PlannedSections, RowIs
<1>2. w \in Partial /\ r \in Partial /\ DOMAIN w = Planned /\ DOMAIN r = Planned
  BY <1>1, PlannedSections, PartialIs
<1>3. observed \in Config BY DEF TypeOK, PersistedOK
<1>4. WithPlan(x) = [x EXCEPT !.secs = Planned, !.written = w, !.replaced = r,
                              !.base = observed]
  BY DEF WithPlan
<1>. HIDE DEF w, r
<1> QED BY <1>2, <1>3, <1>4, PlannedSections DEF Job, PlanOK

LEMMA CreateJob ==
  ASSUME TypeInv, NEW j \in JobIds, NEW mode \in {"agent", "admin_and_agent"},
         NEW step \in 0..MaxChain, CreateApply(j, mode, step)
  PROVE jobs' \in [JobIds -> Job] /\ PlansOK'
<1>. DEFINE x == [jobs[j] EXCEPT !.state = "queued", !.mode = mode, !.chainStep = step]
<1>1. x \in Job BY JobIs DEF Job, JobStates
<1>2. WithPlan(x) \in Job /\ PlanOK(WithPlan(x)) BY <1>1, WithPlanJob DEF TypeInv
<1>3. jobs' = [jobs EXCEPT ![j] = WithPlan(x)] BY DEF CreateApply
<1>. HIDE DEF x
<1> QED BY <1>2, <1>3, JobUpdate

LEMMA NextChecksTyped ==
  ASSUME NEW x \in ChecksStates, NEW y \in ChecksStates
  PROVE NextChecks(x, y) \in ChecksStates
BY DEF NextChecks

LEMMA RowsFinishConfirmed ==
  ASSUME TypeInv, NEW j \in JobIds, NEW h \in Config, FinishConfirmed(j, h)
  PROVE PersistedOK' /\ PlansOK'
<1>1. jobs' \in [JobIds -> Job] /\ PlansOK'
  BY SetState DEF FinishConfirmed, JobStates
<1>2. \A s \in jobs[j].secs : jobs[j].written[s] \in Contents
  BY JobIs, PartialIs DEF PlanOK, Job
<1>3. rows' \in [Sections -> Row]
  BY <1>2, RowIs DEF FinishConfirmed, TypeInv, Row
<1> QED BY <1>1, <1>3 DEF FinishConfirmed, PersistedOK

LEMMA RowsSettleRolledBack ==
  ASSUME TypeInv, NEW res \in Result, SettleRolledBack(res.job, res)
  PROVE PersistedOK' /\ PlansOK'
<1>. DEFINE j == res.job
            x == [jobs[j] EXCEPT !.state = IF Open(j) THEN "rolled_back" ELSE @,
                                 !.assumed = FALSE,
                                 !.checks = IF res.checksFailed /\ @ # "overridden"
                                            THEN "failed" ELSE @]
<1>0. j \in JobIds /\ res.hash \in Config /\ res.discarded \in Partial BY DEF Result
<1>1. x \in Job /\ PlanOK(x)
  <2>1. jobs[j] \in Job /\ PlanOK(jobs[j]) BY <1>0, JobIs
  <2>2. (IF Open(j) THEN "rolled_back" ELSE jobs[j].state) \in JobStates
    BY <2>1 DEF Job, JobStates
  <2>3. (IF res.checksFailed /\ jobs[j].checks # "overridden"
         THEN "failed" ELSE jobs[j].checks) \in ChecksStates
    BY <2>1 DEF Job, ChecksStates
  <2> QED BY <2>1, <2>2, <2>3 DEF Job, PlanOK
<1>2. jobs' = [jobs EXCEPT ![j] = x]
  BY <1>0 DEF SettleRolledBack, TypeInv, TypeOK, PersistedOK, Job
<1>3. jobs' \in [JobIds -> Job] /\ PlansOK' BY <1>0, <1>1, <1>2, JobUpdate
<1>4. \A s \in jobs[j].secs : jobs[j].replaced[s] \in Contents
  BY <1>0, JobIs, PartialIs DEF PlanOK, Job
<1>5. \A s \in DOMAIN res.discarded : res.discarded[s] \in Contents
  BY <1>0, PartialIs
<1>6. rows' \in [Sections -> Row]
  BY <1>4, <1>5, RowIs DEF SettleRolledBack, TypeInv, Row
<1> QED BY <1>0, <1>3, <1>6 DEF SettleRolledBack, PersistedOK

LEMMA ReconciledRow ==
  ASSUME TypeInv, NEW s \in Sections, NEW o \in Contents
  PROVE ReconcileRow(s, o) \in Row
BY RowIs DEF ReconcileRow, Settled, Row, TypeInv

-----------------------------------------------------------------------------
(* What an action leaves alone stays typed.                                *)

LEMMA KeepPersisted ==
  ASSUME TypeInv, UNCHANGED persisted
  PROVE PersistedOK' /\ PlansOK'
BY DEF TypeInv, TypeOK, PersistedOK, PlansOK, PlanOK, persisted

LEMMA KeepMemory ==
  ASSUME TypeInv, UNCHANGED memory
  PROVE MemoryOK'
BY DEF TypeInv, TypeOK, MemoryOK, memory

LEMMA KeepOutside ==
  ASSUME TypeInv, UNCHANGED <<router, window, count>>
  PROVE RouterOK' /\ ClockOK' /\ (UNCHANGED link => LinkOK')
BY DEF TypeInv, TypeOK, RouterOK, ClockOK, LinkOK, link, router

\* A job changes, the rows do not.
LEMMA OnlyJobs ==
  ASSUME TypeInv, jobs' \in [JobIds -> Job], PlansOK', UNCHANGED <<rows, observed>>
  PROVE PersistedOK' /\ PlansOK'
BY DEF TypeInv, TypeOK, PersistedOK

\* Only the stack, and with it the queue or the reply, changes in memory.
LEMMA MemoryParts ==
  ASSUME TypeInv, run' \in Seq(Frame), UNCHANGED ingest,
         queue' = queue \/ queue' \in Seq(Task), reply' = reply \/ reply' = NoReply
  PROVE MemoryOK'
BY ReplyMakes DEF TypeInv, TypeOK, MemoryOK

LEMMA InvParts ==
  ASSUME PersistedOK', PlansOK', MemoryOK', LinkOK', RouterOK', ClockOK'
  PROVE TypeInv'
BY DEF TypeInv, TypeOK

-----------------------------------------------------------------------------
(* The frames of the running task.                                         *)

LEMMA TypeHandler ==
  ASSUME TypeInv, NEW task \in Task
  PROVE Handler(task) \in Seq(Frame)
<1>0. LinkOK BY DEF TypeInv, TypeOK
<1>1. CASE task.t = "hello"
  <2>1. /\ [f |-> "applyResults", set |-> hello.results] \in Frame
        /\ [f |-> "onAgentReconnected"] \in Frame
        /\ [f |-> "readIfMoved", hash |-> hello.hash] \in Frame
    BY <1>0, FrameMakes DEF LinkOK, Hello
  <2> QED BY <1>1, <2>1 DEF Handler
<1>2. CASE task.t = "result"
  <2>1. Settle(task.res) \in Frame /\ [f |-> "readLater"] \in Frame
    BY <1>2, FrameMakes, TaskFields
  <2> QED BY <1>2, <2>1 DEF Handler
<1>3. CASE task.t = "push"
  <2>1. [f |-> "onPushAccepted", sess |-> task.sess] \in Frame
    BY <1>3, FrameMakes, TaskFields
  <2> QED BY <1>3, <2>1 DEF Handler
<1>4. CASE task.t = "checks"
  <2>1. [f |-> "recordChecksReport", job |-> task.job, state |-> task.state] \in Frame
    BY <1>4, FrameMakes, TaskFields
  <2> QED BY <1>4, <2>1 DEF Handler
<1>5. CASE task.t = "read"
  <2>1. Read \in Frame BY FrameMakes
  <2> QED BY <1>5, <2>1 DEF Handler
<1> QED BY <1>1, <1>2, <1>3, <1>4, <1>5, TaskFields

LEMMA TypeStartTask ==
  ASSUME TypeInv, StartTask
  PROVE TypeInv'
<1>1. Head(queue) \in Task /\ Tail(queue) \in Seq(Task)
  BY DEF StartTask, TypeInv, TypeOK, MemoryOK
<1>2. run' \in Seq(Frame) BY <1>1, TypeHandler DEF StartTask
<1>3. MemoryOK' BY <1>1, <1>2, MemoryParts DEF StartTask
<1> QED BY <1>3, KeepPersisted, KeepOutside, InvParts DEF StartTask

LEMMA TypeApplyResults ==
  ASSUME TypeInv, ApplyResults
  PROVE TypeInv'
<1>1. MemoryOK /\ run # <<>> /\ Top \in Frame /\ Top.f = "applyResults"
  BY TopFrame DEF ApplyResults, Running, Top, TypeInv, TypeOK
<1>2. run' \in Seq(Frame)
  <2>1. CASE Return BY <2>1, <1>1, ReturnRun
  <2>2. ASSUME NEW r \in Top.set,
               Call(<<Settle(r), [f |-> "applyResults", set |-> Top.set \ {r}]>>)
        PROVE run' \in Seq(Frame)
    <3>1. Settle(r) \in Frame /\ [f |-> "applyResults", set |-> Top.set \ {r}] \in Frame
      BY <1>1, FrameFields, FrameMakes
    <3> QED BY <1>1, <2>2, <3>1, CallRun2
  <2> QED BY <2>1, <2>2 DEF ApplyResults
<1>3. MemoryOK' BY <1>2, MemoryParts DEF ApplyResults
<1> QED BY <1>3, KeepPersisted, KeepOutside, InvParts DEF ApplyResults

LEMMA TypeApplyResult ==
  ASSUME TypeInv, ApplyResult
  PROVE TypeInv'
<1>. DEFINE res == Top.res
            ack == [f |-> "ackResults", res |-> res]
<1>1. MemoryOK /\ run # <<>> /\ Top \in Frame /\ Top.f = "applyResult"
  BY TopFrame DEF ApplyResult, Running, Top, TypeInv, TypeOK
<1>2. res \in Result /\ res.job \in JobIds /\ res.hash \in Config
  BY <1>1, FrameFields DEF Result
<1>3. ack \in Frame /\ CallOf("chainNext", res.job) \in Frame BY <1>2, FrameMakes
<1>4. run' \in Seq(Frame)
  BY <1>1, <1>3, CallRun1, CallRun2 DEF ApplyResult
<1>5. PersistedOK' /\ PlansOK'
  BY <1>2, KeepPersisted, RowsFinishConfirmed, RowsSettleRolledBack DEF ApplyResult
<1>6. MemoryOK' BY <1>4, MemoryParts DEF ApplyResult
<1> QED BY <1>5, <1>6, KeepOutside, InvParts DEF ApplyResult

LEMMA TypeAckResults ==
  ASSUME TypeInv, AckResults
  PROVE TypeInv'
<1>1. MemoryOK /\ run # <<>> BY DEF AckResults, Running, TypeInv, TypeOK
<1>2. run' \in Seq(Frame) BY <1>1, ReturnRun DEF AckResults
<1>3. MemoryOK' BY <1>2, MemoryParts DEF AckResults
<1>4. LinkOK' /\ RouterOK' /\ ClockOK'
  BY DEF AckResults, TypeInv, TypeOK, LinkOK, RouterOK, ClockOK, link
<1> QED BY <1>3, <1>4, KeepPersisted, InvParts DEF AckResults

LEMMA TypeSendApply ==
  ASSUME TypeInv, SendApply
  PROVE TypeInv'
<1>. DEFINE j == Top.job
            r == [m |-> "apply", job |-> j, override |-> FALSE, late |-> FALSE]
<1>1. MemoryOK /\ run # <<>> /\ Top \in Frame /\ Top.f = "sendApply"
  BY TopFrame DEF SendApply, Running, Top, TypeInv, TypeOK
<1>2. j \in JobIds BY <1>1, FrameFields
<1>3. CallOf("awaitApply", j) \in Frame /\ r \in Request
  BY <1>2, FrameMakes, RequestMakes
<1>4. run' \in Seq(Frame) BY <1>1, <1>3, ReturnRun, CallRun1 DEF SendApply
<1>5. wire' \in Seq(Request) BY <1>3, AskWire DEF SendApply, TypeInv, TypeOK, LinkOK
<1>6. PersistedOK' /\ PlansOK'
  <2>1. CASE UNCHANGED jobs
    BY <2>1, KeepPersisted DEF SendApply, persisted
  <2>2. CASE jobs' = [jobs EXCEPT ![j].state = IF Blocked THEN "failed" ELSE "cancelled"]
    BY <1>2, <2>2, SetState, OnlyJobs DEF SendApply, JobStates
  <2>3. CASE jobs' = [jobs EXCEPT ![j] = [WithPlan(@) EXCEPT !.state = "sending",
                                                             !.sentIn = session]]
    <3>. DEFINE x == [WithPlan(jobs[j]) EXCEPT !.state = "sending", !.sentIn = session]
    <3>1. WithPlan(jobs[j]) \in Job /\ PlanOK(WithPlan(jobs[j]))
      BY <1>2, JobIs, WithPlanJob DEF TypeInv
    <3>2. session \in Sess BY DEF TypeInv, TypeOK, LinkOK
    <3>3. x \in Job /\ PlanOK(x) BY <3>1, <3>2 DEF Job, JobStates, PlanOK
    <3> QED BY <1>2, <2>3, <3>3, JobUpdate, OnlyJobs DEF SendApply
  <2> QED BY <2>1, <2>2, <2>3 DEF SendApply
<1>7. MemoryOK' BY <1>4, MemoryParts DEF SendApply
<1>8. LinkOK' BY <1>5 DEF SendApply, TypeInv, TypeOK, LinkOK
<1> QED BY <1>6, <1>7, <1>8, KeepOutside, InvParts DEF SendApply

\* The stack of a running task, and its top.
LEMMA RunningTop ==
  ASSUME TypeInv, NEW fn, Running(fn)
  PROVE MemoryOK /\ run # <<>> /\ Top \in Frame /\ Top.f = fn
BY TopFrame DEF Running, Top, TypeInv, TypeOK

LEMMA TypeAwaitApply ==
  ASSUME TypeInv, AwaitApply
  PROVE TypeInv'
<1>. DEFINE j == Top.job
<1>1. MemoryOK /\ run # <<>> /\ Top \in Frame /\ Top.f = "awaitApply"
  BY RunningTop DEF AwaitApply, Answered
<1>2. j \in JobIds BY <1>1, FrameFields
<1>3. reply \in Reply BY <1>1 DEF MemoryOK
<1>4. /\ Read \in Frame /\ CallOf("sendApply", j) \in Frame
      /\ CallOf("chainNext", j) \in Frame
      /\ reply.code = "apply_failed" => Settle(reply.res) \in Frame
  BY <1>2, <1>3, FrameMakes, ReplyFields
<1>5. run' \in Seq(Frame) BY <1>1, <1>4, ReturnRun, CallRun1, CallRun2 DEF AwaitApply
<1>6. PersistedOK' /\ PlansOK'
  <2>1. CASE UNCHANGED persisted BY <2>1, KeepPersisted
  <2>2. CASE /\ jobs' = [jobs EXCEPT ![j].retried = TRUE, ![j].state = "queued"]
             /\ UNCHANGED <<rows, observed>>
    <3>. DEFINE x == [jobs[j] EXCEPT !.retried = TRUE, !.state = "queued"]
    <3>0. jobs[j] \in Job /\ PlanOK(jobs[j]) BY <1>2, JobIs
    <3>1. x \in Job /\ PlanOK(x) BY <3>0 DEF Job, JobStates, PlanOK
    <3>2. jobs' = [jobs EXCEPT ![j] = x]
      BY <1>2, <2>2 DEF TypeInv, TypeOK, PersistedOK, Job
    <3> QED BY <1>2, <2>2, <3>1, <3>2, JobUpdate, OnlyJobs
  <2>3. CASE FailApply(j) /\ UNCHANGED <<rows, observed>>
    BY <1>2, <2>3, SetState, OnlyJobs DEF FailApply, JobStates
  <2>4. CASE /\ jobs' = [jobs EXCEPT ![j].state = "pending_confirm",
                                     ![j].checks = IF Checked THEN "pending" ELSE @]
             /\ UNCHANGED <<rows, observed>>
    <3>. DEFINE x == [jobs[j] EXCEPT !.state = "pending_confirm",
                                     !.checks = IF Checked THEN "pending" ELSE @]
    <3>0. jobs[j] \in Job /\ PlanOK(jobs[j]) BY <1>2, JobIs
    <3>1. x \in Job /\ PlanOK(x) BY <3>0 DEF Job, JobStates, ChecksStates, PlanOK
    <3>2. jobs' = [jobs EXCEPT ![j] = x]
      BY <1>2, <2>4 DEF TypeInv, TypeOK, PersistedOK, Job
    <3> QED BY <1>2, <2>4, <3>1, <3>2, JobUpdate, OnlyJobs
  <2>5. CASE reply.code = "noop" /\ FinishConfirmed(j, reply.hash)
    BY <1>2, <1>3, <2>5, ReplyFields, RowsFinishConfirmed
  <2> QED BY <2>1, <2>2, <2>3, <2>4, <2>5 DEF AwaitApply
<1>7. MemoryOK' BY <1>5, MemoryParts DEF AwaitApply, Answered
<1> QED BY <1>6, <1>7, KeepOutside, InvParts DEF AwaitApply

LEMMA TypeChainNext ==
  ASSUME TypeInv, ChainNext
  PROVE TypeInv'
<1>. DEFINE j == Top.job
            step == jobs[j].chainStep + 1
<1>1. MemoryOK /\ run # <<>> /\ Top \in Frame /\ Top.f = "chainNext"
  BY RunningTop DEF ChainNext
<1>2. j \in JobIds BY <1>1, FrameFields
<1>3. jobs[j].mode \in {"agent", "admin_and_agent"} /\ jobs[j].chainStep \in 0..MaxChain
  BY <1>2, JobIs DEF Job
<1>4. CASE Return /\ UNCHANGED jobs
  BY <1>1, <1>4, ReturnRun, KeepPersisted, MemoryParts, KeepOutside, InvParts
     DEF ChainNext, persisted
<1>5. ASSUME step < MaxChain, NEW next \in JobIds,
             NEW mode \in IF Checked THEN Modes ELSE {jobs[j].mode},
             CreateApply(next, mode, step), Call(<<CallOf("sendApply", next)>>)
      PROVE TypeInv'
  <2>1. step \in 0..MaxChain BY <1>3, <1>5, ApplyAssumption
  <2>2. mode \in {"agent", "admin_and_agent"} BY <1>3, ApplyAssumption
  <2>3. jobs' \in [JobIds -> Job] /\ PlansOK' BY <1>5, <2>1, <2>2, CreateJob
  <2>4. run' \in Seq(Frame) BY <1>1, <1>5, FrameMakes, CallRun1
  <2> QED BY <2>3, <2>4, OnlyJobs, MemoryParts, KeepOutside, InvParts DEF ChainNext
<1> QED BY <1>4, <1>5 DEF ChainNext

LEMMA TypeTryConfirm ==
  ASSUME TypeInv, TryConfirm
  PROVE TypeInv'
<1>. DEFINE j == Top.job
            r == [m |-> "confirm", job |-> j, late |-> FALSE,
                  override |-> jobs[j].checks = "overridden"]
<1>1. MemoryOK /\ run # <<>> /\ Top \in Frame /\ Top.f = "tryConfirm"
  BY RunningTop DEF TryConfirm
<1>2. j \in JobIds BY <1>1, FrameFields
<1>3. CallOf("awaitConfirm", j) \in Frame /\ r \in Request
  BY <1>2, FrameMakes DEF Request
<1>4. run' \in Seq(Frame) BY <1>1, <1>3, ReturnRun, CallRun1 DEF TryConfirm
<1>5. wire' \in Seq(Request) BY <1>3, AskWire DEF TryConfirm, TypeInv, TypeOK, LinkOK
<1>6. LinkOK' BY <1>5 DEF TryConfirm, TypeInv, TypeOK, LinkOK
<1>7. MemoryOK' BY <1>4, MemoryParts DEF TryConfirm
<1> QED BY <1>6, <1>7, KeepPersisted, KeepOutside, InvParts DEF TryConfirm

LEMMA TypeAwaitConfirm ==
  ASSUME TypeInv, AwaitConfirm
  PROVE TypeInv'
<1>. DEFINE j == Top.job
<1>1. MemoryOK /\ run # <<>> /\ Top \in Frame /\ Top.f = "awaitConfirm"
  BY RunningTop DEF AwaitConfirm, Answered
<1>2. j \in JobIds BY <1>1, FrameFields
<1>3. reply \in Reply BY <1>1 DEF MemoryOK
<1>4. /\ CallOf("chainNext", j) \in Frame
      /\ reply.code = "deadline_passed" => Settle(reply.res) \in Frame
  BY <1>2, <1>3, FrameMakes, ReplyFields
<1>5. run' \in Seq(Frame) BY <1>1, <1>4, ReturnRun, CallRun1 DEF AwaitConfirm
<1>6. PersistedOK' /\ PlansOK'
  <2>1. CASE UNCHANGED persisted BY <2>1, KeepPersisted
  <2>2. CASE /\ jobs' = [jobs EXCEPT ![j].checks = NextChecks(@, "pending")]
             /\ UNCHANGED <<rows, observed>>
    <3>. DEFINE x == [jobs[j] EXCEPT !.checks = NextChecks(@, "pending")]
    <3>1. NextChecks(jobs[j].checks, "pending") \in ChecksStates
      BY <1>2, JobIs, NextChecksTyped DEF Job, ChecksStates
    <3>2. x \in Job /\ PlanOK(x) BY <1>2, <3>1, JobIs DEF Job, PlanOK
    <3> QED BY <1>2, <2>2, <3>2, JobUpdate, OnlyJobs
  <2>3. CASE FailApply(j) /\ UNCHANGED <<rows, observed>>
    BY <1>2, <2>3, SetState, OnlyJobs DEF FailApply, JobStates
  <2>4. CASE reply.code = "confirmed" /\ FinishConfirmed(j, reply.hash)
    BY <1>2, <1>3, <2>4, ReplyFields, RowsFinishConfirmed
  <2> QED BY <2>1, <2>2, <2>3, <2>4 DEF AwaitConfirm
<1>7. MemoryOK' BY <1>5, MemoryParts DEF AwaitConfirm, Answered
<1> QED BY <1>6, <1>7, KeepOutside, InvParts DEF AwaitConfirm

LEMMA TypeAwaitRollback ==
  ASSUME TypeInv, AwaitRollback
  PROVE TypeInv'
<1>1. MemoryOK /\ run # <<>> BY RunningTop DEF AwaitRollback, Answered
<1>2. MemoryOK' BY <1>1, ReturnRun, MemoryParts DEF AwaitRollback, Answered
<1> QED BY <1>2, KeepPersisted, KeepOutside, InvParts DEF AwaitRollback

LEMMA TypeOnAgentReconnected ==
  ASSUME TypeInv, OnAgentReconnected
  PROVE TypeInv'
<1>1. MemoryOK /\ run # <<>> BY RunningTop DEF OnAgentReconnected
<1>2. CASE Return /\ UNCHANGED jobs
  BY <1>1, <1>2, ReturnRun, KeepPersisted, MemoryParts, KeepOutside, InvParts
     DEF OnAgentReconnected, persisted
<1>3. ASSUME NEW j \in JobIds,
             \/ jobs' = [jobs EXCEPT
                   ![j].state = "pending_confirm", ![j].reconnected = TRUE,
                   ![j].checks = NextChecks(jobs[j].checks, hello.checks)]
             \/ FailApply(j),
             Return \/ Call(<<CallOf("tryConfirm", j)>>)
      PROVE TypeInv'
  <2>1. jobs' \in [JobIds -> Job] /\ PlansOK'
    <3>1. CASE FailApply(j) BY <3>1, SetState DEF FailApply, JobStates
    <3>2. CASE jobs' = [jobs EXCEPT
                 ![j].state = "pending_confirm", ![j].reconnected = TRUE,
                 ![j].checks = NextChecks(jobs[j].checks, hello.checks)]
      <4>. DEFINE x == [jobs[j] EXCEPT
                   !.state = "pending_confirm", !.reconnected = TRUE,
                   !.checks = NextChecks(jobs[j].checks, hello.checks)]
      <4>1. NextChecks(jobs[j].checks, hello.checks) \in ChecksStates
        BY JobIs, NextChecksTyped DEF Job, TypeInv, TypeOK, LinkOK, Hello
      <4>2. x \in Job /\ PlanOK(x) BY <4>1, JobIs DEF Job, JobStates, PlanOK
      <4>3. jobs' = [jobs EXCEPT ![j] = x]
        BY <3>2 DEF TypeInv, TypeOK, PersistedOK, Job
      <4> QED BY <4>2, <4>3, JobUpdate
    <3> QED BY <1>3, <3>1, <3>2
  <2>2. run' \in Seq(Frame) BY <1>1, <1>3, FrameMakes, ReturnRun, CallRun1
  <2> QED BY <2>1, <2>2, OnlyJobs, MemoryParts, KeepOutside, InvParts
          DEF OnAgentReconnected
<1> QED BY <1>2, <1>3 DEF OnAgentReconnected

LEMMA TypeOnPushAccepted ==
  ASSUME TypeInv, OnPushAccepted
  PROVE TypeInv'
<1>1. MemoryOK /\ run # <<>> /\ Top \in Frame /\ Top.f = "onPushAccepted"
  BY RunningTop DEF OnPushAccepted
<1>2. CASE Return /\ UNCHANGED jobs
  BY <1>1, <1>2, ReturnRun, KeepPersisted, MemoryParts, KeepOutside, InvParts
     DEF OnPushAccepted, persisted
<1>3. ASSUME NEW j \in JobIds,
             jobs' = [jobs EXCEPT ![j].agentHalf = TRUE, ![j].halfFrom = Top.sess],
             Call(<<CallOf("tryConfirm", j), CallOf("readIfConfirmed", j)>>)
      PROVE TypeInv'
  <2>. DEFINE x == [jobs[j] EXCEPT !.agentHalf = TRUE, !.halfFrom = Top.sess]
  <2>1. x \in Job /\ PlanOK(x) BY <1>1, FrameFields, JobIs DEF Job, PlanOK
  <2>2. jobs' = [jobs EXCEPT ![j] = x] BY <1>3 DEF TypeInv, TypeOK, PersistedOK, Job
  <2>3. run' \in Seq(Frame) BY <1>1, <1>3, FrameMakes, CallRun2
  <2> QED BY <2>1, <2>2, <2>3, JobUpdate, OnlyJobs, MemoryParts, KeepOutside, InvParts
          DEF OnPushAccepted
<1> QED BY <1>2, <1>3 DEF OnPushAccepted

LEMMA TypeRecordChecksReport ==
  ASSUME TypeInv, RecordChecksReport
  PROVE TypeInv'
<1>. DEFINE j == Top.job
            now == NextChecks(jobs[j].checks, Top.state)
<1>1. MemoryOK /\ run # <<>> /\ Top \in Frame /\ Top.f = "recordChecksReport"
  BY RunningTop DEF RecordChecksReport
<1>2. j \in JobIds /\ Top.state = "passed" BY <1>1, FrameFields
<1>3. now \in ChecksStates BY <1>2, JobIs, NextChecksTyped DEF Job, ChecksStates
<1>4. CASE Return /\ UNCHANGED jobs
  BY <1>1, <1>4, ReturnRun, KeepPersisted, MemoryParts, KeepOutside, InvParts
     DEF RecordChecksReport, persisted
<1>5. CASE /\ jobs' = [jobs EXCEPT ![j].checks = now]
           /\ Return \/ Call(<<CallOf("tryConfirm", j)>>)
  <2>. DEFINE x == [jobs[j] EXCEPT !.checks = now]
  <2>1. x \in Job /\ PlanOK(x) BY <1>2, <1>3, JobIs DEF Job, PlanOK
  <2>2. jobs' \in [JobIds -> Job] /\ PlansOK' BY <1>2, <1>5, <2>1, JobUpdate
  <2>3. run' \in Seq(Frame) BY <1>1, <1>2, <1>5, FrameMakes, ReturnRun, CallRun1
  <2> QED BY <2>2, <2>3, OnlyJobs, MemoryParts, KeepOutside, InvParts
          DEF RecordChecksReport
<1> QED BY <1>4, <1>5 DEF RecordChecksReport

LEMMA TypeReadIfConfirmed ==
  ASSUME TypeInv, ReadIfConfirmed \/ ReadLater
  PROVE TypeInv'
<1>1. MemoryOK /\ run # <<>> BY RunningTop DEF ReadIfConfirmed, ReadLater
<1>2. run' \in Seq(Frame) BY <1>1, ReturnRun DEF ReadIfConfirmed, ReadLater
<1>3. queue' \in Seq(Task)
  BY <1>1, TaskMakes, EnqueuedQueue DEF ReadIfConfirmed, ReadLater, MemoryOK
<1>4. MemoryOK' BY <1>2, <1>3, MemoryParts DEF ReadIfConfirmed, ReadLater
<1> QED BY <1>4, KeepPersisted, KeepOutside, InvParts DEF ReadIfConfirmed, ReadLater

LEMMA TypeReads ==
  ASSUME TypeInv, ReadIfMoved \/ ReadAndReconcile \/ AwaitRead
  PROVE TypeInv'
<1>1. MemoryOK /\ run # <<>>
  BY RunningTop DEF ReadIfMoved, ReadAndReconcile, AwaitRead, Answered
<1>2. run' \in Seq(Frame)
  BY <1>1, FrameMakes, ReturnRun, CallRun1 DEF ReadIfMoved, ReadAndReconcile, AwaitRead
<1>3. MemoryOK'
  BY <1>2, MemoryParts DEF ReadIfMoved, ReadAndReconcile, AwaitRead, Answered
<1>4. CASE ReadIfMoved
  BY <1>3, <1>4, KeepPersisted, KeepOutside, InvParts DEF ReadIfMoved
<1>5. CASE ReadAndReconcile
  <2>1. wire' \in Seq(Request)
    BY <1>5, RequestMakes, AskWire DEF ReadAndReconcile, TypeInv, TypeOK, LinkOK
  <2>2. LinkOK' BY <1>5, <2>1 DEF ReadAndReconcile, TypeInv, TypeOK, LinkOK
  <2> QED BY <1>3, <1>5, <2>2, KeepPersisted, KeepOutside, InvParts DEF ReadAndReconcile
<1>6. CASE AwaitRead
  <2>1. PersistedOK' /\ PlansOK'
    <3>1. CASE UNCHANGED <<rows, observed>>
      BY <1>6, <3>1, KeepPersisted DEF AwaitRead, persisted
    <3>2. CASE reply.code = "read" /\ Observe(reply.hash)
      <4>1. reply.hash \in Config BY <1>1, <3>2, ReplyFields DEF MemoryOK
      <4>2. rows' \in [Sections -> Row]
        BY <3>2, <4>1, ReconciledRow DEF Observe, Config
      <4> QED BY <1>6, <3>2, <4>1, <4>2
              DEF AwaitRead, Observe, TypeInv, TypeOK, PersistedOK, PlansOK, PlanOK
    <3> QED BY <1>6, <3>1, <3>2 DEF AwaitRead
  <2> QED BY <1>3, <1>6, <2>1, KeepOutside, InvParts DEF AwaitRead
<1> QED BY <1>4, <1>5, <1>6

LEMMA TypeController ==
  ASSUME TypeInv, Controller
  PROVE TypeInv'
BY TypeStartTask, TypeApplyResults, TypeApplyResult, TypeAckResults, TypeSendApply,
   TypeAwaitApply, TypeChainNext, TypeTryConfirm, TypeAwaitConfirm, TypeAwaitRollback,
   TypeOnAgentReconnected, TypeOnPushAccepted, TypeRecordChecksReport,
   TypeReadIfConfirmed, TypeReads
   DEF Controller

-----------------------------------------------------------------------------
(* The admin's requests and the tick.                                      *)

\* A request or a tick that runs at once touches jobs, rows and the stack.
LEMMA TypeRequest ==
  ASSUME TypeInv, jobs' \in [JobIds -> Job], PlansOK', rows' \in [Sections -> Row],
         run' \in Seq(Frame), UNCHANGED <<observed, queue, reply, ingest, link, router>>,
         ClockOK'
  PROVE TypeInv'
<1>1. PersistedOK' BY DEF TypeInv, TypeOK, PersistedOK
<1>2. MemoryOK' BY MemoryParts
<1>3. LinkOK' BY DEF TypeInv, TypeOK, LinkOK, link
<1>4. RouterOK' BY DEF TypeInv, TypeOK, RouterOK, router
<1> QED BY <1>1, <1>2, <1>3, <1>4, InvParts

LEMMA TypedNow ==
  ASSUME TypeInv
  PROVE /\ jobs \in [JobIds -> Job] /\ rows \in [Sections -> Row]
        /\ run \in Seq(Frame) /\ PlansOK
        /\ UNCHANGED <<window, count>> => ClockOK'
        /\ UNCHANGED jobs => PlansOK'
BY DEF TypeInv, TypeOK, PersistedOK, MemoryOK, ClockOK, PlansOK, PlanOK

\* A task of one frame, or none, starts.
LEMMA RunOf ==
  /\ <<>> \in Seq(Frame)
  /\ \A x \in Frame : <<x>> \in Seq(Frame)
OBVIOUS

LEMMA TypeAdmin ==
  ASSUME TypeInv, Admin
  PROVE TypeInv'
<1>1. ASSUME NEW j \in JobIds, NEW mode \in Modes, RequestApply(j, mode)
      PROVE TypeInv'
  <2>1. mode \in {"agent", "admin_and_agent"} /\ 0 \in 0..MaxChain BY ApplyAssumption
  <2>2. jobs' \in [JobIds -> Job] /\ PlansOK' BY <1>1, <2>1, CreateJob DEF RequestApply
  <2>3. run' \in Seq(Frame) BY <1>1, FrameMakes, RunOf DEF RequestApply
  <2> QED BY <1>1, <2>2, <2>3, TypedNow, TypeRequest DEF RequestApply, LeavesRouter
<1>6. ASSUME NEW j \in JobIds, DetachedRequest(j)
      PROVE TypeInv'
  <2>0. 0 \in 0..MaxChain BY ApplyAssumption
  <2>1. jobs' \in [JobIds -> Job] /\ PlansOK'
    BY <1>6, <2>0, CreateJob DEF DetachedRequest
  <2>2. CallOf("sendApply", j) \in Frame /\ run \in Seq(Frame) BY FrameMakes, TypedNow
  <2>3. \A x \in Frame, s \in Seq(Frame) : <<x>> \o s \in Seq(Frame) OBVIOUS
  <2>5. run' \in Seq(Frame)
    <3>1. CASE run' = run BY <2>2, <3>1
    <3>2. CASE run' = <<CallOf("sendApply", j)>> \o run BY <2>2, <2>3, <3>2
    <3> QED BY <1>6, <3>1, <3>2 DEF DetachedRequest
  <2>. MaxDetached \in Nat BY ApplyAssumption
  <2>4. ClockOK'
    BY <1>6 DEF DetachedRequest, LeavesRouter, TypeInv, TypeOK, ClockOK
  <2> QED BY <1>6, <2>1, <2>5, <2>4, TypedNow, TypeRequest
          DEF DetachedRequest, LeavesRouter
<1>2. ASSUME NEW j \in JobIds, NEW o \in BOOLEAN, AdminConfirm(j, o)
      PROVE TypeInv'
  <2>. DEFINE x == [jobs[j] EXCEPT !.adminHalf = TRUE,
                                   !.checks = IF o THEN "overridden" ELSE @]
  <2>1. jobs[j] \in Job /\ PlanOK(jobs[j]) BY JobIs
  <2>2. x \in Job /\ PlanOK(x) BY <2>1 DEF Job, ChecksStates, PlanOK
  <2>3. jobs' = [jobs EXCEPT ![j] = x] BY <1>2, TypedNow DEF AdminConfirm, Job
  <2>4. jobs' \in [JobIds -> Job] /\ PlansOK' BY <2>2, <2>3, JobUpdate
  <2>5. run' \in Seq(Frame) BY <1>2, FrameMakes, RunOf DEF AdminConfirm
  <2> QED BY <1>2, <2>4, <2>5, TypedNow, TypeRequest DEF AdminConfirm, LeavesRouter
<1>3. ASSUME NEW j \in JobIds, RevertApply(j)
      PROVE TypeInv'
  <2>1. CASE /\ jobs' = [jobs EXCEPT ![j].state = "cancelled"]
             /\ UNCHANGED <<run, wire>>
    <3>1. jobs' \in [JobIds -> Job] /\ PlansOK' BY <2>1, SetState DEF JobStates
    <3> QED BY <1>3, <2>1, <3>1, TypedNow, TypeRequest DEF RevertApply, link
  <2>2. CASE /\ UNCHANGED jobs /\ run' = <<CallOf("awaitRollback", j)>>
             /\ Ask([m |-> "rollback", job |-> j, override |-> FALSE, late |-> FALSE])
    <3>1. wire' \in Seq(Request)
      BY <2>2, RequestMakes, AskWire DEF TypeInv, TypeOK, LinkOK
    <3>2. LinkOK' BY <1>3, <3>1 DEF RevertApply, TypeInv, TypeOK, LinkOK
    <3>3. run' \in Seq(Frame) BY <2>2, FrameMakes, RunOf
    <3>4. MemoryOK' BY <1>3, <3>3, MemoryParts DEF RevertApply
    <3>5. UNCHANGED persisted BY <1>3, <2>2 DEF RevertApply, persisted
    <3> QED BY <1>3, <3>2, <3>4, <3>5, KeepPersisted, KeepOutside, InvParts DEF RevertApply
  <2> QED BY <1>3, <2>1, <2>2 DEF RevertApply
<1>4. ASSUME NEW s \in Sections, NEW c \in Contents, EditSections(s, c)
      PROVE TypeInv'
  <2>1. rows' \in [Sections -> Row] BY <1>4, TypedNow DEF EditSections, Row
  <2>2. ClockOK'
    BY <1>4, ApplyAssumption DEF EditSections, LeavesRouter, TypeInv, TypeOK, ClockOK
  <2> QED BY <1>4, <2>1, <2>2, TypedNow, TypeRequest DEF EditSections, LeavesRouter
<1>5. ASSUME NEW s \in Sections, NEW take \in {"router", "controller"},
             ResolveConflict(s, take)
      PROVE TypeInv'
  <2>1. rows' \in [Sections -> Row] BY <1>5, TypedNow DEF ResolveConflict, Row
  <2> QED BY <1>5, <2>1, TypedNow, TypeRequest DEF ResolveConflict, LeavesRouter
<1> QED BY <1>1, <1>2, <1>3, <1>4, <1>5, <1>6 DEF Admin

LEMMA TypeTick ==
  ASSUME TypeInv, Tick
  PROVE TypeInv'
<1>1. ASSUME NEW j \in JobIds, TickExpire(j) \/ TickNoAnswer(j)
      PROVE TypeInv'
  <2>1. jobs' \in [JobIds -> Job] /\ PlansOK'
    BY <1>1, SetState DEF TickExpire, TickNoAnswer, FailApply, JobStates
  <2> QED BY <1>1, <2>1, TypedNow, TypeRequest DEF TickExpire, TickNoAnswer, LeavesRouter
<1>2. ASSUME NEW j \in JobIds, TickSend(j) \/ TickConfirm(j)
      PROVE TypeInv'
  <2>1. run' \in Seq(Frame) BY <1>2, FrameMakes, RunOf DEF TickSend, TickConfirm
  <2> QED BY <1>2, <2>1, TypedNow, TypeRequest
          DEF TickSend, TickConfirm, LeavesRouter, persisted
<1>3. ASSUME NEW j \in JobIds, TickAssume(j)
      PROVE TypeInv'
  <2>. DEFINE x == [jobs[j] EXCEPT !.state = "rolled_back", !.assumed = TRUE]
  <2>1. jobs[j] \in Job /\ PlanOK(jobs[j]) BY JobIs
  <2>2. x \in Job /\ PlanOK(x) BY <2>1 DEF Job, JobStates, PlanOK
  <2>3. jobs' = [jobs EXCEPT ![j] = x] BY <1>3, TypedNow DEF TickAssume, Assume, Job
  <2>4. jobs' \in [JobIds -> Job] /\ PlansOK' BY <2>2, <2>3, JobUpdate
  <2>5. \A s \in jobs[j].secs : jobs[j].replaced[s] \in Contents
    BY <2>1, PartialIs DEF PlanOK, Job
  <2>6. rows' \in [Sections -> Row] BY <1>3, <2>5, TypedNow DEF TickAssume, Row
  <2> QED BY <1>3, <2>4, <2>6, TypedNow, TypeRequest DEF TickAssume, LeavesRouter
<1> QED BY <1>1, <1>2, <1>3 DEF Tick

-----------------------------------------------------------------------------
(* The agent.                                                              *)

LEMMA ReceivedRequest ==
  ASSUME TypeInv, NEW m, Received(m)
  PROVE /\ wire # <<>> /\ Head(wire) \in Request /\ Head(wire).m = m
        /\ wire' \in Seq(Request)
BY DEF Received, TypeInv, TypeOK, LinkOK

LEMMA AnswerReply ==
  ASSUME TypeInv, NEW r \in Reply, Answer(r)
  PROVE reply' \in Reply
BY DEF Answer, TypeInv, TypeOK, MemoryOK

LEMMA NotifyQueue ==
  ASSUME TypeInv, NEW task \in Task, Notify(task)
  PROVE queue' \in Seq(Task)
BY EnqueuedQueue DEF Notify, TypeInv, TypeOK, MemoryOK

\* A step of the router: the controller's rows and its stack stay.
LEMMA RouterStep ==
  ASSUME TypeInv, UNCHANGED <<persisted, run, ingest>>, queue' \in Seq(Task),
         reply' \in Reply, LinkOK', RouterOK', ClockOK'
  PROVE TypeInv'
<1>1. MemoryOK' BY DEF TypeInv, TypeOK, MemoryOK
<1> QED BY <1>1, KeepPersisted, InvParts

LEMMA MemoryNow ==
  ASSUME TypeInv
  PROVE /\ queue \in Seq(Task) /\ reply \in Reply
        /\ UNCHANGED link => LinkOK'
        /\ UNCHANGED <<session, hello>> /\ wire' \in Seq(Request) => LinkOK'
        /\ UNCHANGED router => RouterOK'
        /\ UNCHANGED <<window, count>> => ClockOK'
BY DEF TypeInv, TypeOK, MemoryOK, LinkOK, RouterOK, ClockOK, link, router

LEMMA RestoreRouter ==
  ASSUME TypeInv, NEW j \in JobIds, NEW b \in BOOLEAN, Restore(j, b)
  PROVE RouterOK'
<1>1. Restored(j, b) \in Result BY RestoredIsResult DEF TypeInv
<1>2. 0 \in Sess BY ApplyAssumption DEF Sess
<1> QED BY <1>1, <1>2 DEF Restore, TypeInv, TypeOK, RouterOK

LEMMA NotifyRestored ==
  ASSUME TypeInv, NEW j \in JobIds, NEW b \in BOOLEAN, RestoreAndNotify(j, b)
  PROVE RouterOK' /\ queue' \in Seq(Task)
<1>1. [t |-> "result", res |-> Restored(j, b)] \in Task
  BY RestoredIsResult, TaskMakes DEF TypeInv
<1> QED BY <1>1, NotifyQueue, RestoreRouter DEF RestoreAndNotify

LEMMA PlainOutcome ==
  ASSUME NEW j \in JobIds, NEW v \in {"rolled_back", "confirmed"}, NEW h \in Config
  PROVE Outcome(j, v, FALSE, h, NoPartial) \in Result
BY PartialIs DEF Outcome, Result

LEMMA TypeAgentApply ==
  ASSUME TypeInv, AgentApply
  PROVE TypeInv'
<1>. DEFINE j == Head(wire).job
            after == Over(uci, jobs[j].written)
            res == Outcome(j, "rolled_back", FALSE, uci, NoPartial)
<1>1. Head(wire) \in Request /\ Head(wire).m = "apply" /\ wire' \in Seq(Request)
  BY ReceivedRequest DEF AgentApply
<1>2. j \in JobIds BY <1>1, RequestFields
<1>3. uci \in Config BY DEF TypeInv, TypeOK, RouterOK
<1>4. jobs[j].written \in Partial BY <1>2, JobIs DEF Job
<1>5. after \in Config BY <1>3, <1>4, OverIsConfig
<1>6. res \in Result BY <1>2, <1>3, PlainOutcome
<1>7. reply' \in Reply
  BY <1>3, <1>6, ReplyMakes, AnswerReply DEF AgentApply
<1>8. RouterOK'
  <2>1. CASE UNCHANGED router BY <2>1, MemoryNow
  <2>2. CASE /\ results' = results \cup {res} /\ fate' = [fate EXCEPT ![j] = "restored"]
             /\ UNCHANGED <<uci, snapshot, jobSession, agentChecks>>
    BY <1>6, <2>2 DEF TypeInv, TypeOK, RouterOK
  <2>3. CASE /\ fate' = [fate EXCEPT ![j] = "noop"]
             /\ UNCHANGED <<uci, snapshot, jobSession, agentChecks, results>>
    BY <2>3 DEF TypeInv, TypeOK, RouterOK
  <2>4. CASE /\ uci' = after /\ snapshot' = uci /\ fate' = [fate EXCEPT ![j] = "live"]
             /\ jobSession' = session /\ UNCHANGED results
             /\ agentChecks' = IF Checked THEN "pending" ELSE "none"
    BY <1>5, <2>4 DEF TypeInv, TypeOK, RouterOK, LinkOK
  <2> QED BY <2>1, <2>2, <2>3, <2>4 DEF AgentApply
<1>9. ClockOK'
  BY DEF AgentApply, TypeInv, TypeOK, ClockOK
<1>10. LinkOK' BY <1>1, MemoryNow DEF AgentApply
<1> QED BY <1>7, <1>8, <1>9, <1>10, MemoryNow, RouterStep DEF AgentApply

LEMMA TypeAgentConfirm ==
  ASSUME TypeInv, AgentConfirm
  PROVE TypeInv'
<1>. DEFINE j == Head(wire).job
            res == Outcome(j, "confirmed", FALSE, uci, NoPartial)
<1>1. Head(wire) \in Request /\ Head(wire).m = "confirm" /\ wire' \in Seq(Request)
  BY ReceivedRequest DEF AgentConfirm
<1>2. j \in JobIds BY <1>1, RequestFields
<1>3. uci \in Config /\ results \in SUBSET Result BY DEF TypeInv, TypeOK, RouterOK
<1>4. res \in Result BY <1>2, <1>3, PlainOutcome
<1>5. reply' \in Reply
  BY <1>3, ReplyMakes, AnswerReply DEF AgentConfirm
<1>6. RouterOK'
  <2>1. CASE UNCHANGED router BY <2>1, MemoryNow
  <2>2. CASE /\ fate' = [fate EXCEPT ![j] = "kept"] /\ agentChecks' = "none"
             /\ results' = IF KeepsConfirmed THEN results \cup {res} ELSE results
             /\ snapshot' = uci /\ jobSession' = 0 /\ UNCHANGED uci
    <3>1. 0 \in Sess BY ApplyAssumption DEF Sess
    <3> QED BY <1>4, <2>2, <3>1 DEF TypeInv, TypeOK, RouterOK
  <2> QED BY <2>1, <2>2 DEF AgentConfirm
<1>7. LinkOK' BY <1>1, MemoryNow DEF AgentConfirm
<1> QED BY <1>5, <1>6, <1>7, MemoryNow, RouterStep DEF AgentConfirm

LEMMA TypeAgent ==
  ASSUME TypeInv, Agent
  PROVE TypeInv'
<1>1. CASE AgentRollback
  <2>. DEFINE j == Head(wire).job
  <2>1. Head(wire) \in Request /\ Head(wire).m = "rollback" /\ wire' \in Seq(Request)
    BY <1>1, ReceivedRequest DEF AgentRollback
  <2>2. j \in JobIds BY <2>1, RequestFields
  <2>3. reply' \in Reply BY <1>1, ReplyMakes, AnswerReply DEF AgentRollback
  <2>4. RouterOK' /\ queue' \in Seq(Task)
    BY <1>1, <2>2, NotifyRestored, MemoryNow DEF AgentRollback
  <2>5. LinkOK' BY <1>1, <2>1, MemoryNow DEF AgentRollback
  <2> QED BY <1>1, <2>3, <2>4, <2>5, MemoryNow, RouterStep DEF AgentRollback
<1>2. CASE AgentRead
  <2>1. wire' \in Seq(Request) BY <1>2, ReceivedRequest DEF AgentRead
  <2>2. uci \in Config BY DEF TypeInv, TypeOK, RouterOK
  <2>3. reply' \in Reply BY <1>2, <2>2, ReplyMakes, AnswerReply DEF AgentRead
  <2>4. LinkOK' BY <1>2, <2>1, MemoryNow DEF AgentRead
  <2> QED BY <1>2, <2>3, <2>4, MemoryNow, RouterStep DEF AgentRead
<1>3. ASSUME NEW j \in JobIds, AgentDeadline(j) \/ ChecksFail(j)
      PROVE TypeInv'
  <2>1. RouterOK' /\ queue' \in Seq(Task)
    BY <1>3, NotifyRestored DEF AgentDeadline, ChecksFail
  <2> QED BY <1>3, <2>1, MemoryNow, RouterStep DEF AgentDeadline, ChecksFail
<1>4. ASSUME NEW j \in JobIds, ChecksPass(j)
      PROVE TypeInv'
  <2>1. queue' \in Seq(Task) BY <1>4, TaskMakes, NotifyQueue DEF ChecksPass
  <2>2. RouterOK' BY <1>4 DEF ChecksPass, TypeInv, TypeOK, RouterOK
  <2> QED BY <1>4, <2>1, <2>2, MemoryNow, RouterStep DEF ChecksPass
<1> QED BY <1>1, <1>2, <1>3, <1>4, TypeAgentApply, TypeAgentConfirm DEF Agent

-----------------------------------------------------------------------------
(* The link, the clock, the router's admin and restarts.                   *)

LEMMA ZeroTyped ==
  /\ 0 \in Sess /\ 0 \in 0..MaxJobs /\ 0 \in 0..MaxChain
  /\ 0 \in 0..MaxEdits /\ 0 \in 0..MaxRouterEdits /\ 0 \in 0..MaxTimeouts
  /\ 0 \in 0..MaxCrashes /\ 0 \in 0..MaxDetached
BY ApplyAssumption DEF Sess

LEMMA ClosedLink ==
  ASSUME Closed
  PROVE LinkOK'
<1>1. NoHello \in Hello BY ZeroTyped DEF NoHello, Hello, ChecksStates
<1>2. <<>> \in Seq(Request) OBVIOUS
<1> QED BY <1>1, <1>2, ZeroTyped DEF Closed, LinkOK

LEMMA TypeDial ==
  ASSUME TypeInv, Dial
  PROVE TypeInv'
<1>1. count.sessions \in Nat /\ count.sessions + 1 \in Sess
  BY ApplyAssumption DEF Dial, TypeInv, TypeOK, ClockOK, Sess
<1>2. ClockOK' BY <1>1 DEF Dial, TypeInv, TypeOK, ClockOK
<1>3. (IF AnyLive THEN CHOOSE j \in JobIds : Live(j) ELSE 0) \in 0..MaxJobs
  BY ZeroTyped DEF AnyLive, JobIds
<1>4. hello' \in Hello
  BY <1>3 DEF Dial, Hello, TypeInv, TypeOK, RouterOK, ChecksStates
<1>5. LinkOK' BY <1>1, <1>4 DEF Dial, TypeInv, TypeOK, LinkOK
<1>6. queue' \in Seq(Task) BY MemoryNow, TaskMakes, EnqueuedQueue DEF Dial
<1> QED BY <1>2, <1>5, <1>6, MemoryNow, RouterStep DEF Dial

LEMMA TypeTimeout ==
  ASSUME TypeInv, Timeout
  PROVE TypeInv'
<1>1. wire \in Seq(Request) BY DEF TypeInv, TypeOK, LinkOK
<1>2. wire' \in Seq(Request)
  <2>1. \A i \in DOMAIN wire : [wire[i] EXCEPT !.late = TRUE] \in Request
    BY <1>1, RequestFields
  <2> QED BY <1>1, <2>1 DEF Timeout
<1>3. LinkOK' BY <1>2, MemoryNow DEF Timeout
<1>4. ClockOK' BY ApplyAssumption DEF Timeout, TypeInv, TypeOK, ClockOK
<1>5. reply' \in Reply BY ReplyMakes DEF Timeout
<1> QED BY <1>3, <1>4, <1>5, MemoryNow, RouterStep DEF Timeout

LEMMA TypeEnvironment ==
  ASSUME TypeInv, Environment
  PROVE TypeInv'
<1>1. CASE Drop
  <2>1. reply' \in Reply BY <1>1, ReplyMakes, MemoryNow DEF Drop
  <2> QED BY <1>1, <2>1, ClosedLink, MemoryNow, RouterStep DEF Drop
<1>2. CASE Reboot
  <2>1. reply' \in Reply BY <1>2, ReplyMakes, MemoryNow DEF Reboot
  <2>2. RouterOK' BY <1>2, RestoreRouter DEF Reboot
  <2> QED BY <1>2, <2>1, <2>2, ClosedLink, MemoryNow, RouterStep DEF Reboot
<1>3. CASE AgentPush
  <2>1. MemoryOK' BY <1>3 DEF AgentPush, TypeInv, TypeOK, MemoryOK, LinkOK
  <2>2. UNCHANGED link => LinkOK' BY MemoryNow
  <2> QED BY <1>3, <2>1, <2>2, KeepPersisted, KeepOutside, InvParts DEF AgentPush
<1>4. CASE PushIngested
  <2>1. [t |-> "push", sess |-> ingest] \in Task
    BY TaskMakes DEF TypeInv, TypeOK, MemoryOK
  <2>2. queue' \in Seq(Task) BY <1>4, <2>1, MemoryNow, EnqueuedQueue DEF PushIngested
  <2>3. MemoryOK' BY <1>4, <2>2, ZeroTyped DEF PushIngested, TypeInv, TypeOK, MemoryOK
  <2> QED BY <1>4, <2>3, KeepPersisted, KeepOutside, InvParts DEF PushIngested
<1>5. ASSUME NEW s \in Sections, NEW c \in Contents, RouterEdit(s, c)
      PROVE TypeInv'
  <2>1. queue' \in Seq(Task) BY <1>5, TaskMakes, NotifyQueue DEF RouterEdit
  <2>2. RouterOK' BY <1>5 DEF RouterEdit, TypeInv, TypeOK, RouterOK, Config
  <2>3. ClockOK' BY <1>5, ApplyAssumption DEF RouterEdit, TypeInv, TypeOK, ClockOK
  <2> QED BY <1>5, <2>1, <2>2, <2>3, MemoryNow, RouterStep DEF RouterEdit
<1>6. CASE Crash
  <2>1. MemoryOK' BY <1>6, ReplyMakes, ZeroTyped DEF Crash, MemoryOK
  <2>. MaxCrashes \in Nat BY ApplyAssumption
  <2>2. ClockOK' BY <1>6 DEF Crash, TypeInv, TypeOK, ClockOK
  <2>3. RouterOK' BY <1>6, MemoryNow DEF Crash
  <2> QED BY <1>6, <2>1, <2>2, <2>3, ClosedLink, KeepPersisted, InvParts DEF Crash
<1>7. ASSUME NEW j \in JobIds, WindowCloses(j) \/ WindowEnds(j)
      PROVE TypeInv'
  <2>1. ClockOK' BY <1>7 DEF WindowCloses, WindowEnds, TypeInv, TypeOK, ClockOK
  <2>2. UNCHANGED <<persisted, memory, link, router>>
    BY <1>7 DEF WindowCloses, WindowEnds
  <2> QED BY <2>1, <2>2, MemoryNow, KeepPersisted, KeepMemory, InvParts
<1> QED BY <1>1, <1>2, <1>3, <1>4, <1>5, <1>6, <1>7, TypeDial, TypeTimeout DEF Environment

-----------------------------------------------------------------------------
(* The theorem.                                                            *)

LEMMA TypeInit ==
  ASSUME Init
  PROVE TypeInv
<1>. PICK c \in Config :
       /\ uci = c /\ snapshot = c /\ observed = c
       /\ rows = [s \in Sections |->
                   [base |-> c[s], router |-> c[s], desired |-> c[s],
                    conflict |-> "none", discarded |-> c[s]]]
       /\ jobs = [j \in JobIds |->
                   [state |-> "none", mode |-> "agent", sentIn |-> 0,
                    reconnected |-> FALSE, agentHalf |-> FALSE, halfFrom |-> 0,
                    adminHalf |-> FALSE, checks |-> "none", retried |-> FALSE,
                    assumed |-> FALSE, chainStep |-> 0, secs |-> {},
                    written |-> NoPartial, replaced |-> NoPartial, base |-> c]]
  BY DEF Init
<1>1. rows \in [Sections -> Row] BY DEF Row, Config
<1>2. jobs \in [JobIds -> Job]
  BY ZeroTyped, PartialIs DEF Job, JobStates, ChecksStates
<1>3. PlansOK BY PartialIs DEF PlansOK, PlanOK
<1>4. MemoryOK BY ReplyMakes, ZeroTyped DEF Init, MemoryOK
<1>5. NoHello \in Hello BY ZeroTyped DEF NoHello, Hello, ChecksStates
<1>6. LinkOK BY <1>5, ZeroTyped DEF Init, LinkOK
<1>7. RouterOK BY ZeroTyped DEF Init, RouterOK
<1>8. ClockOK BY ZeroTyped DEF Init, ClockOK
<1> QED BY <1>1, <1>2, <1>3, <1>4, <1>6, <1>7, <1>8 DEF TypeInv, TypeOK, PersistedOK

LEMMA TypeNext ==
  ASSUME TypeInv, [Next]_vars
  PROVE TypeInv'
<1>1. CASE UNCHANGED vars
  <2>1. UNCHANGED <<persisted, memory, link, router, window, count>> BY <1>1 DEF vars
  <2> QED BY <2>1, KeepPersisted, KeepMemory, KeepOutside, InvParts
<1> QED BY <1>1, TypeController, TypeAdmin, TypeTick, TypeAgent, TypeEnvironment DEF Next

\* Every job, row, task, frame, message and outcome the protocol ever holds is
\* of the shape its code gives it, and a job's plan covers just its sections.
THEOREM TypeCorrect == Spec => []TypeInv
<1>1. Init => TypeInv BY TypeInit
<1>2. TypeInv /\ [Next]_vars => TypeInv' BY TypeNext
<1> QED BY <1>1, <1>2, PTL DEF Spec

\* The type invariant the runs check.
THEOREM TypeOKAlways == Spec => []TypeOK
<1>1. TypeInv => TypeOK BY DEF TypeInv
<1> QED BY <1>1, TypeCorrect, PTL
=============================================================================
