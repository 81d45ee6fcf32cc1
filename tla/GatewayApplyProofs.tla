-------------------------- MODULE GatewayApplyProofs --------------------------
(***************************************************************************)
(* For every value of the constants: until a detached timer requests a job *)
(* no two jobs of a gateway are open and a task finds its job as it left   *)
(* it; and whatever the timers do, a finished job stays what it is, the    *)
(* router keeps a change only with every gate open, what is reported of a  *)
(* job is what became of it on the router, and every behaviour is one that *)
(* CommitConfirm allows.                                                   *)
(*                                                                         *)
(* The first three hang together.  That a chained job may open depends on  *)
(* the job before it being closed when the task goes on (HoldsJob), which  *)
(* depends on nobody else having opened one meanwhile (OneOpen); and since *)
(* a task is a stack, what the top frame relies on must hold of the frames *)
(* that will surface later, too (StackOK).  A timer's request comes on top *)
(* of such a stack while no job is open: only a chain that goes on below   *)
(* it relied on that.                                                      *)
(*                                                                         *)
(* The verdicts are told from afar: what the controller saves was said by  *)
(* the router some steps ago.  So everything on its way has to be true of  *)
(* the router (VInv): the outcomes listed, greeted with, queued and held   *)
(* by frames (OutcomesTrue), the requests on the wire, late ones included  *)
(* (WireOK), and the answer that is awaited (TalkOK).  It stays true       *)
(* because what became of a job on the router is final (Grows).            *)
(*                                                                         *)
(* For the refinement each step is told to CommitConfirm as nothing, as    *)
(* one thing of one job of the controller, or as one of the router (Tells).*)
(*                                                                         *)
(* What a job carries holds still (CarriedRowsHold) but for one step, the  *)
(* settling of a conflict that the late result of an assumed job left of a *)
(* section the next job carries.                                           *)
(* What a job replaces on the router is what it was planned on             *)
(* (ReplacesAsPlanned), since no job that was sent is planned again.       *)
(*                                                                         *)
(* And what it was planned on is what the rows had, as long as no job has  *)
(* ended on the router (FInv): rows and hashes are then of one read, so    *)
(* the first job the router takes overwrites nothing that was not seen.    *)
(***************************************************************************)
EXTENDS GatewayApplyTypes

\* The frames that act on a job without looking at its state again.  That no job is
\* open when a chain goes on is relied on, but a timer's request may open one.
Relies ==
  {"sendApply", "awaitApply", "awaitConfirm"}
    \cup (IF count.detached = 0 THEN {"chainNext"} ELSE {})
Clear(s) == \A i \in DOMAIN s : s[i].f \notin Relies

\* Below the top nothing relies on a job's state, except the apply that is sent
\* again after a read (stale_base).
StackOK ==
  run # <<>> =>
    \/ Clear(Tail(run))
    \/ /\ Top.f \in {"readAndReconcile", "awaitRead"}
       /\ Tail(run) # <<>>
       /\ Head(Tail(run)).f = "sendApply"
       /\ jobs[Head(Tail(run)).job].state = "queued"
       /\ Clear(Tail(Tail(run)))

\* TaskHoldsJob, of which a timer's request breaks no more than the last part.
HoldsJob ==
  run # <<>> =>
    /\ Top.f = "sendApply" => jobs[Top.job].state = "queued"
    /\ Top.f = "awaitApply" => jobs[Top.job].state = "sending"
    /\ Top.f = "awaitConfirm" => jobs[Top.job].state = "pending_confirm"
    /\ Top.f = "chainNext" /\ count.detached = 0 => ~HasOpenApply

IInv == TypeInv /\ OneOpen /\ HoldsJob /\ StackOK

\* What a step does to the states of the jobs: nothing, it moves the open one, or
\* it opens a new one while none is open.
SameState(j) == jobs'[j].state = jobs[j].state
Kept == \A k \in JobIds : SameState(k)
Moved == \E j \in JobIds : Open(j) /\ \A k \in JobIds \ {j} : SameState(k)
Opened ==
  /\ count.detached = 0 => ~HasOpenApply
  /\ \E j \in JobIds : jobs[j].state = "none" /\ \A k \in JobIds \ {j} : SameState(k)
StateStep == Kept \/ Moved \/ Opened

\* No timer has made a request in this step.
Undetached == count'.detached = count.detached

-----------------------------------------------------------------------------
(* Stacks.                                                                 *)

LEMMA Push1 ==
  ASSUME NEW s \in Seq(Frame), NEW x \in Frame
  PROVE /\ <<x>> \o s \in Seq(Frame) /\ <<x>> \o s # <<>>
        /\ Head(<<x>> \o s) = x /\ Tail(<<x>> \o s) = s
OBVIOUS

LEMMA Push2 ==
  ASSUME NEW s \in Seq(Frame), NEW x \in Frame, NEW y \in Frame
  PROVE /\ <<x, y>> \o s \in Seq(Frame) /\ <<x, y>> \o s # <<>>
        /\ Head(<<x, y>> \o s) = x /\ Tail(<<x, y>> \o s) = <<y>> \o s
OBVIOUS

LEMMA ClearTail ==
  ASSUME NEW s \in Seq(Frame), s # <<>>, Clear(s)
  PROVE Clear(Tail(s)) /\ Head(s).f \notin Relies
BY DEF Clear

LEMMA ClearPush ==
  ASSUME NEW s \in Seq(Frame), Clear(s), NEW x \in Frame, x.f \notin Relies
  PROVE Clear(<<x>> \o s)
BY DEF Clear

LEMMA ClearNone == Clear(<<>>) /\ Clear(Tail(<<>>)) /\ \A x : Clear(Tail(<<x>>))
BY DEF Clear

LEMMA TailRun ==
  ASSUME IInv, run # <<>>
  PROVE Tail(run) \in Seq(Frame) /\ run \in Seq(Frame)
BY DEF IInv, TypeInv, TypeOK, MemoryOK

\* A frame returns: the one below relies on nothing.
LEMMA ReturnOK ==
  ASSUME IInv, Undetached, run # <<>>, Top.f \notin {"readAndReconcile", "awaitRead"}, Return
  PROVE StackOK' /\ HoldsJob'
<1>1. Clear(Tail(run)) BY DEF IInv, StackOK
<1>2. run' \in Seq(Frame) /\ Clear(run') BY <1>1, TailRun DEF Return
<1>3. run' # <<>> => Clear(Tail(run')) /\ Head(run').f \notin Relies
  BY <1>2, ClearTail
<1> QED BY <1>3 DEF StackOK, HoldsJob, Top, Clear, Relies, Undetached

\* A frame calls another in its place.
LEMMA CallOK ==
  ASSUME IInv, Undetached, run # <<>>, Top.f \notin {"readAndReconcile", "awaitRead"},
         NEW x \in Frame, Call(<<x>>)
  PROVE StackOK' /\ run' # <<>> /\ Top' = x
<1>1. Clear(Tail(run)) BY DEF IInv, StackOK
<1>2. run' # <<>> /\ Head(run') = x /\ Tail(run') = Tail(run)
  BY TailRun, Push1 DEF Call
<1> QED BY <1>1, <1>2 DEF StackOK, Top, Clear, Relies, Undetached

LEMMA CallTop ==
  ASSUME IInv, run # <<>>, NEW x \in Frame, Call(<<x>>)
  PROVE run' # <<>> /\ Top' = x
BY TailRun, Push1 DEF Call, Top

\* A frame calls another and leaves one below that relies on nothing.
LEMMA CallTwoOK ==
  ASSUME IInv, Undetached, run # <<>>, Top.f \notin {"readAndReconcile", "awaitRead"},
         NEW x \in Frame, NEW y \in Frame, y.f \notin Relies, Call(<<x, y>>)
  PROVE StackOK' /\ run' # <<>> /\ Top' = x
<1>1. Clear(Tail(run)) BY DEF IInv, StackOK
<1>2. run' # <<>> /\ Head(run') = x /\ Tail(run') = <<y>> \o Tail(run)
  BY TailRun, Push2 DEF Call
<1>3. Clear(Tail(run')) BY <1>1, <1>2, TailRun, ClearPush
<1> QED BY <1>2, <1>3 DEF StackOK, Top, Clear, Relies, Undetached

\* Jobs and stack untouched.
LEMMA NothingMoved ==
  ASSUME IInv, Undetached, UNCHANGED <<jobs, run>>
  PROVE StackOK' /\ HoldsJob' /\ Kept
BY DEF IInv, StackOK, HoldsJob, Top, HasOpenApply, Open, Kept, SameState,
       Clear, Relies, Undetached

-----------------------------------------------------------------------------
(* One job moves.                                                          *)

LEMMA JobsAre ==
  ASSUME IInv
  PROVE jobs \in [JobIds -> Job]
BY DEF IInv, TypeInv, TypeOK, PersistedOK

\* The only job open closes: none is open after.
LEMMA ClosedAll ==
  ASSUME IInv, NEW j \in JobIds, Open(j), \A k \in JobIds \ {j} : SameState(k),
         jobs'[j].state \in Finished
  PROVE (count.detached = 0 => ~HasOpenApply') /\ Moved
BY DEF IInv, OneOpen, HasOpenApply, Open, SameState, Finished, Moved

LEMMA OthersStay ==
  ASSUME IInv, NEW j \in JobIds, NEW x, jobs' = [jobs EXCEPT ![j] = x]
  PROVE (\A k \in JobIds \ {j} : SameState(k)) /\ jobs'[j] = x
BY JobsAre DEF SameState

LEMMA OneOpenStep ==
  ASSUME IInv, StateStep, count'.detached = 0 => count.detached = 0
  PROVE OneOpen'
BY DEF IInv, StateStep, Kept, Moved, Opened, SameState, OneOpen, HasOpenApply, Open

LEMMA FinishedStep ==
  ASSUME StateStep, NEW j \in JobIds, jobs[j].state \in Finished
  PROVE jobs'[j].state = jobs[j].state
BY DEF StateStep, Kept, Moved, Opened, SameState, Open, Finished

\* What every step must keep, the types apart.
Good ==
  /\ StackOK' /\ HoldsJob' /\ StateStep
  /\ count'.detached = 0 => count.detached = 0

-----------------------------------------------------------------------------
(* The frames of the running task.                                         *)

LEMMA TopIs ==
  ASSUME IInv, NEW fn, Running(fn)
  PROVE run # <<>> /\ Top \in Frame /\ Top.f = fn
BY RunningTop DEF IInv

LEMMA UnmovedJobs ==
  ASSUME UNCHANGED jobs
  PROVE StateStep
BY DEF StateStep, Kept, SameState

\* A frame returns without a word on the jobs.
LEMMA JustReturns ==
  ASSUME IInv, Undetached, run # <<>>,
         Top.f \notin {"readAndReconcile", "awaitRead"}, Return, UNCHANGED jobs
  PROVE Good
BY ReturnOK, UnmovedJobs DEF Good, Undetached

LEMMA HandlerClear ==
  ASSUME IInv, NEW task \in Task
  PROVE Clear(Handler(task))
<1>1. CASE task.t = "hello" BY <1>1 DEF Handler, Clear, Relies
<1>2. CASE task.t = "result" BY <1>2 DEF Handler, Clear, Relies, Settle
<1>3. CASE task.t = "push" BY <1>3 DEF Handler, Clear, Relies
<1>4. CASE task.t = "checks" BY <1>4 DEF Handler, Clear, Relies
<1>5. CASE task.t = "read" BY <1>5 DEF Handler, Clear, Relies, Read
<1> QED BY <1>1, <1>2, <1>3, <1>4, <1>5, TaskFields

LEMMA GoodStartTask ==
  ASSUME IInv, StartTask
  PROVE Good
<1>0. Undetached BY DEF Undetached, StartTask
<1>1. Head(queue) \in Task BY DEF IInv, StartTask, TypeInv, TypeOK, MemoryOK
<1>2. run' \in Seq(Frame) /\ Clear(run')
  BY <1>1, HandlerClear, TypeHandler DEF StartTask, IInv
<1>3. run' # <<>> => Clear(Tail(run')) /\ Head(run').f \notin Relies
  BY <1>2, ClearTail
<1>4. StateStep BY UnmovedJobs DEF StartTask, persisted
<1> QED BY <1>0, <1>3, <1>4 DEF Undetached, Good, StackOK, HoldsJob, Top, Clear, Relies

LEMMA GoodApplyResults ==
  ASSUME IInv, ApplyResults
  PROVE Good
<1>0. Undetached BY DEF Undetached, ApplyResults
<1>1. run # <<>> /\ Top \in Frame /\ Top.f = "applyResults" BY TopIs DEF ApplyResults
<1>2. StateStep /\ UNCHANGED jobs BY UnmovedJobs DEF ApplyResults, persisted
<1>3. CASE Return BY <1>0, <1>1, <1>2, <1>3, JustReturns
<1>4. ASSUME NEW r \in Top.set,
             Call(<<Settle(r), [f |-> "applyResults", set |-> Top.set \ {r}]>>)
      PROVE Good
  <2>1. Settle(r) \in Frame /\ [f |-> "applyResults", set |-> Top.set \ {r}] \in Frame
    BY <1>1, FrameFields, FrameMakes
  <2>2. StackOK' /\ run' # <<>> /\ Top' = Settle(r)
    BY <1>0, <1>1, <1>4, <2>1, CallTwoOK DEF Relies
  <2> QED BY <1>0, <1>2, <2>2 DEF Undetached, Good, HoldsJob, Settle
<1> QED BY <1>3, <1>4 DEF ApplyResults

LEMMA GoodApplyResult ==
  ASSUME IInv, ApplyResult
  PROVE Good
<1>. DEFINE res == Top.res
            ack == [f |-> "ackResults", res |-> res]
<1>0. Undetached BY DEF Undetached, ApplyResult
<1>1. run # <<>> /\ Top \in Frame /\ Top.f = "applyResult" BY TopIs DEF ApplyResult
<1>2. res \in Result /\ res.job \in JobIds BY <1>1, FrameFields DEF Result
<1>3. ack \in Frame /\ CallOf("chainNext", res.job) \in Frame BY <1>2, FrameMakes
<1>4. ASSUME Open(res.job), FinishConfirmed(res.job, res.hash),
             Call(<<CallOf("chainNext", res.job), ack>>)
      PROVE Good
  <2>1. /\ \A k \in JobIds \ {res.job} : SameState(k)
        /\ jobs'[res.job].state = "confirmed"
    BY <1>2, <1>4, JobsAre DEF FinishConfirmed, SameState, Job
  <2>2. (count.detached = 0 => ~HasOpenApply') /\ Moved
    BY <1>2, <1>4, <2>1, ClosedAll DEF Finished
  <2>3. StackOK' /\ run' # <<>> /\ Top' = CallOf("chainNext", res.job)
    BY <1>0, <1>1, <1>3, <1>4, CallTwoOK DEF Relies
  <2> QED BY <1>0, <2>2, <2>3 DEF Undetached, Good, StateStep, HoldsJob, CallOf
<1>5. ASSUME Call(<<ack>>)
      PROVE StackOK' /\ HoldsJob'
  <2>1. StackOK' /\ run' # <<>> /\ Top' = ack BY <1>0, <1>1, <1>3, <1>5, CallOK
  <2> QED BY <2>1 DEF HoldsJob
<1>6. ASSUME SettleRolledBack(res.job, res)
      PROVE StateStep
  <2>1. \A k \in JobIds \ {res.job} : SameState(k)
    BY <1>2, <1>6, JobsAre DEF SettleRolledBack, SameState
  <2>2. CASE Open(res.job) BY <1>2, <2>1, <2>2 DEF StateStep, Moved
  <2>3. CASE ~Open(res.job)
    <3>. DEFINE x == [jobs[res.job] EXCEPT
                        !.state = IF Open(res.job) THEN "rolled_back" ELSE @,
                        !.assumed = FALSE,
                        !.checks = IF res.checksFailed /\ @ # "overridden"
                                   THEN "failed" ELSE @]
    <3>0. jobs' = [jobs EXCEPT ![res.job] = x]
      BY <1>2, <1>6, JobsAre DEF SettleRolledBack, Job
    <3>2. x.state = jobs[res.job].state BY <1>2, <2>3, JobsAre DEF Job
    <3>1. SameState(res.job) BY <1>2, <3>0, <3>2, OthersStay DEF SameState
    <3> QED BY <2>1, <3>1 DEF StateStep, Kept
  <2> QED BY <2>2, <2>3
<1> QED BY <1>4, <1>5, <1>6, UnmovedJobs DEF ApplyResult, Good, persisted

LEMMA GoodSendApply ==
  ASSUME IInv, SendApply
  PROVE Good
<1>. DEFINE j == Top.job
<1>0. Undetached BY DEF Undetached, SendApply
<1>1. run # <<>> /\ Top \in Frame /\ Top.f = "sendApply" BY TopIs DEF SendApply
<1>2. j \in JobIds /\ Open(j) BY <1>1, FrameFields DEF IInv, HoldsJob, Open
<1>3. CASE Return /\ UNCHANGED jobs BY <1>0, <1>1, <1>3, JustReturns
<1>4. CASE Return /\ jobs' = [jobs EXCEPT ![j].state =
                               IF Blocked THEN "failed" ELSE "cancelled"]
  <2>1. \A k \in JobIds \ {j} : SameState(k) BY <1>2, <1>4, OthersStay
  <2>2. StackOK' /\ HoldsJob' BY <1>0, <1>1, <1>4, ReturnOK
  <2> QED BY <1>0, <1>2, <2>1, <2>2 DEF Undetached, Good, StateStep, Moved
<1>5. CASE /\ jobs' = [jobs EXCEPT ![j] = [WithPlan(@) EXCEPT !.state = "sending",
                                                              !.sentIn = session]]
           /\ Call(<<CallOf("awaitApply", j)>>)
  <2>1. \A k \in JobIds \ {j} : SameState(k) BY <1>2, <1>5, OthersStay
  <2>2. WithPlan(jobs[j]) \in Job
    BY <1>2, JobsAre, WithPlanJob DEF IInv, TypeInv
  <2>3. jobs'[j].state = "sending" BY <1>2, <1>5, <2>2, JobsAre DEF Job
  <2>4. StackOK' /\ run' # <<>> /\ Top' = CallOf("awaitApply", j)
    BY <1>0, <1>1, <1>2, <1>5, FrameMakes, CallOK
  <2>5. HoldsJob' BY <2>3, <2>4 DEF HoldsJob, CallOf
  <2> QED BY <1>0, <1>2, <2>1, <2>4, <2>5 DEF Undetached, Good, StateStep, Moved
<1> QED BY <1>3, <1>4, <1>5 DEF SendApply

LEMMA GoodAwaitApply ==
  ASSUME IInv, AwaitApply
  PROVE Good
<1>. DEFINE j == Top.job
<1>0. Undetached BY DEF Undetached, AwaitApply
<1>1. run # <<>> /\ Top \in Frame /\ Top.f = "awaitApply"
  BY TopIs DEF AwaitApply, Answered
<1>2. j \in JobIds /\ Open(j) BY <1>1, FrameFields DEF IInv, HoldsJob, Open
<1>3. reply \in Reply BY DEF IInv, TypeInv, TypeOK, MemoryOK
<1>4. CASE Return /\ UNCHANGED jobs BY <1>0, <1>1, <1>4, JustReturns
<1>5. CASE reply.code = "apply_failed" /\ Call(<<Settle(reply.res)>>) /\ UNCHANGED jobs
  <2>1. Settle(reply.res) \in Frame BY <1>3, <1>5, ReplyFields, FrameMakes
  <2>2. StackOK' /\ run' # <<>> /\ Top' = Settle(reply.res) BY <1>0, <1>1, <1>5, <2>1, CallOK
  <2> QED BY <1>0, <1>5, <2>2, UnmovedJobs DEF Undetached, Good, HoldsJob, Settle
<1>6. CASE /\ jobs' = [jobs EXCEPT ![j].retried = TRUE, ![j].state = "queued"]
           /\ Call(<<Read, CallOf("sendApply", j)>>)
  <2>1. /\ \A k \in JobIds \ {j} : SameState(k)
        /\ jobs'[j].state = "queued"
    BY <1>2, <1>6, JobsAre DEF SameState, Job
  <2>2. Clear(Tail(run)) BY <1>1 DEF IInv, StackOK
  <2>3. Read \in Frame /\ CallOf("sendApply", j) \in Frame BY <1>2, FrameMakes
  <2>4. /\ run' # <<>> /\ Head(run') = Read
        /\ Tail(run') = <<CallOf("sendApply", j)>> \o Tail(run)
    BY <1>1, <1>6, <2>3, TailRun, Push2 DEF Call
  <2>5. /\ Tail(run') # <<>> /\ Head(Tail(run')) = CallOf("sendApply", j)
        /\ Tail(Tail(run')) = Tail(run)
    BY <1>1, <2>3, <2>4, TailRun, Push1
  <2>6. StackOK'
    <3>1. Top'.f = "readAndReconcile" BY <2>4 DEF Top, Read
    <3>2. Head(Tail(run')).f = "sendApply" /\ Head(Tail(run')).job = j
      BY <2>5 DEF CallOf
    <3>3. jobs'[Head(Tail(run')).job].state = "queued" BY <2>1, <3>2
    <3>4. Clear(Tail(Tail(run'))) BY <2>2, <2>5
    <3> QED BY <1>0, <2>5, <3>1, <3>2, <3>3, <3>4
            DEF StackOK, Clear, Relies, Undetached
  <2>7. HoldsJob' BY <2>4 DEF HoldsJob, Top, Read
  <2> QED BY <1>0, <1>2, <2>1, <2>6, <2>7 DEF Undetached, Good, StateStep, Moved
<1>7. CASE /\ \/ FailApply(j)
              \/ jobs' = [jobs EXCEPT ![j].state = "pending_confirm",
                                      ![j].checks = IF Checked THEN "pending" ELSE @]
           /\ Return
  <2>1. \A k \in JobIds \ {j} : SameState(k)
    BY <1>2, <1>7, JobsAre DEF FailApply, SameState
  <2>2. StackOK' /\ HoldsJob' BY <1>0, <1>1, <1>7, ReturnOK
  <2> QED BY <1>0, <1>2, <2>1, <2>2 DEF Undetached, Good, StateStep, Moved
<1>8. CASE FinishConfirmed(j, reply.hash) /\ Call(<<CallOf("chainNext", j)>>)
  <2>1. /\ \A k \in JobIds \ {j} : SameState(k)
        /\ jobs'[j].state = "confirmed"
    BY <1>2, <1>8, JobsAre DEF FinishConfirmed, SameState, Job
  <2>2. (count.detached = 0 => ~HasOpenApply') /\ Moved
    BY <1>2, <2>1, ClosedAll DEF Finished
  <2>3. StackOK' /\ run' # <<>> /\ Top' = CallOf("chainNext", j)
    BY <1>0, <1>1, <1>2, <1>8, FrameMakes, CallOK
  <2> QED BY <1>0, <2>2, <2>3 DEF Undetached, Good, StateStep, HoldsJob, CallOf
<1> QED BY <1>4, <1>5, <1>6, <1>7, <1>8 DEF AwaitApply, persisted

LEMMA GoodChainNext ==
  ASSUME IInv, ChainNext
  PROVE Good
<1>. DEFINE j == Top.job
            step == jobs[j].chainStep + 1
<1>0. Undetached BY DEF Undetached, ChainNext
<1>1. run # <<>> /\ Top \in Frame /\ Top.f = "chainNext" BY TopIs DEF ChainNext
<1>2. count.detached = 0 => ~HasOpenApply BY <1>1 DEF IInv, HoldsJob
<1>3. j \in JobIds BY <1>1, FrameFields
<1>4. CASE Return /\ UNCHANGED jobs BY <1>0, <1>1, <1>4, JustReturns
<1>5. ASSUME step < MaxChain, NEW next \in JobIds,
             NEW mode \in IF Checked THEN Modes ELSE {jobs[j].mode},
             Fresh(next), CreateApply(next, mode, step), Call(<<CallOf("sendApply", next)>>)
      PROVE Good
  <2>1. \A k \in JobIds \ {next} : SameState(k) BY <1>5, OthersStay DEF CreateApply
  <2>2. [jobs[next] EXCEPT !.state = "queued", !.mode = mode, !.chainStep = step] \in Job
    <3>1. jobs[j].mode \in {"agent", "admin_and_agent"} /\ jobs[j].chainStep \in 0..MaxChain
      BY <1>3, JobsAre DEF Job
    <3>2. mode \in {"agent", "admin_and_agent"} /\ step \in 0..MaxChain
      BY <1>5, <3>1, ApplyAssumption
    <3>3. jobs[next] \in Job BY JobsAre
    <3> QED BY <3>2, <3>3 DEF Job, JobStates
  <2>3. jobs'[next].state = "queued"
    BY <1>5, <2>2, JobsAre DEF CreateApply, WithPlan, Job
  <2>4. StackOK' /\ run' # <<>> /\ Top' = CallOf("sendApply", next)
    BY <1>0, <1>1, <1>5, FrameMakes, CallOK
  <2>5. HoldsJob' BY <2>3, <2>4 DEF HoldsJob, CallOf
  <2> QED BY <1>0, <1>2, <1>5, <2>1, <2>4, <2>5 DEF Undetached, Good, StateStep, Opened, Fresh
<1> QED BY <1>4, <1>5 DEF ChainNext

LEMMA GoodTryConfirm ==
  ASSUME IInv, TryConfirm
  PROVE Good
<1>. DEFINE j == Top.job
<1>0. Undetached BY DEF Undetached, TryConfirm
<1>1. run # <<>> /\ Top \in Frame /\ Top.f = "tryConfirm" BY TopIs DEF TryConfirm
<1>2. j \in JobIds BY <1>1, FrameFields
<1>3. UNCHANGED jobs BY DEF TryConfirm, persisted
<1>4. CASE Return BY <1>0, <1>1, <1>3, <1>4, JustReturns
<1>5. CASE ReadyToConfirm(j) /\ Call(<<CallOf("awaitConfirm", j)>>)
  <2>1. StackOK' /\ run' # <<>> /\ Top' = CallOf("awaitConfirm", j)
    BY <1>0, <1>1, <1>2, <1>5, FrameMakes, CallOK
  <2>2. HoldsJob' BY <1>3, <1>5, <2>1 DEF HoldsJob, CallOf, ReadyToConfirm
  <2> QED BY <1>0, <1>3, <2>1, <2>2, UnmovedJobs DEF Undetached, Good
<1> QED BY <1>4, <1>5 DEF TryConfirm

LEMMA GoodAwaitConfirm ==
  ASSUME IInv, AwaitConfirm
  PROVE Good
<1>. DEFINE j == Top.job
<1>0. Undetached BY DEF Undetached, AwaitConfirm
<1>1. run # <<>> /\ Top \in Frame /\ Top.f = "awaitConfirm"
  BY TopIs DEF AwaitConfirm, Answered
<1>2. j \in JobIds /\ Open(j) BY <1>1, FrameFields DEF IInv, HoldsJob, Open
<1>3. reply \in Reply BY DEF IInv, TypeInv, TypeOK, MemoryOK
<1>4. CASE Return /\ UNCHANGED jobs BY <1>0, <1>1, <1>4, JustReturns
<1>5. CASE /\ \/ FailApply(j)
              \/ jobs' = [jobs EXCEPT ![j].checks = NextChecks(@, "pending")]
           /\ Return
  <2>1. \A k \in JobIds \ {j} : SameState(k)
    BY <1>2, <1>5, JobsAre DEF FailApply, SameState
  <2>2. StackOK' /\ HoldsJob' BY <1>0, <1>1, <1>5, ReturnOK
  <2> QED BY <1>0, <1>2, <2>1, <2>2 DEF Undetached, Good, StateStep, Moved
<1>6. CASE reply.code = "deadline_passed" /\ Call(<<Settle(reply.res)>>) /\ UNCHANGED jobs
  <2>1. Settle(reply.res) \in Frame BY <1>3, <1>6, ReplyFields, FrameMakes
  <2>2. StackOK' /\ run' # <<>> /\ Top' = Settle(reply.res) BY <1>0, <1>1, <1>6, <2>1, CallOK
  <2> QED BY <1>0, <1>6, <2>2, UnmovedJobs DEF Undetached, Good, HoldsJob, Settle
<1>7. CASE FinishConfirmed(j, reply.hash) /\ Call(<<CallOf("chainNext", j)>>)
  <2>1. /\ \A k \in JobIds \ {j} : SameState(k)
        /\ jobs'[j].state = "confirmed"
    BY <1>2, <1>7, JobsAre DEF FinishConfirmed, SameState, Job
  <2>2. (count.detached = 0 => ~HasOpenApply') /\ Moved
    BY <1>2, <2>1, ClosedAll DEF Finished
  <2>3. StackOK' /\ run' # <<>> /\ Top' = CallOf("chainNext", j)
    BY <1>0, <1>1, <1>2, <1>7, FrameMakes, CallOK
  <2> QED BY <1>0, <2>2, <2>3 DEF Undetached, Good, StateStep, HoldsJob, CallOf
<1> QED BY <1>4, <1>5, <1>6, <1>7 DEF AwaitConfirm, persisted

\* tryConfirm takes the place of a frame, maybe above one that only reads.
LEMMA CallsTryConfirm ==
  ASSUME IInv, Undetached, run # <<>>, Top.f \notin {"readAndReconcile", "awaitRead"},
         NEW j \in JobIds,
         \/ Call(<<CallOf("tryConfirm", j)>>)
         \/ Call(<<CallOf("tryConfirm", j), CallOf("readIfConfirmed", j)>>)
  PROVE StackOK' /\ HoldsJob'
<1>1. /\ CallOf("tryConfirm", j) \in Frame /\ CallOf("readIfConfirmed", j) \in Frame
      /\ CallOf("readIfConfirmed", j).f \notin Relies
  BY FrameMakes DEF CallOf, Relies
<1>2. StackOK' /\ run' # <<>> /\ Top' = CallOf("tryConfirm", j)
  BY <1>1, CallOK, CallTwoOK
<1> QED BY <1>2 DEF HoldsJob, CallOf

LEMMA GoodOnAgentReconnected ==
  ASSUME IInv, OnAgentReconnected
  PROVE Good
<1>0. Undetached BY DEF Undetached, OnAgentReconnected
<1>1. run # <<>> /\ Top.f = "onAgentReconnected" BY TopIs DEF OnAgentReconnected
<1>2. CASE Return /\ UNCHANGED jobs BY <1>0, <1>1, <1>2, JustReturns
<1>3. ASSUME NEW j \in JobIds, SentBefore(j),
             \/ jobs' = [jobs EXCEPT
                   ![j].state = "pending_confirm", ![j].reconnected = TRUE,
                   ![j].checks = NextChecks(jobs[j].checks, hello.checks)]
             \/ FailApply(j),
             Return \/ Call(<<CallOf("tryConfirm", j)>>)
      PROVE Good
  <2>1. Open(j) BY <1>3 DEF SentBefore, Open, InFlight
  <2>2. \A k \in JobIds \ {j} : SameState(k)
    BY <1>3, JobsAre DEF FailApply, SameState
  <2>3. StackOK' /\ HoldsJob' BY <1>0, <1>1, <1>3, ReturnOK, CallsTryConfirm
  <2> QED BY <1>0, <2>1, <2>2, <2>3 DEF Undetached, Good, StateStep, Moved
<1> QED BY <1>2, <1>3 DEF OnAgentReconnected

\* A job's other fields change, its state does not.
LEMMA StatesStay ==
  ASSUME IInv, NEW j \in JobIds, NEW x, jobs' = [jobs EXCEPT ![j] = x],
         x.state = jobs[j].state
  PROVE StateStep
BY JobsAre DEF StateStep, Kept, SameState

LEMMA GoodOnPushAccepted ==
  ASSUME IInv, OnPushAccepted
  PROVE Good
<1>0. Undetached BY DEF Undetached, OnPushAccepted
<1>1. run # <<>> /\ Top.f = "onPushAccepted" BY TopIs DEF OnPushAccepted
<1>2. CASE Return /\ UNCHANGED jobs BY <1>0, <1>1, <1>2, JustReturns
<1>3. ASSUME NEW j \in JobIds,
             jobs' = [jobs EXCEPT ![j].agentHalf = TRUE, ![j].halfFrom = Top.sess],
             Call(<<CallOf("tryConfirm", j), CallOf("readIfConfirmed", j)>>)
      PROVE Good
  <2>. DEFINE x == [jobs[j] EXCEPT !.agentHalf = TRUE, !.halfFrom = Top.sess]
  <2>1. jobs' = [jobs EXCEPT ![j] = x] /\ x.state = jobs[j].state
    BY <1>3, JobsAre DEF Job
  <2>2. StateStep BY <2>1, StatesStay
  <2> QED BY <1>0, <1>1, <1>3, <2>2, CallsTryConfirm DEF Undetached, Good
<1> QED BY <1>2, <1>3 DEF OnPushAccepted

LEMMA GoodRecordChecksReport ==
  ASSUME IInv, RecordChecksReport
  PROVE Good
<1>. DEFINE j == Top.job
            now == NextChecks(jobs[j].checks, Top.state)
<1>0. Undetached BY DEF Undetached, RecordChecksReport
<1>1. run # <<>> /\ Top \in Frame /\ Top.f = "recordChecksReport"
  BY TopIs DEF RecordChecksReport
<1>2. j \in JobIds BY <1>1, FrameFields
<1>3. CASE Return /\ UNCHANGED jobs BY <1>0, <1>1, <1>3, JustReturns
<1>4. CASE /\ jobs' = [jobs EXCEPT ![j].checks = now]
           /\ Return \/ Call(<<CallOf("tryConfirm", j)>>)
  <2>. DEFINE x == [jobs[j] EXCEPT !.checks = now]
  <2>1. jobs' = [jobs EXCEPT ![j] = x] /\ x.state = jobs[j].state
    BY <1>2, <1>4, JobsAre DEF Job
  <2>. HIDE DEF x
  <2>2. StateStep BY <1>2, <2>1, StatesStay
  <2> QED BY <1>0, <1>1, <1>2, <1>4, <2>2, ReturnOK, CallsTryConfirm DEF Undetached, Good
<1> QED BY <1>3, <1>4 DEF RecordChecksReport

LEMMA GoodReads ==
  ASSUME IInv, ReadIfMoved \/ ReadAndReconcile \/ AwaitRead
  PROVE Good
<1>0. Undetached BY DEF Undetached, ReadIfMoved, ReadAndReconcile, AwaitRead
<1>1. run # <<>> BY TopIs DEF ReadIfMoved, ReadAndReconcile, AwaitRead, Answered
<1>2. UNCHANGED jobs BY DEF ReadIfMoved, ReadAndReconcile, AwaitRead, persisted
<1>3. CASE ReadIfMoved
  <2>1. Top.f = "readIfMoved" BY <1>3, TopIs DEF ReadIfMoved
  <2>2. CASE Return BY <1>0, <1>1, <1>2, <2>1, <2>2, JustReturns
  <2>3. CASE Call(<<Read>>)
    <3>1. StackOK' /\ run' # <<>> /\ Top' = Read
      BY <1>0, <1>1, <2>1, <2>3, FrameMakes, CallOK
    <3> QED BY <1>0, <1>2, <3>1, UnmovedJobs DEF Undetached, Good, HoldsJob, Read
  <2> QED BY <1>3, <2>2, <2>3 DEF ReadIfMoved
<1>4. ASSUME Top.f \in {"readAndReconcile", "awaitRead"}, Return
      PROVE Good
  <2>1. run' = Tail(run) /\ run' \in Seq(Frame) BY <1>1, <1>4, TailRun DEF Return
  <2>2. CASE Clear(Tail(run))
    <3>1. run' # <<>> => Clear(Tail(run')) /\ Head(run').f \notin Relies
      BY <2>1, <2>2, ClearTail
    <3> QED BY <1>0, <1>2, <3>1, UnmovedJobs 
        DEF Undetached, Good, StackOK, HoldsJob, Top, Clear, Relies
  <2>3. CASE /\ Tail(run) # <<>>
             /\ Head(Tail(run)).f = "sendApply"
             /\ jobs[Head(Tail(run)).job].state = "queued"
             /\ Clear(Tail(Tail(run)))
    <3>1. StackOK' BY <1>0, <2>1, <2>3 DEF StackOK, Clear, Relies, Undetached
    <3>2. HoldsJob' BY <1>2, <2>1, <2>3 DEF HoldsJob, Top
    <3> QED BY <1>0, <1>2, <3>1, <3>2, UnmovedJobs DEF Undetached, Good
  <2> QED BY <1>1, <2>2, <2>3 DEF IInv, StackOK
<1>5. CASE AwaitRead
  BY <1>4, <1>5, TopIs DEF AwaitRead, Answered
<1>6. CASE ReadAndReconcile
  <2>1. Top.f = "readAndReconcile" BY <1>6, TopIs DEF ReadAndReconcile
  <2>2. CASE Return BY <1>4, <2>1, <2>2
  <2>3. CASE Call(<<[f |-> "awaitRead"]>>)
    <3>1. /\ run' # <<>> /\ Head(run') = [f |-> "awaitRead"] /\ Tail(run') = Tail(run)
      BY <1>1, <2>3, FrameMakes, TailRun, Push1 DEF Call
    <3>2. StackOK'
      <4>1. Top'.f = "awaitRead" BY <3>1 DEF Top
      <4>2. CASE Clear(Tail(run))
        BY <1>0, <3>1, <4>2 DEF StackOK, Clear, Relies, Undetached
      <4>3. CASE /\ Tail(run) # <<>>
                 /\ Head(Tail(run)).f = "sendApply"
                 /\ jobs[Head(Tail(run)).job].state = "queued"
                 /\ Clear(Tail(Tail(run)))
        BY <1>0, <1>2, <3>1, <4>1, <4>3 DEF StackOK, Clear, Relies, Undetached
      <4> QED BY <1>1, <4>2, <4>3 DEF IInv, StackOK
    <3>3. HoldsJob' BY <3>1 DEF HoldsJob, Top
    <3> QED BY <1>0, <1>2, <3>2, <3>3, UnmovedJobs DEF Undetached, Good
  <2> QED BY <1>6, <2>2, <2>3 DEF ReadAndReconcile
<1> QED BY <1>3, <1>5, <1>6

LEMMA GoodController ==
  ASSUME IInv, Controller
  PROVE Good
<1>1. CASE AckResults \/ AwaitRollback \/ ReadIfConfirmed \/ ReadLater
  <2>0. Undetached
    BY <1>1 DEF Undetached, AckResults, AwaitRollback, ReadIfConfirmed, ReadLater
  <2>1. /\ run # <<>> /\ Return /\ UNCHANGED jobs
        /\ Top.f \in {"ackResults", "awaitRollback", "readIfConfirmed", "readLater"}
    BY <1>1, TopIs DEF AckResults, AwaitRollback, ReadIfConfirmed, ReadLater,
                       Answered, persisted
  <2> QED BY <2>0, <2>1, JustReturns
<1> QED BY <1>1, GoodStartTask, GoodApplyResults, GoodApplyResult, GoodSendApply,
           GoodAwaitApply, GoodChainNext, GoodTryConfirm, GoodAwaitConfirm,
           GoodOnAgentReconnected, GoodOnPushAccepted, GoodRecordChecksReport, GoodReads
        DEF Controller

-----------------------------------------------------------------------------
(* Requests, the tick, and what goes on outside.                           *)

\* A task of a single frame starts.
LEMMA StartsWith ==
  ASSUME NEW x \in Frame, run' = <<x>>
  PROVE StackOK' /\ run' # <<>> /\ Top' = x
<1>1. Tail(run') = <<>> BY DEF StackOK
<1> QED BY <1>1, ClearNone DEF StackOK, Top, Clear

\* No task runs, and none starts.
LEMMA StaysIdle ==
  ASSUME run' = <<>>
  PROVE StackOK' /\ HoldsJob'
BY DEF StackOK, HoldsJob

LEMMA GoodAdmin ==
  ASSUME IInv, Admin
  PROVE Good
<1>1. ASSUME NEW j \in JobIds, NEW mode \in Modes, RequestApply(j, mode)
      PROVE Good
  <2>. DEFINE m == IF session = 0 THEN "agent" ELSE mode
              x == [jobs[j] EXCEPT !.state = "queued", !.mode = m, !.chainStep = 0]
  <2>1. x \in Job
    <3>1. m \in {"agent", "admin_and_agent"} BY ApplyAssumption
    <3>2. jobs[j] \in Job BY JobsAre
    <3>. HIDE DEF m
    <3> QED BY <3>1, <3>2, ZeroTyped DEF Job, JobStates
  <2>2. jobs' = [jobs EXCEPT ![j] = WithPlan(x)] BY <1>1 DEF RequestApply, CreateApply
  <2>3. WithPlan(x).state = "queued" BY <2>1 DEF WithPlan, Job
  <2>. HIDE DEF x
  <2>4. (\A k \in JobIds \ {j} : SameState(k)) /\ jobs'[j].state = "queued"
    BY <2>2, <2>3, OthersStay
  <2>5. StateStep BY <1>1, <2>4 DEF RequestApply, Fresh, StateStep, Opened
  <2>6. StackOK' /\ HoldsJob'
    <3>1. CASE run' = <<>> BY <3>1, StaysIdle
    <3>2. CASE run' = <<CallOf("sendApply", j)>>
      <4>1. StackOK' /\ Top' = CallOf("sendApply", j) BY <3>2, FrameMakes, StartsWith
      <4> QED BY <2>4, <4>1 DEF HoldsJob, CallOf
    <3> QED BY <1>1, <3>1, <3>2 DEF RequestApply
  <2> QED BY <1>1, <2>5, <2>6 DEF Good, RequestApply
<1>6. ASSUME NEW j \in JobIds, DetachedRequest(j)
      PROVE Good
  <2>. DEFINE x == [jobs[j] EXCEPT !.state = "queued", !.mode = "agent", !.chainStep = 0]
              c == CallOf("sendApply", j)
  <2>1. x \in Job
    <3>1. jobs[j] \in Job BY JobsAre
    <3> QED BY <3>1, ZeroTyped DEF Job, JobStates
  <2>2. jobs' = [jobs EXCEPT ![j] = WithPlan(x)] BY <1>6 DEF DetachedRequest, CreateApply
  <2>3. WithPlan(x).state = "queued" BY <2>1 DEF WithPlan, Job
  <2>. HIDE DEF x
  <2>4. (\A k \in JobIds \ {j} : SameState(k)) /\ jobs'[j].state = "queued"
    BY <2>2, <2>3, OthersStay
  <2>5. ~HasOpenApply /\ run # <<>> /\ count.detached \in Nat
        /\ count'.detached = count.detached + 1
    BY <1>6, ApplyAssumption DEF DetachedRequest, Idle, IInv, TypeInv, TypeOK, ClockOK
  <2>6. StateStep BY <1>6, <2>4, <2>5 DEF DetachedRequest, Fresh, StateStep, Opened
  <2>7. run \in Seq(Frame) /\ Tail(run) \in Seq(Frame) BY <2>5, TailRun
  <2>8. Top \in Frame /\ Top.f \notin {"sendApply", "awaitApply", "awaitConfirm"}
    <3>1. Top \in Frame BY <2>5, <2>7 DEF Top
    <3> QED BY <2>5, <3>1, FrameFields DEF IInv, HoldsJob, HasOpenApply, Open
  <2>9. Clear(Tail(run))
    <3>1. CASE Tail(run) # <<>> /\ Head(Tail(run)).f = "sendApply"
               /\ jobs[Head(Tail(run)).job].state = "queued"
      <4>1. Head(Tail(run)) \in Frame BY <2>7, <3>1
      <4> QED BY <2>5, <3>1, <4>1, FrameFields DEF HasOpenApply, Open
    <3> QED BY <2>5, <3>1 DEF IInv, StackOK
  <2>10. \A i \in DOMAIN run :
           run[i].f \notin {"sendApply", "awaitApply", "awaitConfirm"}
    <3>1. ASSUME NEW i \in DOMAIN run, i # 1
          PROVE i - 1 \in DOMAIN Tail(run) /\ Tail(run)[i - 1] = run[i]
      BY <2>5, <2>7, <3>1
    <3> QED BY <2>8, <2>9, <3>1 DEF Clear, Relies, Top
  <2>11. Relies' = {"sendApply", "awaitApply", "awaitConfirm"} BY <2>5 DEF Relies
  <2>12. CASE UNCHANGED run
    <3>1. \A i \in DOMAIN Tail(run) :
            Tail(run)[i].f \notin {"sendApply", "awaitApply", "awaitConfirm"}
      BY <2>9 DEF Clear, Relies
    <3>2. StackOK' BY <2>11, <2>12, <3>1 DEF StackOK, Clear
    <3>3. HoldsJob' BY <2>5, <2>8, <2>12 DEF HoldsJob, Top
    <3> QED BY <2>6, <3>2, <3>3, <2>5 DEF Good
  <2>13. CASE run' = <<c>> \o run
    <3>1. run' # <<>> /\ Head(run') = c /\ Tail(run') = run
      BY <2>7, <2>13, FrameMakes, Push1
    <3>2. StackOK' BY <2>10, <2>11, <3>1 DEF StackOK, Clear
    <3>3. HoldsJob' BY <2>4, <3>1 DEF HoldsJob, Top, CallOf
    <3> QED BY <2>6, <3>2, <3>3, <2>5 DEF Good
  <2> QED BY <1>6, <2>12, <2>13 DEF DetachedRequest
<1>2. ASSUME NEW j \in JobIds, NEW o \in BOOLEAN, AdminConfirm(j, o)
      PROVE Good
  <2>. DEFINE x == [jobs[j] EXCEPT !.adminHalf = TRUE,
                                   !.checks = IF o THEN "overridden" ELSE @]
  <2>1. jobs' = [jobs EXCEPT ![j] = x] /\ x.state = jobs[j].state
    BY <1>2, JobsAre DEF AdminConfirm, Job
  <2>. HIDE DEF x
  <2>2. StateStep BY <2>1, StatesStay
  <2>3. StackOK' /\ Top' = CallOf("tryConfirm", j)
    BY <1>2, FrameMakes, StartsWith DEF AdminConfirm
  <2> QED BY <1>2, <2>2, <2>3 DEF Good, HoldsJob, CallOf, AdminConfirm
<1>3. ASSUME NEW j \in JobIds, RevertApply(j)
      PROVE Good
  <2>1. CASE /\ jobs[j].state = "queued" /\ UNCHANGED run
             /\ jobs' = [jobs EXCEPT ![j].state = "cancelled"]
    <3>1. \A k \in JobIds \ {j} : SameState(k) BY <2>1, OthersStay
    <3>2. StackOK' /\ HoldsJob' BY <1>3, <2>1, StaysIdle DEF RevertApply, Idle
    <3> QED BY <1>3, <2>1, <3>1, <3>2 DEF Good, StateStep, Moved, Open, RevertApply
  <2>2. CASE UNCHANGED jobs /\ run' = <<CallOf("awaitRollback", j)>>
    <3>1. StackOK' /\ Top' = CallOf("awaitRollback", j) BY <2>2, FrameMakes, StartsWith
    <3> QED BY <1>3, <2>2, <3>1, UnmovedJobs
            DEF Good, HoldsJob, CallOf, RevertApply
  <2> QED BY <1>3, <2>1, <2>2 DEF RevertApply
<1>4. ASSUME Undetached, UNCHANGED <<jobs, run>>
      PROVE Good
  BY <1>4, NothingMoved, UnmovedJobs DEF Good, Undetached
<1>5. (\E s \in Sections, c \in Contents : EditSections(s, c))
      \/ (\E s \in Sections, take \in {"router", "controller"} : ResolveConflict(s, take))
      => UNCHANGED <<jobs, run>> /\ Undetached
  BY DEF EditSections, ResolveConflict, Undetached, IInv, TypeInv, TypeOK, ClockOK
<1> QED BY <1>1, <1>2, <1>3, <1>4, <1>5, <1>6 DEF Admin

LEMMA GoodTick ==
  ASSUME IInv, Tick
  PROVE Good
<1>0. UNCHANGED count
  BY DEF Tick, TickExpire, TickSend, TickConfirm, TickAssume, TickNoAnswer
<1>1. ASSUME NEW j \in JobIds, TickExpire(j) \/ TickNoAnswer(j) \/ TickAssume(j)
      PROVE Good
  <2>1. Open(j) BY <1>1 DEF TickExpire, TickNoAnswer, TickAssume, Open
  <2>2. \A k \in JobIds \ {j} : SameState(k)
    BY <1>1, JobsAre
       DEF TickExpire, TickNoAnswer, TickAssume, FailApply, Assume, SameState
  <2>3. run' = <<>> BY <1>1 DEF TickExpire, TickNoAnswer, TickAssume, Idle
  <2> QED BY <1>0, <2>1, <2>2, <2>3, StaysIdle DEF Good, StateStep, Moved
<1>2. ASSUME NEW j \in JobIds, TickSend(j)
      PROVE Good
  <2>1. StackOK' /\ Top' = CallOf("sendApply", j)
    BY <1>2, FrameMakes, StartsWith DEF TickSend
  <2>2. UNCHANGED jobs /\ jobs[j].state = "queued" BY <1>2 DEF TickSend, persisted
  <2> QED BY <1>0, <2>1, <2>2, UnmovedJobs DEF Good, HoldsJob, CallOf
<1>3. ASSUME NEW j \in JobIds, TickConfirm(j)
      PROVE Good
  <2>1. StackOK' /\ Top' = CallOf("tryConfirm", j)
    BY <1>3, FrameMakes, StartsWith DEF TickConfirm
  <2>2. UNCHANGED jobs BY <1>3 DEF TickConfirm, persisted
  <2> QED BY <1>0, <2>1, <2>2, UnmovedJobs DEF Good, HoldsJob, CallOf
<1> QED BY <1>1, <1>2, <1>3 DEF Tick

\* Neither the agent nor the environment touches the controller's jobs; a crash
\* takes the stack away.
LEMMA GoodOutside ==
  ASSUME IInv, Agent \/ Environment
  PROVE Good
<1>0. Undetached
  BY DEF Agent, AgentApply, AgentConfirm, AgentRollback, AgentRead, AgentDeadline,
         ChecksPass, ChecksFail, Environment, Drop, Dial, Reboot, Timeout, AgentPush,
         PushIngested, RouterEdit, WindowCloses, WindowEnds, Crash,
         Undetached, IInv, TypeInv, TypeOK, ClockOK
<1>1. CASE UNCHANGED <<jobs, run>>
  BY <1>0, <1>1, NothingMoved, UnmovedJobs DEF Good, Undetached
<1>2. CASE Crash
  BY <1>0, <1>2, StaysIdle, UnmovedJobs DEF Crash, Good, persisted, Undetached
<1>3. Agent => UNCHANGED <<jobs, run>>
  BY DEF Agent, AgentApply, AgentConfirm, AgentRollback, AgentRead, AgentDeadline,
         ChecksPass, ChecksFail, persisted
<1>4. Environment => UNCHANGED <<jobs, run>> \/ Crash
  BY DEF Environment, Drop, Dial, Reboot, Timeout, AgentPush, PushIngested, RouterEdit,
         WindowCloses, WindowEnds, persisted, memory
<1> QED BY <1>1, <1>2, <1>3, <1>4

-----------------------------------------------------------------------------
(* The theorems.                                                           *)

LEMMA IInit ==
  ASSUME Init
  PROVE IInv
<1>1. \A j \in JobIds : jobs[j].state = "none" BY DEF Init
<1>2. run = <<>> BY DEF Init
<1> QED BY <1>1, <1>2, TypeInit DEF IInv, OneOpen, Open, HoldsJob, StackOK

LEMMA GoodNext ==
  ASSUME IInv, [Next]_vars
  PROVE Good
<1>1. CASE UNCHANGED vars
  <2>1. UNCHANGED <<jobs, run>> /\ Undetached
    BY <1>1 DEF vars, persisted, memory, Undetached
  <2> QED BY <2>1, NothingMoved, UnmovedJobs DEF Good, Undetached
<1> QED BY <1>1, GoodController, GoodAdmin, GoodTick, GoodOutside DEF Next

LEMMA INext ==
  ASSUME IInv, [Next]_vars
  PROVE IInv'
BY GoodNext, OneOpenStep, TypeNext DEF Good, IInv

LEMMA Invariance == Spec => []IInv
<1>1. Init => IInv BY IInit
<1>2. IInv /\ [Next]_vars => IInv' BY INext
<1> QED BY <1>1, <1>2, PTL DEF Spec

\* Until a detached timer requests one, no two jobs of a gateway are ever open,
\* whatever the requests, chains, retries, late results and restarts.
THEOREM OneOpenAlways == Spec => []OneOpen
<1>1. IInv => OneOpen BY DEF IInv
<1> QED BY <1>1, Invariance, PTL

\* Until a detached timer requests a job, what the running task does next to a job
\* it does to the job as it left it.
THEOREM TaskHoldsJobAlways == Spec => []TaskHoldsJob
<1>1. IInv => TaskHoldsJob BY DEF IInv, HoldsJob, TaskHoldsJob
<1> QED BY <1>1, Invariance, PTL

\* Whatever the timers do: an apply that is sent is queued, and one whose answer is
\* awaited is as the task left it.
THEOREM ApplyHeldAlways == Spec => []HoldsJob
<1>1. IInv => HoldsJob BY DEF IInv
<1> QED BY <1>1, Invariance, PTL

\* A finished job stays what it is.
THEOREM FinishedIsFinalAlways == Spec => FinishedIsFinal
<1>1. IInv /\ [Next]_vars =>
        [\A j \in JobIds : jobs[j].state \in Finished =>
           jobs'[j].state = jobs[j].state]_jobs
  BY GoodNext, FinishedStep DEF Good
<1> QED BY <1>1, Invariance, PTL DEF Spec, FinishedIsFinal

-----------------------------------------------------------------------------
(* What the router has kept: the invariant of the verdicts.                *)

\* What stands on a stack or in a queue.
On(s) == {s[i] : i \in DOMAIN s}

\* An outcome the agent lists is what became of the job.
TrueResult(res) ==
  /\ res.outcome = "rolled_back" => fate[res.job] = "restored"
  /\ res.outcome = "confirmed" => fate[res.job] = "kept"

\* An outcome is acked once nothing waits for it.
Dealt(res) ==
  fate[res.job] = "restored" => ~Open(res.job) /\ ~jobs[res.job].assumed

FrameTrue(x) ==
  /\ x.f \in {"applyResult", "ackResults"} => TrueResult(x.res)
  /\ x.f = "ackResults" => Dealt(x.res)
  /\ x.f = "applyResults" => \A r \in x.set : TrueResult(r)
TaskTrue(x) == x.t = "result" => TrueResult(x.res)

Sent(j) == jobs[j].state \notin {"none", "queued"}
Gates(j) ==
  /\ jobs[j].agentHalf
  /\ jobs[j].mode = "admin_and_agent" => jobs[j].adminHalf
  /\ Checked => jobs[j].checks \in {"passed", "overridden"}
\* The router may be asked to keep the job, or need not be any more.
Allowed(j) ==
  /\ Sent(j) /\ jobs[j].state # "sending"
  /\ fate[j] = "restored" \/ Gates(j)

Untouched(j) ==
  /\ ~Sent(j) => fate[j] = "none"
  /\ jobs[j].state = "none" => ~jobs[j].agentHalf
KeptIfAllowed(j) == fate[j] = "kept" => Allowed(j)
HasChecks(j) ==
  Checked /\ jobs[j].state = "pending_confirm" => jobs[j].checks # "none"
VerdictOf(j) ==
  /\ jobs[j].state = "confirmed" => fate[j] \in {"kept", "noop"}
  /\ jobs[j].state = "rolled_back" /\ ~jobs[j].assumed => fate[j] = "restored"
WaitsFor(j) ==
  fate[j] = "restored" /\ (Open(j) \/ jobs[j].assumed) => \E r \in results : r.job = j
JobTrue(j) ==
  Untouched(j) /\ KeptIfAllowed(j) /\ HasChecks(j) /\ VerdictOf(j) /\ WaitsFor(j)

\* The requests on the wire.  One is not late only while it is awaited.
Asks(i, m, j) == wire[i].m = m /\ wire[i].job = j
Applies(j) == \E i \in DOMAIN wire : Asks(i, "apply", j)
AppliesOnce ==
  \A j \in JobIds : \A i \in DOMAIN wire : Asks(i, "apply", j) =>
    /\ fate[j] = "none" /\ Sent(j)
    /\ \A k \in DOMAIN wire : Asks(k, "apply", j) => k = i
ConfirmsAllowed ==
  \A j \in JobIds : \A i \in DOMAIN wire : Asks(i, "confirm", j) => Allowed(j)
Awaits(r) ==
  /\ Awaiting /\ reply = NoReply
  /\ r.m = "apply" => (Top.f = "awaitApply" /\ Top.job = r.job)
  /\ r.m = "confirm" => (Top.f = "awaitConfirm" /\ Top.job = r.job)
LastIsAwaited ==
  \A i \in DOMAIN wire : ~wire[i].late => i = Len(wire) /\ Awaits(wire[i])

AnswerTrue ==
  /\ reply # NoReply => Awaiting
  /\ reply.code = "noop" => (Top.f = "awaitApply" /\ fate[Top.job] = "noop")
  /\ reply.code = "confirmed" => (Top.f = "awaitConfirm" /\ fate[Top.job] = "kept")
  /\ reply.code = "stale_base" =>
       (Top.f = "awaitApply" /\ fate[Top.job] = "none" /\ ~Applies(Top.job))
  /\ reply.code \in {"apply_failed", "deadline_passed"} => TrueResult(reply.res)

OneLive == \A j, k \in JobIds : Live(j) /\ Live(k) => j = k
AgentHasChecks ==
  /\ hello.checks \in {"none", "pending", "passed"}
  /\ Checked /\ AnyLive => agentChecks # "none"
  /\ Checked /\ hello.apply # 0 => hello.checks # "none"

OutcomesTrue ==
  /\ \A r \in results \cup hello.results : TrueResult(r)
  /\ \A x \in On(queue) : TaskTrue(x)
  /\ \A x \in On(run) : FrameTrue(x)
JobsTrue == \A j \in JobIds : JobTrue(j)
WireOK == AppliesOnce /\ ConfirmsAllowed
TalkOK == LastIsAwaited /\ AnswerTrue
AgentOK == OneLive /\ AgentHasChecks

VInv == OutcomesTrue /\ JobsTrue /\ WireOK /\ TalkOK /\ AgentOK

\* What any step does to the jobs' fates and to what is only assumed of them.
Grows == \A j \in JobIds : fate[j] \notin {"none", "live"} => fate'[j] = fate[j]
AssumesOpen == \A j \in JobIds : jobs'[j].assumed => jobs[j].assumed \/ Open(j)
Before == IInv /\ IInv' /\ VInv /\ StateStep

LEMMA OnTail ==
  ASSUME NEW T, NEW s \in Seq(T), s # <<>>
  PROVE On(Tail(s)) \subseteq On(s) /\ Head(s) \in On(s) /\ On(s) \subseteq T
<1>1. \A i \in DOMAIN Tail(s) : i + 1 \in DOMAIN s /\ Tail(s)[i] = s[i + 1] OBVIOUS
<1>2. Head(s) = s[1] /\ 1 \in DOMAIN s OBVIOUS
<1>3. \A i \in DOMAIN s : s[i] \in T OBVIOUS
<1> QED BY <1>1, <1>2, <1>3 DEF On

LEMMA AppendedAt ==
  ASSUME NEW T, NEW s \in Seq(T), NEW x \in T
  PROVE \A i \in DOMAIN Append(s, x) :
          Append(s, x)[i] = x \/ (i \in DOMAIN s /\ Append(s, x)[i] = s[i])
OBVIOUS

LEMMA OnPush ==
  ASSUME NEW T, NEW s \in Seq(T), NEW x \in T, NEW y \in T
  PROVE /\ On(<<x>> \o s) \subseteq {x} \cup On(s)
        /\ On(<<x, y>> \o s) \subseteq {x, y} \cup On(s)
        /\ On(Append(s, x)) \subseteq {x} \cup On(s)
        /\ On(<<>>) = {} /\ On(<<x>>) = {x}
<1>1. On(<<x>> \o s) \subseteq {x} \cup On(s)
  <2>1. \A i \in DOMAIN (<<x>> \o s) :
          (<<x>> \o s)[i] = x \/ (i - 1 \in DOMAIN s /\ (<<x>> \o s)[i] = s[i - 1])
    OBVIOUS
  <2> QED BY <2>1 DEF On
<1>2. On(<<x, y>> \o s) \subseteq {x, y} \cup On(s)
  <2>1. \A i \in DOMAIN (<<x, y>> \o s) :
          (<<x, y>> \o s)[i] \in {x, y}
          \/ (i - 2 \in DOMAIN s /\ (<<x, y>> \o s)[i] = s[i - 2])
    OBVIOUS
  <2> QED BY <2>1 DEF On
<1>3. On(Append(s, x)) \subseteq {x} \cup On(s)
  BY AppendedAt DEF On
<1>4. On(<<>>) = {} /\ On(<<x>>) = {x} BY DEF On
<1> QED BY <1>1, <1>2, <1>3, <1>4

\* What a task queued adds to the queue.
LEMMA OnEnqueued ==
  ASSUME NEW q \in Seq(Task), NEW task \in Task
  PROVE On(Enqueued(q, task)) \subseteq {task} \cup On(q)
BY OnPush DEF Enqueued

-----------------------------------------------------------------------------
(* What stays true.                                                        *)

LEMMA ResultStays ==
  ASSUME Grows
  PROVE \A r \in Result : TrueResult(r) => TrueResult(r)'
BY DEF Grows, TrueResult, Result

\* A job that is neither open nor new stays so, and nothing assumes it again.
LEMMA DealtStays ==
  ASSUME Before, Grows, AssumesOpen
  PROVE \A r \in Result : TrueResult(r) /\ Dealt(r) => Dealt(r)'
<1> SUFFICES ASSUME NEW r \in Result, TrueResult(r), Dealt(r), fate'[r.job] = "restored"
             PROVE ~Open(r.job)' /\ ~jobs'[r.job].assumed
  BY DEF Dealt
<1>1. r.job \in JobIds /\ r.outcome \in {"rolled_back", "confirmed"} BY DEF Result
<1>2. fate[r.job] = "restored" BY <1>1 DEF TrueResult, Grows
<1>3. ~Open(r.job) /\ ~jobs[r.job].assumed /\ jobs[r.job].state # "none"
  BY <1>1, <1>2 DEF Dealt, Before, VInv, JobsTrue, JobTrue, Untouched, Sent
<1>4. jobs'[r.job].state = jobs[r.job].state
  BY <1>1, <1>3 DEF Before, StateStep, Kept, Moved, Opened, SameState
<1> QED BY <1>1, <1>3, <1>4 DEF AssumesOpen, Open

LEMMA FrameStays ==
  ASSUME Before, Grows, AssumesOpen
  PROVE \A x \in Frame : FrameTrue(x) => FrameTrue(x)'
<1> SUFFICES ASSUME NEW x \in Frame, FrameTrue(x) PROVE FrameTrue(x)'
  OBVIOUS
<1>1. ASSUME x.f \in {"applyResult", "ackResults"}
      PROVE TrueResult(x.res)' /\ (x.f = "ackResults" => Dealt(x.res)')
  <2>1. x.res \in Result BY <1>1, FrameFields
  <2> QED BY <1>1, <2>1, ResultStays, DealtStays DEF FrameTrue
<1>2. ASSUME x.f = "applyResults" PROVE \A r \in x.set : TrueResult(r)'
  <2>1. x.set \in SUBSET Result BY <1>2, FrameFields
  <2> QED BY <1>2, <2>1, ResultStays DEF FrameTrue
<1> QED BY <1>1, <1>2 DEF FrameTrue

LEMMA TaskStays ==
  ASSUME Grows
  PROVE \A x \in Task : TaskTrue(x) => TaskTrue(x)'
BY ResultStays, TaskFields DEF TaskTrue

-----------------------------------------------------------------------------
(* What a step may leave alone.                                            *)

LEMMA Typed ==
  ASSUME Before
  PROVE /\ run \in Seq(Frame) /\ run' \in Seq(Frame)
        /\ queue \in Seq(Task) /\ queue' \in Seq(Task)
        /\ wire \in Seq(Request) /\ wire' \in Seq(Request)
        /\ reply \in Reply /\ reply' \in Reply
        /\ jobs \in [JobIds -> Job] /\ jobs' \in [JobIds -> Job]
        /\ fate \in [JobIds -> {"none", "live", "kept", "noop", "restored"}]
        /\ results \in SUBSET Result /\ results' \in SUBSET Result
        /\ hello \in Hello /\ hello' \in Hello /\ hello.results \in SUBSET Result
BY DEF Before, IInv, TypeInv, TypeOK, PersistedOK, MemoryOK, LinkOK, RouterOK, Hello

LEMMA VParts ==
  ASSUME OutcomesTrue', JobsTrue', WireOK', TalkOK', AgentOK'
  PROVE VInv'
BY DEF VInv

\* Only what is new on the stack, in the queue and in the lists is in question.
LEMMA OutcomesStay ==
  ASSUME Before, Grows, AssumesOpen,
         \A r \in (results \cup hello.results)' \ (results \cup hello.results) : TrueResult(r)',
         \A x \in On(queue)' \ On(queue) : TaskTrue(x)',
         \A x \in On(run)' \ On(run) : FrameTrue(x)'
  PROVE OutcomesTrue'
<1>1. \A r \in (results \cup hello.results)' : TrueResult(r)'
  BY Typed, ResultStays DEF Before, VInv, OutcomesTrue
<1>2. \A x \in On(queue)' : TaskTrue(x)'
  <2>1. On(queue) \subseteq Task BY Typed DEF On
  <2> QED BY <2>1, TaskStays DEF Before, VInv, OutcomesTrue
<1>3. \A x \in On(run)' : FrameTrue(x)'
  <2>1. On(run) \subseteq Frame BY Typed DEF On
  <2> QED BY <2>1, FrameStays DEF Before, VInv, OutcomesTrue
<1> QED BY <1>1, <1>2, <1>3 DEF OutcomesTrue

\* What a frame that is running puts in its place.
LEMMA NewFrame ==
  ASSUME Before, run # <<>>, NEW x \in Frame, Call(<<x>>)
  PROVE On(run)' \ On(run) \subseteq {x}
<1>1. Tail(run) \in Seq(Frame) /\ On(Tail(run)) \subseteq On(run)
  BY Typed, OnTail
<1> QED BY <1>1, OnPush DEF Call

LEMMA NewFrames ==
  ASSUME Before, run # <<>>, NEW x \in Frame, NEW y \in Frame, Call(<<x, y>>)
  PROVE On(run)' \ On(run) \subseteq {x, y}
<1>1. Tail(run) \in Seq(Frame) /\ On(Tail(run)) \subseteq On(run)
  BY Typed, OnTail
<1> QED BY <1>1, OnPush DEF Call

LEMMA NoNewFrame ==
  ASSUME Before, run # <<>>, Return
  PROVE On(run)' \subseteq On(run)
BY Typed, OnTail DEF Return

\* A frame that holds no outcome.
NoOutcome(x) == x.f \notin {"applyResult", "ackResults", "applyResults"}
LEMMA PlainFrame ==
  ASSUME NEW x, NoOutcome(x)
  PROVE FrameTrue(x)'
BY DEF FrameTrue, NoOutcome

\* The running task's step is one that awaits nothing, or has its answer.
Steps == (~Awaiting \/ reply # NoReply) /\ reply' = NoReply
LEMMA AllLate ==
  ASSUME Before, Steps
  PROVE \A i \in DOMAIN wire : wire[i].late
BY Typed, RequestFields DEF Before, VInv, TalkOK, LastIsAwaited, Awaits, Steps

LEMMA TalkEnds ==
  ASSUME Before, Steps, UNCHANGED wire
  PROVE TalkOK'
<1>1. LastIsAwaited' BY AllLate DEF LastIsAwaited
<1>2. AnswerTrue' BY DEF AnswerTrue, Steps, NoReply
<1> QED BY <1>1, <1>2 DEF TalkOK

LEMMA AgentStays ==
  ASSUME Before, UNCHANGED <<fate, agentChecks, hello>>
  PROVE AgentOK'
BY DEF Before, VInv, AgentOK, OneLive, AgentHasChecks, AnyLive, Live

\* What becomes of the wire if no step takes back what a request asks for.
Keeps(j) ==
  /\ Allowed(j) => Allowed(j)'
  /\ Sent(j) => Sent(j)' \/ ~Applies(j)
LEMMA WireStays ==
  ASSUME Before, UNCHANGED wire, UNCHANGED fate, \A j \in JobIds : Keeps(j)
  PROVE WireOK'
<1>1. AppliesOnce' BY DEF Before, VInv, WireOK, AppliesOnce, Asks, Keeps, Applies
<1>2. ConfirmsAllowed' BY DEF Before, VInv, WireOK, ConfirmsAllowed, Asks, Keeps
<1> QED BY <1>1, <1>2 DEF WireOK

\* A job no step touches, in itself or on the router.
LEMMA JobStays ==
  ASSUME Before, NEW j \in JobIds, jobs'[j] = jobs[j], fate'[j] = fate[j],
         results \subseteq results'
  PROVE JobTrue(j)' /\ Keeps(j)
BY DEF Before, VInv, JobsTrue, JobTrue, Untouched, KeptIfAllowed, HasChecks, VerdictOf,
       WaitsFor, Keeps, Allowed, Sent, Gates, Open

LEMMA SameJobs ==
  ASSUME Before, UNCHANGED <<jobs, fate, results>>
  PROVE JobsTrue' /\ (\A j \in JobIds : Keeps(j)) /\ Grows /\ AssumesOpen
BY JobStays DEF JobsTrue, Grows, AssumesOpen

\* One job changes, none on the router.
LEMMA OneJob ==
  ASSUME Before, NEW j \in JobIds, NEW x, jobs' = [jobs EXCEPT ![j] = x],
         UNCHANGED <<fate, results>>, JobTrue(j)', Keeps(j),
         x.assumed => jobs[j].assumed \/ Open(j)
  PROVE JobsTrue' /\ (\A k \in JobIds : Keeps(k)) /\ Grows /\ AssumesOpen
<1>1. jobs'[j] = x /\ \A k \in JobIds \ {j} : jobs'[k] = jobs[k] BY Typed
<1>2. \A k \in JobIds \ {j} : JobTrue(k)' /\ Keeps(k) BY <1>1, JobStays
<1> QED BY <1>1, <1>2 DEF JobsTrue, Grows, AssumesOpen

\* A step of the controller that asks the router for nothing.
LEMMA TaskKeeps ==
  ASSUME Before, Steps, Grows, AssumesOpen, JobsTrue', \A j \in JobIds : Keeps(j),
         UNCHANGED <<wire, fate, agentChecks, hello, results>>,
         \A x \in On(queue)' \ On(queue) : TaskTrue(x)',
         \A x \in On(run)' \ On(run) : FrameTrue(x)'
  PROVE VInv'
BY OutcomesStay, WireStays, TalkEnds, AgentStays, VParts

\* ... and leaves the jobs alone.
LEMMA TaskKeepsJobs ==
  ASSUME Before, Steps, UNCHANGED <<jobs, wire, fate, agentChecks, hello, results>>,
         \A x \in On(queue)' \ On(queue) : TaskTrue(x)',
         \A x \in On(run)' \ On(run) : FrameTrue(x)'
  PROVE VInv' /\ Grows /\ AssumesOpen
BY SameJobs, TaskKeeps

-----------------------------------------------------------------------------
(* The results an agent reports.                                           *)

\* No step between two answers finds an answer.
LEMMA NoAnswerYet ==
  ASSUME Before, ~Awaiting
  PROVE reply = NoReply
BY DEF Before, VInv, TalkOK, AnswerTrue

LEMMA FrameSteps ==
  ASSUME Before, NEW fn, Running(fn)
  PROVE /\ run # <<>> /\ Top \in Frame /\ Top.f = fn /\ FrameTrue(Top)
        /\ Top \in On(run)
        /\ fn \notin {"awaitApply", "awaitConfirm", "awaitRollback", "awaitRead"}
             /\ UNCHANGED reply => Steps
        /\ Answered(fn) => Steps
<1>1. run # <<>> /\ Top \in Frame /\ Top.f = fn BY TopIs DEF Before
<1>2. Top \in On(run) BY <1>1, Typed, OnTail DEF Top
<1>3. FrameTrue(Top) BY <1>2 DEF Before, VInv, OutcomesTrue
<1>4. ASSUME fn \notin {"awaitApply", "awaitConfirm", "awaitRollback", "awaitRead"},
             UNCHANGED reply
      PROVE Steps
  <2>1. ~Awaiting BY <1>1, <1>4 DEF Awaiting, Top
  <2> QED BY <1>4, <2>1, NoAnswerYet DEF Steps
<1>5. Answered(fn) => Steps BY DEF Answered, Steps, NoReply
<1> QED BY <1>1, <1>2, <1>3, <1>4, <1>5

\* A frame returns, or calls one that holds no outcome, and the jobs stay.
LEMMA PlainStep ==
  ASSUME Before, run # <<>>, Steps,
         UNCHANGED <<jobs, wire, fate, agentChecks, hello, results>>,
         UNCHANGED queue,
         \/ Return
         \/ \E x \in Frame : NoOutcome(x) /\ Call(<<x>>)
         \/ \E x, y \in Frame : NoOutcome(x) /\ NoOutcome(y) /\ Call(<<x, y>>)
  PROVE VInv' /\ Grows /\ AssumesOpen
<1>1. \A x \in On(run)' \ On(run) : NoOutcome(x)
  BY NoNewFrame, NewFrame, NewFrames
<1>2. \A x \in On(run)' \ On(run) : FrameTrue(x)' BY <1>1, PlainFrame
<1>3. On(queue)' = On(queue) BY DEF On
<1> QED BY <1>2, <1>3, TaskKeepsJobs

LEMMA TrueHandler ==
  ASSUME Before, NEW task \in Task, TaskTrue(task)
  PROVE \A x \in On(Handler(task)) : FrameTrue(x)
<1>1. CASE task.t = "hello"
  <2>1. \A r \in hello.results : TrueResult(r) BY DEF Before, VInv, OutcomesTrue
  <2> QED BY <1>1, <2>1 DEF Handler, On, FrameTrue
<1>2. CASE task.t = "result"
  <2>1. TrueResult(task.res) BY <1>2 DEF TaskTrue
  <2> QED BY <1>2, <2>1 DEF Handler, On, FrameTrue, Settle
<1>3. CASE task.t = "push" BY <1>3 DEF Handler, On, FrameTrue
<1>4. CASE task.t = "checks" BY <1>4 DEF Handler, On, FrameTrue
<1>5. CASE task.t = "read" BY <1>5 DEF Handler, On, FrameTrue, Read
<1> QED BY <1>1, <1>2, <1>3, <1>4, <1>5, TaskFields

LEMMA VStartTask ==
  ASSUME Before, StartTask
  PROVE VInv' /\ Grows /\ AssumesOpen
<1>1. UNCHANGED <<jobs, wire, fate, agentChecks, hello, results, reply>>
  BY DEF StartTask, persisted, link, router
<1>2. Steps BY <1>1, NoAnswerYet DEF StartTask, Idle, Awaiting, Steps
<1>3. /\ Head(queue) \in Task /\ TaskTrue(Head(queue))
      /\ On(queue)' \subseteq On(queue)
  <2>1. On(Tail(queue)) \subseteq On(queue) /\ Head(queue) \in On(queue)
        /\ On(queue) \subseteq Task
    BY Typed, OnTail DEF StartTask
  <2> QED BY <2>1 DEF StartTask, Before, VInv, OutcomesTrue
<1>4. \A x \in On(run)' : FrameTrue(x)
  BY <1>3, TrueHandler DEF StartTask
<1>5. \A x \in On(run)' : FrameTrue(x)'
  <2>1. On(run)' \subseteq Frame BY Typed DEF On
  <2>2. Grows /\ AssumesOpen BY <1>1, SameJobs
  <2> QED BY <1>4, <2>1, <2>2, FrameStays
<1> QED BY <1>1, <1>2, <1>3, <1>5, TaskKeepsJobs

LEMMA VApplyResults ==
  ASSUME Before, ApplyResults
  PROVE VInv' /\ Grows /\ AssumesOpen
<1>1. UNCHANGED <<jobs, wire, fate, agentChecks, hello, results, reply, queue>>
  BY DEF ApplyResults, persisted, link, router
<1>2. run # <<>> /\ Top \in Frame /\ Top.f = "applyResults" /\ FrameTrue(Top) /\ Steps
  BY <1>1, FrameSteps DEF ApplyResults
<1>3. CASE Return BY <1>1, <1>2, <1>3, PlainStep
<1>4. ASSUME NEW r \in Top.set,
             Call(<<Settle(r), [f |-> "applyResults", set |-> Top.set \ {r}]>>)
      PROVE VInv' /\ Grows /\ AssumesOpen
  <2>1. PICK x \in Frame, y \in Frame :
          /\ x = Settle(r) /\ y = [f |-> "applyResults", set |-> Top.set \ {r}]
    BY <1>2, FrameFields, FrameMakes
  <2>2. FrameTrue(x) /\ FrameTrue(y) BY <1>2, <2>1 DEF FrameTrue, Settle
  <2>3. On(run)' \ On(run) \subseteq {x, y}
    <3>1. Call(<<x, y>>) BY <1>4, <2>1 DEF Call
    <3> QED BY <1>2, <3>1, NewFrames
  <2>4. \A z \in On(run)' \ On(run) : FrameTrue(z)' BY <1>1, <2>2, <2>3, SameJobs, FrameStays
  <2>5. On(queue)' = On(queue) BY <1>1 DEF On
  <2> QED BY <1>1, <1>2, <2>4, <2>5, TaskKeepsJobs
<1> QED BY <1>3, <1>4 DEF ApplyResults

\* A job confirmed by the router is, and nothing else changes.
LEMMA ConfirmedJob ==
  ASSUME Before, NEW j \in JobIds, Open(j), fate[j] \in {"kept", "noop"}, NEW h,
         FinishConfirmed(j, h), UNCHANGED <<fate, results>>
  PROVE JobsTrue' /\ (\A k \in JobIds : Keeps(k)) /\ Grows /\ AssumesOpen
<1>. DEFINE x == [jobs[j] EXCEPT !.state = "confirmed"]
<1>1. jobs' = [jobs EXCEPT ![j] = x] BY DEF FinishConfirmed
<1>2. jobs[j] \in Job BY Typed
<1>3. /\ x.state = "confirmed" /\ x.assumed = jobs[j].assumed
      /\ x.agentHalf = jobs[j].agentHalf /\ x.adminHalf = jobs[j].adminHalf
      /\ x.mode = jobs[j].mode /\ x.checks = jobs[j].checks
  BY <1>2 DEF Job
<1>4. jobs'[j] = x BY <1>1, Typed
<1>. HIDE DEF x
<1>5. JobTrue(j) BY DEF Before, VInv, JobsTrue
<1>6. Keeps(j) BY <1>3, <1>4 DEF Keeps, Allowed, Sent, Gates
<1>7. JobTrue(j)'
  BY <1>3, <1>4, <1>5 DEF JobTrue, Untouched, KeptIfAllowed, HasChecks, VerdictOf,
     WaitsFor, Allowed, Sent, Gates, Open
<1> QED BY <1>1, <1>3, <1>6, <1>7, OneJob

\* A job the router restored is settled: nothing waits for its outcome.
LEMMA RestoredJob ==
  ASSUME Before, NEW res \in Result, fate[res.job] = "restored",
         SettleRolledBack(res.job, res), UNCHANGED <<fate, results>>
  PROVE /\ JobsTrue' /\ (\A k \in JobIds : Keeps(k)) /\ Grows /\ AssumesOpen
        /\ ~Open(res.job)' /\ ~jobs'[res.job].assumed
<1>. DEFINE j == res.job
            x == [jobs[j] EXCEPT !.state = IF Open(j) THEN "rolled_back" ELSE @,
                                 !.assumed = FALSE,
                                 !.checks = IF res.checksFailed /\ @ # "overridden"
                                            THEN "failed" ELSE @]
<1>0. j \in JobIds BY DEF Result
<1>1. jobs' = [jobs EXCEPT ![j] = x] BY <1>0, Typed DEF SettleRolledBack, Job
<1>2. jobs[j] \in Job BY <1>0, Typed
<1>3. /\ x.state = IF Open(j) THEN "rolled_back" ELSE jobs[j].state
      /\ x.assumed = FALSE /\ x.agentHalf = jobs[j].agentHalf
      /\ x.mode = jobs[j].mode
  BY <1>2 DEF Job
<1>4. jobs'[j] = x BY <1>0, <1>1, Typed
<1>. HIDE DEF x
<1>5. JobTrue(j) BY <1>0 DEF Before, VInv, JobsTrue
<1>6. Keeps(j)
  BY <1>3, <1>4, <1>5 DEF Keeps, Allowed, Sent, Open
<1>7. JobTrue(j)'
  BY <1>3, <1>4, <1>5 DEF JobTrue, Untouched, KeptIfAllowed, HasChecks, VerdictOf,
     WaitsFor, Allowed, Sent, Open
<1>8. ~Open(j)' /\ ~jobs'[j].assumed BY <1>3, <1>4 DEF Open
<1> QED BY <1>0, <1>1, <1>3, <1>6, <1>7, <1>8, OneJob

LEMMA VApplyResult ==
  ASSUME Before, ApplyResult
  PROVE VInv' /\ Grows /\ AssumesOpen
<1>1. UNCHANGED <<wire, fate, agentChecks, hello, results, reply, queue>>
      /\ On(queue)' = On(queue)
  BY DEF ApplyResult, link, router, On
<1>2. run # <<>> /\ Top \in Frame /\ Top.f = "applyResult" /\ FrameTrue(Top) /\ Steps
  BY <1>1, FrameSteps DEF ApplyResult
<1>3. PICK res \in Result : res = Top.res /\ TrueResult(res)
  BY <1>2, FrameFields DEF FrameTrue
<1>4. res.job \in JobIds /\ res.outcome \in {"rolled_back", "confirmed"} BY DEF Result
<1>. DEFINE ack == [f |-> "ackResults", res |-> res]
            next == CallOf("chainNext", res.job)
<1>5. /\ ack \in Frame /\ ack.f = "ackResults" /\ ack.res = res
      /\ next \in Frame /\ next.f = "chainNext"
  BY <1>4, FrameMakes DEF CallOf
<1>. HIDE DEF ack, next
<1>6. ASSUME JobsTrue', \A k \in JobIds : Keeps(k), Grows, AssumesOpen, Dealt(res)',
             Call(<<ack>>) \/ Call(<<next, ack>>)
      PROVE VInv' /\ Grows /\ AssumesOpen
  <2>1. TrueResult(res)' BY <1>3, <1>6, ResultStays
  <2>2. FrameTrue(ack)' /\ FrameTrue(next)' BY <1>5, <1>6, <2>1 DEF FrameTrue
  <2>3. On(run)' \ On(run) \subseteq {ack, next}
    BY <1>2, <1>5, <1>6, NewFrame, NewFrames
  <2>4. \A x \in On(run)' \ On(run) : FrameTrue(x)' BY <2>2, <2>3
  <2> QED BY <1>1, <1>2, <1>6, <2>4, TaskKeeps
<1>7. CASE /\ Open(res.job) /\ res.outcome = "confirmed"
           /\ FinishConfirmed(res.job, res.hash) /\ Call(<<next, ack>>)
  <2>1. fate[res.job] = "kept" /\ fate'[res.job] = "kept"
    BY <1>1, <1>3, <1>7 DEF TrueResult
  <2>2. Dealt(res)' BY <2>1 DEF Dealt
  <2> QED BY <1>1, <1>4, <1>6, <1>7, <2>1, <2>2, ConfirmedJob
<1>8. CASE Restores(res) /\ SettleRolledBack(res.job, res) /\ Call(<<ack>>)
  <2>1. fate[res.job] = "restored" BY <1>3, <1>8 DEF TrueResult, Restores
  <2>2. /\ JobsTrue' /\ (\A k \in JobIds : Keeps(k)) /\ Grows /\ AssumesOpen
        /\ ~Open(res.job)' /\ ~jobs'[res.job].assumed
    BY <1>1, <1>8, <2>1, RestoredJob
  <2>3. Dealt(res)' BY <2>2 DEF Dealt
  <2> QED BY <1>6, <1>8, <2>2, <2>3
<1>9. CASE /\ ~(res.outcome = "confirmed" /\ Open(res.job)) /\ ~Restores(res)
           /\ Call(<<ack>>) /\ UNCHANGED jobs
  <2>1. JobsTrue' /\ (\A k \in JobIds : Keeps(k)) /\ Grows /\ AssumesOpen
    BY <1>1, <1>9, SameJobs
  <2>2. fate'[res.job] = "restored" => ~Open(res.job) /\ ~jobs[res.job].assumed
    BY <1>1, <1>3, <1>4, <1>9 DEF TrueResult, Restores
  <2>3. Dealt(res)' BY <1>9, <2>2 DEF Dealt, Open
  <2> QED BY <1>6, <1>9, <2>1, <2>3
<1> QED BY <1>3, <1>7, <1>8, <1>9 DEF ApplyResult, persisted, ack, next

-----------------------------------------------------------------------------
(* Requests.                                                               *)

\* A request is put on the wire, and the task awaits its answer.
LEMMA Asked ==
  ASSUME Before, Steps, UNCHANGED fate, \A j \in JobIds : Keeps(j),
         NEW r \in Request, ~r.late, Ask(r), Awaits(r)',
         r.m = "apply" => fate[r.job] = "none" /\ Sent(r.job)' /\ ~Applies(r.job),
         r.m = "confirm" => Allowed(r.job)'
  PROVE WireOK' /\ TalkOK'
<1>1. \A i \in DOMAIN wire' :
        \/ i = Len(wire) + 1 /\ wire'[i] = r
        \/ i \in DOMAIN wire /\ wire'[i] = wire[i]
  BY Typed DEF Ask
<1>2. Len(wire') = Len(wire) + 1 /\ \A i \in DOMAIN wire : wire[i].late
  BY Typed, AllLate DEF Ask
<1>3. AppliesOnce'
  <2> SUFFICES ASSUME NEW j \in JobIds, NEW i \in DOMAIN wire', Asks(i, "apply", j)'
               PROVE /\ fate'[j] = "none" /\ Sent(j)'
                     /\ \A k \in DOMAIN wire' : Asks(k, "apply", j)' => k = i
    BY DEF AppliesOnce
  <2>1. CASE wire'[i] = r /\ i = Len(wire) + 1
    <3>1. r.m = "apply" /\ r.job = j BY <2>1 DEF Asks
    <3>2. \A k \in DOMAIN wire : ~Asks(k, "apply", j) BY <3>1 DEF Applies
    <3> QED BY <1>1, <2>1, <3>1, <3>2 DEF Asks
  <2>2. CASE i \in DOMAIN wire /\ wire'[i] = wire[i]
    <3>1. Asks(i, "apply", j) /\ Applies(j) BY <2>2 DEF Asks, Applies
    <3>2. /\ fate[j] = "none" /\ Sent(j)
          /\ \A k \in DOMAIN wire : Asks(k, "apply", j) => k = i
      BY <2>2, <3>1 DEF Before, VInv, WireOK, AppliesOnce
    <3>3. ~(r.m = "apply" /\ r.job = j) BY <3>1
    <3> QED BY <1>1, <3>1, <3>2, <3>3 DEF Asks, Keeps
  <2> QED BY <1>1, <2>1, <2>2
<1>4. ConfirmsAllowed'
  <2> SUFFICES ASSUME NEW j \in JobIds, NEW i \in DOMAIN wire', Asks(i, "confirm", j)'
               PROVE Allowed(j)'
    BY DEF ConfirmsAllowed
  <2>1. CASE wire'[i] = r
    <3>1. r.m = "confirm" /\ r.job = j BY <2>1 DEF Asks
    <3> QED BY <3>1
  <2>2. CASE i \in DOMAIN wire /\ wire'[i] = wire[i]
    <3>1. Asks(i, "confirm", j) BY <2>2 DEF Asks
    <3> QED BY <2>2, <3>1 DEF Before, VInv, WireOK, ConfirmsAllowed, Keeps
  <2> QED BY <1>1, <2>1, <2>2
<1>5. LastIsAwaited' BY <1>1, <1>2 DEF LastIsAwaited
<1>6. AnswerTrue' BY DEF AnswerTrue, Steps, NoReply
<1> QED BY <1>3, <1>4, <1>5, <1>6 DEF WireOK, TalkOK

LEMMA AskKeeps ==
  ASSUME Before, Steps, Grows, AssumesOpen, JobsTrue', \A j \in JobIds : Keeps(j),
         UNCHANGED <<fate, agentChecks, hello, results>>,
         \A x \in On(queue)' \ On(queue) : TaskTrue(x)',
         \A x \in On(run)' \ On(run) : FrameTrue(x)',
         WireOK', TalkOK'
  PROVE VInv'
BY OutcomesStay, AgentStays, VParts

LEMMA AwaitFrame ==
  ASSUME NEW fn \in {"awaitApply", "awaitConfirm", "awaitRollback"}, NEW j \in JobIds
  PROVE CallOf(fn, j) \in Frame /\ NoOutcome(CallOf(fn, j))
        /\ CallOf(fn, j).f = fn /\ CallOf(fn, j).job = j
BY FrameMakes DEF CallOf, NoOutcome

LEMMA VAckResults ==
  ASSUME Before, AckResults
  PROVE VInv' /\ Grows /\ AssumesOpen
<1>1. UNCHANGED <<jobs, wire, fate, agentChecks, hello, reply, queue>>
  BY DEF AckResults, persisted, link
<1>2. run # <<>> /\ Top \in Frame /\ Top.f = "ackResults" /\ FrameTrue(Top) /\ Steps
  BY <1>1, FrameSteps DEF AckResults
<1>3. PICK res \in Result : res = Top.res /\ Dealt(res)
  BY <1>2, FrameFields DEF FrameTrue
<1>4. results' = {r \in results : r.job # res.job} \/ results' = results
  BY <1>3 DEF AckResults
<1>5. Grows /\ AssumesOpen BY <1>1 DEF Grows, AssumesOpen
<1>6. \A j \in JobIds : JobTrue(j)'
  <2> SUFFICES ASSUME NEW j \in JobIds PROVE JobTrue(j)'
    OBVIOUS
  <2>1. JobTrue(j) BY DEF Before, VInv, JobsTrue
  <2>2. WaitsFor(j)' BY <1>1, <1>3, <1>4, <2>1 DEF JobTrue, WaitsFor, Dealt, Open
  <2> QED BY <1>1, <2>1, <2>2
          DEF JobTrue, Untouched, KeptIfAllowed, HasChecks, VerdictOf, Allowed, Sent, Gates
<1>7. \A j \in JobIds : Keeps(j) BY <1>1 DEF Keeps, Allowed, Sent, Gates
<1>8. On(run)' \subseteq On(run) /\ On(queue)' = On(queue)
  BY <1>1, <1>2, NoNewFrame DEF AckResults, On
<1>9. OutcomesTrue' BY <1>1, <1>4, <1>5, <1>8, OutcomesStay
<1>10. WireOK' /\ TalkOK' /\ AgentOK'
  BY <1>1, <1>2, <1>7, WireStays, TalkEnds, AgentStays
<1> QED BY <1>5, <1>6, <1>9, <1>10, VParts DEF JobsTrue

LEMMA VSendApply ==
  ASSUME Before, SendApply
  PROVE VInv' /\ Grows /\ AssumesOpen
<1>1. UNCHANGED <<fate, agentChecks, hello, results, reply, queue>>
      /\ On(queue)' = On(queue)
  BY DEF SendApply, router, On
<1>2. run # <<>> /\ Top \in Frame /\ Top.f = "sendApply" /\ Steps
  BY <1>1, FrameSteps DEF SendApply
<1>3. PICK j \in JobIds : j = Top.job BY <1>2, FrameFields
<1>4. jobs[j].state = "queued" /\ jobs[j] \in Job
  BY <1>2, <1>3, Typed DEF Before, IInv, HoldsJob
<1>5. JobTrue(j) /\ fate[j] = "none" /\ ~Applies(j) /\ ~Allowed(j)
  BY <1>4 DEF Before, VInv, JobsTrue, JobTrue, Untouched, Sent, WireOK, AppliesOnce,
              Applies, Allowed
<1>6. CASE Return /\ UNCHANGED <<jobs, wire>> BY <1>1, <1>2, <1>6, PlainStep
<1>7. CASE /\ jobs' = [jobs EXCEPT ![j].state = IF Blocked THEN "failed" ELSE "cancelled"]
           /\ Return /\ UNCHANGED wire
  <2>. DEFINE x == [jobs[j] EXCEPT !.state = IF Blocked THEN "failed" ELSE "cancelled"]
  <2>1. jobs' = [jobs EXCEPT ![j] = x] /\ jobs'[j] = x BY <1>7, Typed
  <2>2. x.state \in {"failed", "cancelled"} /\ x.assumed = jobs[j].assumed
    BY <1>4 DEF Job
  <2>. HIDE DEF x
  <2>3. Keeps(j) BY <1>5, <2>1, <2>2 DEF Keeps
  <2>4. JobTrue(j)'
    BY <1>1, <1>5, <2>1, <2>2
       DEF JobTrue, Untouched, KeptIfAllowed, HasChecks, VerdictOf, WaitsFor
  <2>5. JobsTrue' /\ (\A k \in JobIds : Keeps(k)) /\ Grows /\ AssumesOpen
    BY <1>1, <2>1, <2>2, <2>3, <2>4, OneJob
  <2>6. \A y \in On(run)' \ On(run) : FrameTrue(y)' BY <1>2, <1>7, NoNewFrame
  <2> QED BY <1>1, <1>2, <1>7, <2>5, <2>6, TaskKeeps
<1>8. CASE /\ jobs' = [jobs EXCEPT ![j] = [WithPlan(@) EXCEPT !.state = "sending",
                                                              !.sentIn = session]]
           /\ Ask([m |-> "apply", job |-> j, override |-> FALSE, late |-> FALSE])
           /\ Call(<<CallOf("awaitApply", j)>>)
  <2>. DEFINE x == [WithPlan(jobs[j]) EXCEPT !.state = "sending", !.sentIn = session]
              r == [m |-> "apply", job |-> j, override |-> FALSE, late |-> FALSE]
              y == CallOf("awaitApply", j)
  <2>1. jobs' = [jobs EXCEPT ![j] = x] /\ jobs'[j] = x BY <1>8, Typed
  <2>2. x.state = "sending" /\ x.assumed = jobs[j].assumed
    BY <1>4 DEF Job, WithPlan
  <2>3. r \in Request /\ ~r.late /\ r.m = "apply" /\ r.job = j BY RequestMakes
  <2>4. y \in Frame /\ NoOutcome(y) /\ y.f = "awaitApply" /\ y.job = j BY AwaitFrame
  <2>5. run' # <<>> /\ Top' = y
    BY <1>2, <1>8, <2>4, CallTop DEF Before
  <2>6. Ask(r) /\ Call(<<y>>) BY <1>8
  <2>. HIDE DEF x, r, y
  <2>7. Keeps(j) BY <1>5, <2>1, <2>2 DEF Keeps
  <2>8. JobTrue(j)' /\ Sent(j)'
    BY <1>1, <1>5, <2>1, <2>2
       DEF JobTrue, Untouched, KeptIfAllowed, HasChecks, VerdictOf, WaitsFor, Sent
  <2>9. JobsTrue' /\ (\A k \in JobIds : Keeps(k)) /\ Grows /\ AssumesOpen
    BY <1>1, <2>1, <2>2, <2>7, <2>8, OneJob
  <2>10. Awaits(r)' BY <1>2, <2>3, <2>4, <2>5 DEF Awaits, Awaiting, Top, Steps
  <2>11. WireOK' /\ TalkOK' BY <1>1, <1>2, <1>5, <2>3, <2>6, <2>8, <2>9, <2>10, Asked
  <2>12. \A z \in On(run)' \ On(run) : FrameTrue(z)'
    BY <1>2, <2>4, <2>6, NewFrame, PlainFrame
  <2> QED BY <1>1, <1>2, <2>9, <2>11, <2>12, AskKeeps
<1> QED BY <1>3, <1>6, <1>7, <1>8 DEF SendApply

-----------------------------------------------------------------------------
(* Answers to an apply, and the jobs of a chain.                           *)

\* The running task changes one job and goes on to frames without an outcome.
LEMMA OneJobStep ==
  ASSUME Before, run # <<>>, Steps, NEW j \in JobIds, NEW x, jobs' = [jobs EXCEPT ![j] = x],
         UNCHANGED <<wire, fate, agentChecks, hello, results, queue>>,
         JobTrue(j)', Keeps(j), x.assumed => jobs[j].assumed \/ Open(j),
         \/ Return
         \/ \E y \in Frame : NoOutcome(y) /\ Call(<<y>>)
         \/ \E y, z \in Frame : NoOutcome(y) /\ NoOutcome(z) /\ Call(<<y, z>>)
  PROVE VInv' /\ Grows /\ AssumesOpen
<1>1. \A y \in On(run)' \ On(run) : NoOutcome(y)
  BY NoNewFrame, NewFrame, NewFrames
<1>2. \A y \in On(run)' \ On(run) : FrameTrue(y)' BY <1>1, PlainFrame
<1>3. On(queue)' = On(queue) BY DEF On
<1>4. JobsTrue' /\ (\A k \in JobIds : Keeps(k)) /\ Grows /\ AssumesOpen
  BY OneJob
<1> QED BY <1>2, <1>3, <1>4, TaskKeeps

LEMMA PlainFrames ==
  /\ \A fn \in {"sendApply", "tryConfirm", "chainNext", "readIfConfirmed"},
        j \in JobIds : CallOf(fn, j) \in Frame /\ NoOutcome(CallOf(fn, j))
  /\ Read \in Frame /\ NoOutcome(Read)
  /\ [f |-> "awaitRead"] \in Frame /\ NoOutcome([f |-> "awaitRead"])
BY FrameMakes DEF CallOf, NoOutcome, Read

\* A job given up while it is sent, or while its confirm is awaited.
LEMMA FailedJob ==
  ASSUME Before, NEW j \in JobIds, FailApply(j), UNCHANGED <<fate, results>>,
         jobs[j].state \in InFlight
  PROVE \E x : /\ jobs' = [jobs EXCEPT ![j] = x]
               /\ JobTrue(j)' /\ Keeps(j) /\ (x.assumed => jobs[j].assumed)
<1>. DEFINE x == [jobs[j] EXCEPT !.state = "failed"]
<1>1. jobs' = [jobs EXCEPT ![j] = x] /\ jobs'[j] = x BY Typed DEF FailApply
<1>2. jobs[j] \in Job /\ JobTrue(j) BY Typed DEF Before, VInv, JobsTrue
<1>3. /\ x.state = "failed" /\ x.assumed = jobs[j].assumed
      /\ x.agentHalf = jobs[j].agentHalf /\ x.adminHalf = jobs[j].adminHalf
      /\ x.mode = jobs[j].mode /\ x.checks = jobs[j].checks
  BY <1>2 DEF Job
<1>. HIDE DEF x
<1>4. Keeps(j) BY <1>1, <1>3 DEF Keeps, Allowed, Sent, Gates
<1>5. JobTrue(j)'
  BY <1>1, <1>2, <1>3 DEF JobTrue, Untouched, KeptIfAllowed, HasChecks, VerdictOf,
     WaitsFor, Allowed, Sent, Gates, Open, InFlight
<1> QED BY <1>1, <1>3, <1>4, <1>5

LEMMA VAwaitApply ==
  ASSUME Before, AwaitApply
  PROVE VInv' /\ Grows /\ AssumesOpen
<1>1. UNCHANGED <<wire, fate, agentChecks, hello, results, queue>>
      /\ On(queue)' = On(queue)
  BY DEF AwaitApply, link, router, On
<1>2. run # <<>> /\ Top \in Frame /\ Top.f = "awaitApply" /\ Steps
  BY FrameSteps DEF AwaitApply, Answered
<1>3. PICK j \in JobIds : j = Top.job BY <1>2, FrameFields
<1>4. jobs[j].state = "sending" /\ jobs[j] \in Job
  BY <1>2, <1>3, Typed DEF Before, IInv, HoldsJob
<1>5. JobTrue(j) /\ ~Allowed(j) BY <1>4 DEF Before, VInv, JobsTrue, Allowed
<1>6. AnswerTrue BY DEF Before, VInv, TalkOK
<1>7. CASE Return /\ UNCHANGED jobs BY <1>1, <1>2, <1>7, PlainStep
<1>8. CASE reply.code = "apply_failed" /\ Call(<<Settle(reply.res)>>) /\ UNCHANGED jobs
  <2>1. PICK y \in Frame : y = Settle(reply.res) BY <1>8, Typed, ReplyFields, FrameMakes
  <2>2. FrameTrue(y) BY <1>6, <1>8, <2>1 DEF AnswerTrue, FrameTrue, Settle
  <2>3. FrameTrue(y)' BY <1>1, <1>8, <2>2, SameJobs, FrameStays
  <2>4. Call(<<y>>) BY <1>8, <2>1 DEF Call
  <2>5. \A z \in On(run)' \ On(run) : FrameTrue(z)' BY <1>2, <2>3, <2>4, NewFrame
  <2> QED BY <1>1, <1>2, <1>8, <2>5, TaskKeepsJobs
<1>9. CASE /\ Retries(j)
           /\ jobs' = [jobs EXCEPT ![j].retried = TRUE, ![j].state = "queued"]
           /\ Call(<<Read, CallOf("sendApply", j)>>)
  <2>. DEFINE x == [jobs[j] EXCEPT !.retried = TRUE, !.state = "queued"]
  <2>1. jobs' = [jobs EXCEPT ![j] = x] /\ jobs'[j] = x BY <1>4, <1>9, Typed
  <2>2. x.state = "queued" /\ x.assumed = jobs[j].assumed BY <1>4 DEF Job
  <2>. HIDE DEF x
  <2>3. fate[j] = "none" /\ ~Applies(j)
    BY <1>3, <1>6, <1>9 DEF AnswerTrue, Retries
  <2>4. Keeps(j) BY <1>5, <2>3 DEF Keeps
  <2>5. JobTrue(j)'
    BY <1>1, <1>5, <2>1, <2>2, <2>3
       DEF JobTrue, Untouched, KeptIfAllowed, HasChecks, VerdictOf, WaitsFor, Sent
  <2> QED BY <1>1, <1>2, <1>9, <2>1, <2>2, <2>4, <2>5, PlainFrames, OneJobStep
<1>10. CASE FailApply(j) /\ Return
  BY <1>1, <1>2, <1>4, <1>10, FailedJob, OneJobStep DEF InFlight
<1>11. CASE /\ jobs' = [jobs EXCEPT ![j].state = "pending_confirm",
                                    ![j].checks = IF Checked THEN "pending" ELSE @]
            /\ Return
  <2>. DEFINE x == [jobs[j] EXCEPT !.state = "pending_confirm",
                                   !.checks = IF Checked THEN "pending" ELSE @]
  <2>1. jobs' = [jobs EXCEPT ![j] = x] /\ jobs'[j] = x BY <1>4, <1>11, Typed DEF Job
  <2>2. /\ x.state = "pending_confirm" /\ x.assumed = jobs[j].assumed
        /\ x.agentHalf = jobs[j].agentHalf
        /\ Checked => x.checks = "pending"
    BY <1>4 DEF Job
  <2>. HIDE DEF x
  <2>3. Keeps(j) BY <1>5, <2>1, <2>2 DEF Keeps, Sent
  <2>4. JobTrue(j)'
    BY <1>1, <1>4, <1>5, <2>1, <2>2
       DEF JobTrue, Untouched, KeptIfAllowed, HasChecks, VerdictOf, WaitsFor, Sent, Open
  <2> QED BY <1>1, <1>2, <1>11, <2>1, <2>2, <2>3, <2>4, OneJobStep
<1>12. CASE /\ reply.code = "noop" /\ FinishConfirmed(j, reply.hash)
            /\ Call(<<CallOf("chainNext", j)>>)
  <2>1. fate[j] = "noop" BY <1>3, <1>6, <1>12 DEF AnswerTrue
  <2>2. JobsTrue' /\ (\A k \in JobIds : Keeps(k)) /\ Grows /\ AssumesOpen
    BY <1>1, <1>4, <1>12, <2>1, ConfirmedJob DEF Open
  <2>3. \A z \in On(run)' \ On(run) : FrameTrue(z)'
    BY <1>2, <1>12, PlainFrames, NewFrame, PlainFrame
  <2> QED BY <1>1, <1>2, <2>2, <2>3, TaskKeeps
<1> QED BY <1>3, <1>7, <1>8, <1>9, <1>10, <1>11, <1>12 DEF AwaitApply, persisted

\* A new job: the router has not heard of it.
LEMMA NewJob ==
  ASSUME Before, NEW j \in JobIds, jobs[j].state = "none",
         NEW m \in {"agent", "admin_and_agent"}, NEW step \in 0..MaxChain,
         CreateApply(j, m, step), UNCHANGED <<fate, results>>
  PROVE \E x : /\ jobs' = [jobs EXCEPT ![j] = x]
               /\ JobTrue(j)' /\ Keeps(j) /\ (x.assumed => jobs[j].assumed)
<1>. DEFINE w == [jobs[j] EXCEPT !.state = "queued", !.mode = m, !.chainStep = step]
            x == WithPlan(w)
<1>1. jobs' = [jobs EXCEPT ![j] = x] /\ jobs'[j] = x BY Typed DEF CreateApply
<1>2. jobs[j] \in Job /\ JobTrue(j) BY Typed DEF Before, VInv, JobsTrue
<1>3. w \in Job /\ w.state = "queued" /\ w.assumed = jobs[j].assumed
  BY <1>2 DEF Job, JobStates
<1>. HIDE DEF w
<1>4. x.state = "queued" /\ x.assumed = jobs[j].assumed BY <1>3 DEF WithPlan, Job
<1>. HIDE DEF x
<1>5. fate[j] = "none" BY <1>2 DEF JobTrue, Untouched, Sent
<1>6. Keeps(j) BY DEF Keeps, Allowed, Sent
<1>7. JobTrue(j)'
  BY <1>1, <1>4, <1>5
     DEF JobTrue, Untouched, KeptIfAllowed, HasChecks, VerdictOf, WaitsFor, Sent
<1> QED BY <1>1, <1>4, <1>6, <1>7

LEMMA VChainNext ==
  ASSUME Before, ChainNext
  PROVE VInv' /\ Grows /\ AssumesOpen
<1>1. UNCHANGED <<wire, fate, agentChecks, hello, results, reply, queue>>
  BY DEF ChainNext, link, router
<1>2. run # <<>> /\ Top \in Frame /\ Top.f = "chainNext" /\ Steps
  BY <1>1, FrameSteps DEF ChainNext
<1>3. PICK j \in JobIds : j = Top.job BY <1>2, FrameFields
<1>4. CASE Return /\ UNCHANGED jobs BY <1>1, <1>2, <1>4, PlainStep
<1>5. ASSUME NEW next \in JobIds,
             NEW mode \in IF Checked THEN Modes ELSE {jobs[j].mode}, Fresh(next),
             jobs[j].chainStep + 1 < MaxChain,
             CreateApply(next, mode, jobs[j].chainStep + 1),
             Call(<<CallOf("sendApply", next)>>)
      PROVE VInv' /\ Grows /\ AssumesOpen
  <2>1. jobs[j].mode \in {"agent", "admin_and_agent"} /\ jobs[j].chainStep \in 0..MaxChain
    BY Typed DEF Job
  <2>2. /\ mode \in {"agent", "admin_and_agent"}
        /\ jobs[j].chainStep + 1 \in 0..MaxChain
    BY <1>5, <2>1, ApplyAssumption
  <2>3. PICK x : /\ jobs' = [jobs EXCEPT ![next] = x]
                 /\ JobTrue(next)' /\ Keeps(next) /\ (x.assumed => jobs[next].assumed)
    BY <1>1, <1>5, <2>2, NewJob DEF Fresh
  <2> QED BY <1>1, <1>2, <1>5, <2>3, PlainFrames, OneJobStep
<1> QED BY <1>3, <1>4, <1>5 DEF ChainNext

-----------------------------------------------------------------------------
(* Confirms, reconnects and pushes.                                        *)

LEMMA VTryConfirm ==
  ASSUME Before, TryConfirm
  PROVE VInv' /\ Grows /\ AssumesOpen
<1>1. UNCHANGED <<jobs, fate, agentChecks, hello, results, reply, queue>>
      /\ On(queue)' = On(queue)
  BY DEF TryConfirm, persisted, router, On
<1>2. run # <<>> /\ Top \in Frame /\ Top.f = "tryConfirm" /\ Steps
  BY <1>1, FrameSteps DEF TryConfirm
<1>3. PICK j \in JobIds : j = Top.job BY <1>2, FrameFields
<1>4. CASE Return /\ UNCHANGED wire BY <1>1, <1>2, <1>4, PlainStep
<1>5. CASE /\ ReadyToConfirm(j)
           /\ Ask([m |-> "confirm", job |-> j, late |-> FALSE,
                   override |-> jobs[j].checks = "overridden"])
           /\ Call(<<CallOf("awaitConfirm", j)>>)
  <2>. DEFINE y == CallOf("awaitConfirm", j)
  <2>0. PICK o \in BOOLEAN : o = (jobs[j].checks = "overridden") OBVIOUS
  <2>1. PICK r \in Request : r = [m |-> "confirm", job |-> j, late |-> FALSE, override |-> o]
    BY DEF Request
  <2>2. ~r.late /\ r.m = "confirm" /\ r.job = j /\ Ask(r)
    BY <1>5, <2>0, <2>1 DEF Ask
  <2>3. y \in Frame /\ NoOutcome(y) /\ y.f = "awaitConfirm" /\ y.job = j /\ Call(<<y>>)
    BY <1>5, AwaitFrame
  <2>. HIDE DEF y
  <2>4. run' # <<>> /\ Top' = y BY <1>2, <2>3, CallTop DEF Before
  <2>5. JobsTrue' /\ (\A k \in JobIds : Keeps(k)) /\ Grows /\ AssumesOpen
    BY <1>1, SameJobs
  <2>6. Allowed(j)
    <3>1. JobTrue(j) /\ jobs[j] \in Job BY Typed DEF Before, VInv, JobsTrue
    <3> QED BY <1>5, <3>1
            DEF ReadyToConfirm, ChecksAllowConfirm, JobTrue, HasChecks, Allowed, Sent, Gates
  <2>7. Allowed(j)' BY <2>5, <2>6 DEF Keeps
  <2>8. Awaits(r)' BY <1>2, <2>2, <2>3, <2>4 DEF Awaits, Awaiting, Top, Steps
  <2>9. WireOK' /\ TalkOK' BY <1>1, <1>2, <2>2, <2>5, <2>7, <2>8, Asked
  <2>10. \A z \in On(run)' \ On(run) : FrameTrue(z)'
    BY <1>2, <2>3, NewFrame, PlainFrame
  <2> QED BY <1>1, <1>2, <2>5, <2>9, <2>10, AskKeeps
<1> QED BY <1>3, <1>4, <1>5 DEF TryConfirm

\* The checks of a job move on: passed and overridden ones stay so, and there
\* are some as soon as the router tells of some.
LEMMA ChecksGoOn ==
  ASSUME NEW c \in ChecksStates, NEW n \in {"none", "pending", "passed"}
  PROVE /\ c \in {"passed", "overridden"} => NextChecks(c, n) = c
        /\ c # "none" \/ n # "none" => NextChecks(c, n) # "none"
BY DEF NextChecks, ChecksStates

\* More of a job's halves, or its next checks: nothing the router may act on is lost.
LEMMA FurtherJob ==
  ASSUME Before, NEW j \in JobIds, NEW x, jobs' = [jobs EXCEPT ![j] = x],
         UNCHANGED <<fate, results>>,
         x.assumed = jobs[j].assumed, x.mode = jobs[j].mode,
         jobs[j].agentHalf => x.agentHalf, jobs[j].adminHalf => x.adminHalf,
         jobs[j].checks \in {"passed", "overridden"} => x.checks \in {"passed", "overridden"},
         \/ x.state = jobs[j].state
         \/ jobs[j].state \in InFlight /\ x.state = "pending_confirm",
         x.state = "none" => ~x.agentHalf,
         Checked /\ x.state = "pending_confirm" => x.checks # "none"
  PROVE JobTrue(j)' /\ Keeps(j)
<1>1. jobs'[j] = x /\ JobTrue(j) BY Typed DEF Before, VInv, JobsTrue
<1>2. Keeps(j) BY <1>1 DEF Keeps, Allowed, Sent, Gates, InFlight
<1>3. JobTrue(j)'
  BY <1>1 DEF JobTrue, Untouched, KeptIfAllowed, HasChecks, VerdictOf,
     WaitsFor, Allowed, Sent, Gates, Open, InFlight
<1> QED BY <1>2, <1>3

LEMMA VAwaitConfirm ==
  ASSUME Before, AwaitConfirm
  PROVE VInv' /\ Grows /\ AssumesOpen
<1>1. UNCHANGED <<wire, fate, agentChecks, hello, results, queue>>
      /\ On(queue)' = On(queue)
  BY DEF AwaitConfirm, link, router, On
<1>2. run # <<>> /\ Top \in Frame /\ Top.f = "awaitConfirm" /\ Steps
  BY FrameSteps DEF AwaitConfirm, Answered
<1>3. PICK j \in JobIds : j = Top.job BY <1>2, FrameFields
<1>4. jobs[j].state = "pending_confirm" /\ jobs[j] \in Job
  BY <1>2, <1>3, Typed DEF Before, IInv, HoldsJob
<1>5. JobTrue(j) BY DEF Before, VInv, JobsTrue
<1>6. AnswerTrue BY DEF Before, VInv, TalkOK
<1>7. CASE Return /\ UNCHANGED jobs BY <1>1, <1>2, <1>7, PlainStep
<1>8. CASE reply.code = "deadline_passed" /\ Call(<<Settle(reply.res)>>) /\ UNCHANGED jobs
  <2>1. PICK y \in Frame : y = Settle(reply.res) BY <1>8, Typed, ReplyFields, FrameMakes
  <2>2. FrameTrue(y) BY <1>6, <1>8, <2>1 DEF AnswerTrue, FrameTrue, Settle
  <2>3. FrameTrue(y)' BY <1>1, <1>8, <2>2, SameJobs, FrameStays
  <2>4. Call(<<y>>) BY <1>8, <2>1 DEF Call
  <2>5. \A z \in On(run)' \ On(run) : FrameTrue(z)' BY <1>2, <2>3, <2>4, NewFrame
  <2> QED BY <1>1, <1>2, <1>8, <2>5, TaskKeepsJobs
<1>9. CASE jobs' = [jobs EXCEPT ![j].checks = NextChecks(@, "pending")] /\ Return
  <2>. DEFINE x == [jobs[j] EXCEPT !.checks = NextChecks(@, "pending")]
  <2>1. jobs' = [jobs EXCEPT ![j] = x] BY <1>9
  <2>2. /\ x.assumed = jobs[j].assumed /\ x.mode = jobs[j].mode
        /\ x.agentHalf = jobs[j].agentHalf /\ x.adminHalf = jobs[j].adminHalf
        /\ x.state = "pending_confirm" /\ x.checks = NextChecks(jobs[j].checks, "pending")
    BY <1>4 DEF Job
  <2>3. jobs[j].checks \in ChecksStates BY <1>4 DEF Job
  <2>. HIDE DEF x
  <2>4. JobTrue(j)' /\ Keeps(j) BY <1>1, <1>4, <2>1, <2>2, <2>3, ChecksGoOn, FurtherJob
  <2> QED BY <1>1, <1>2, <1>9, <2>1, <2>2, <2>4, OneJobStep
<1>10. CASE FailApply(j) /\ Return
  BY <1>1, <1>2, <1>4, <1>10, FailedJob, OneJobStep DEF InFlight
<1>11. CASE /\ reply.code = "confirmed" /\ FinishConfirmed(j, reply.hash)
            /\ Call(<<CallOf("chainNext", j)>>)
  <2>1. fate[j] = "kept" BY <1>3, <1>6, <1>11 DEF AnswerTrue
  <2>2. JobsTrue' /\ (\A k \in JobIds : Keeps(k)) /\ Grows /\ AssumesOpen
    BY <1>1, <1>4, <1>11, <2>1, ConfirmedJob DEF Open
  <2>3. \A z \in On(run)' \ On(run) : FrameTrue(z)'
    BY <1>2, <1>11, PlainFrames, NewFrame, PlainFrame
  <2> QED BY <1>1, <1>2, <2>2, <2>3, TaskKeeps
<1> QED BY <1>3, <1>7, <1>8, <1>9, <1>10, <1>11 DEF AwaitConfirm, persisted

LEMMA VOnAgentReconnected ==
  ASSUME Before, OnAgentReconnected
  PROVE VInv' /\ Grows /\ AssumesOpen
<1>1. UNCHANGED <<wire, fate, agentChecks, hello, results, reply, queue>>
  BY DEF OnAgentReconnected, link, router
<1>2. run # <<>> /\ Steps
  <2>1. Running("onAgentReconnected") BY DEF OnAgentReconnected
  <2> QED BY <1>1, <2>1, FrameSteps
<1>3. CASE Return /\ UNCHANGED jobs BY <1>1, <1>2, <1>3, PlainStep
<1>4. ASSUME NEW j \in JobIds, SentBefore(j), FailApply(j), Return
      PROVE VInv' /\ Grows /\ AssumesOpen
  BY <1>1, <1>2, <1>4, FailedJob, OneJobStep DEF SentBefore
<1>5. ASSUME NEW j \in JobIds, SentBefore(j), hello.apply = j,
             jobs' = [jobs EXCEPT ![j].state = "pending_confirm",
                        ![j].reconnected = TRUE,
                        ![j].checks = NextChecks(jobs[j].checks, hello.checks)],
             Return \/ Call(<<CallOf("tryConfirm", j)>>)
      PROVE VInv' /\ Grows /\ AssumesOpen
  <2>. DEFINE x == [jobs[j] EXCEPT !.state = "pending_confirm", !.reconnected = TRUE,
                      !.checks = NextChecks(jobs[j].checks, hello.checks)]
  <2>1. jobs[j] \in Job /\ jobs[j].checks \in ChecksStates BY Typed DEF Job
  <2>2. jobs' = [jobs EXCEPT ![j] = x] BY <1>5, Typed DEF Job
  <2>3. /\ x.assumed = jobs[j].assumed /\ x.mode = jobs[j].mode
        /\ x.agentHalf = jobs[j].agentHalf /\ x.adminHalf = jobs[j].adminHalf
        /\ x.state = "pending_confirm"
        /\ x.checks = NextChecks(jobs[j].checks, hello.checks)
    BY <2>1 DEF Job
  <2>. HIDE DEF x
  <2>4. /\ hello.checks \in {"none", "pending", "passed"}
        /\ Checked => hello.checks # "none"
    BY <1>5 DEF Before, VInv, AgentOK, AgentHasChecks, JobIds
  <2>5. /\ jobs[j].checks \in {"passed", "overridden"} => x.checks = jobs[j].checks
        /\ Checked => x.checks # "none"
    BY <2>1, <2>3, <2>4, ChecksGoOn
  <2>6. jobs[j].state \in InFlight /\ jobs[j].state # "none" BY <1>5 DEF SentBefore, InFlight
  <2>7. JobTrue(j)' /\ Keeps(j)
    BY <1>1, <2>2, <2>3, <2>5, <2>6, FurtherJob
  <2> QED BY <1>1, <1>2, <1>5, <2>2, <2>3, <2>7, PlainFrames, OneJobStep
<1>6. \/ Return /\ UNCHANGED jobs
      \/ \E j \in JobIds : SentBefore(j) /\ FailApply(j) /\ Return
      \/ \E j \in JobIds :
           /\ SentBefore(j) /\ hello.apply = j
           /\ jobs' = [jobs EXCEPT ![j].state = "pending_confirm",
                        ![j].reconnected = TRUE,
                        ![j].checks = NextChecks(jobs[j].checks, hello.checks)]
           /\ Return \/ Call(<<CallOf("tryConfirm", j)>>)
  BY DEF OnAgentReconnected
<1> QED BY <1>3, <1>4, <1>5, <1>6

LEMMA VOnPushAccepted ==
  ASSUME Before, OnPushAccepted
  PROVE VInv' /\ Grows /\ AssumesOpen
<1>1. UNCHANGED <<wire, fate, agentChecks, hello, results, reply, queue>>
  BY DEF OnPushAccepted, link, router
<1>2. run # <<>> /\ Steps BY <1>1, FrameSteps DEF OnPushAccepted
<1>3. CASE Return /\ UNCHANGED jobs BY <1>1, <1>2, <1>3, PlainStep
<1>4. ASSUME NEW j \in JobIds, jobs[j].state = "pending_confirm",
             jobs' = [jobs EXCEPT ![j].agentHalf = TRUE, ![j].halfFrom = Top.sess],
             Call(<<CallOf("tryConfirm", j), CallOf("readIfConfirmed", j)>>)
      PROVE VInv' /\ Grows /\ AssumesOpen
  <2>. DEFINE x == [jobs[j] EXCEPT !.agentHalf = TRUE, !.halfFrom = Top.sess]
  <2>1. jobs[j] \in Job /\ JobTrue(j) BY Typed DEF Before, VInv, JobsTrue
  <2>2. jobs' = [jobs EXCEPT ![j] = x] BY <1>4, Typed DEF Job
  <2>3. /\ x.assumed = jobs[j].assumed /\ x.mode = jobs[j].mode
        /\ x.agentHalf /\ x.adminHalf = jobs[j].adminHalf
        /\ x.state = jobs[j].state /\ x.checks = jobs[j].checks
    BY <2>1 DEF Job
  <2>. HIDE DEF x
  <2>4. JobTrue(j)' /\ Keeps(j)
    BY <1>1, <1>4, <2>1, <2>2, <2>3, FurtherJob DEF JobTrue, HasChecks
  <2> QED BY <1>1, <1>2, <1>4, <2>2, <2>3, <2>4, PlainFrames, OneJobStep
<1> QED BY <1>3, <1>4 DEF OnPushAccepted

LEMMA VRecordChecksReport ==
  ASSUME Before, RecordChecksReport
  PROVE VInv' /\ Grows /\ AssumesOpen
<1>1. UNCHANGED <<wire, fate, agentChecks, hello, results, reply, queue>>
  BY DEF RecordChecksReport, link, router
<1>2. /\ run # <<>> /\ Top \in Frame /\ Top.f = "recordChecksReport" /\ Steps
      /\ Top.state = "passed"
  BY <1>1, FrameSteps, FrameFields DEF RecordChecksReport
<1>3. PICK j \in JobIds : j = Top.job BY <1>2, FrameFields
<1>4. CASE Return /\ UNCHANGED jobs BY <1>1, <1>2, <1>4, PlainStep
<1>5. CASE /\ jobs' = [jobs EXCEPT ![j].checks = NextChecks(jobs[j].checks, "passed")]
           /\ Return \/ Call(<<CallOf("tryConfirm", j)>>)
  <2>. DEFINE x == [jobs[j] EXCEPT !.checks = NextChecks(jobs[j].checks, "passed")]
  <2>1. jobs[j] \in Job /\ jobs[j].checks \in ChecksStates BY Typed DEF Job
  <2>2. jobs' = [jobs EXCEPT ![j] = x] BY <1>5
  <2>3. /\ x.assumed = jobs[j].assumed /\ x.mode = jobs[j].mode
        /\ x.agentHalf = jobs[j].agentHalf /\ x.adminHalf = jobs[j].adminHalf
        /\ x.state = jobs[j].state /\ x.checks = NextChecks(jobs[j].checks, "passed")
    BY <2>1 DEF Job
  <2>. HIDE DEF x
  <2>4. JobTrue(j) BY DEF Before, VInv, JobsTrue
  <2>5. JobTrue(j)' /\ Keeps(j)
    BY <1>1, <2>1, <2>2, <2>3, <2>4, ChecksGoOn, FurtherJob DEF JobTrue, Untouched
  <2> QED BY <1>1, <1>2, <1>5, <2>2, <2>3, <2>5, PlainFrames, OneJobStep
<1> QED BY <1>2, <1>3, <1>4, <1>5 DEF RecordChecksReport

-----------------------------------------------------------------------------
(* The controller's steps; the queues of its work.                         *)

LEMMA NewTask ==
  ASSUME Before, NEW task \in Task, TaskTrue(task)',
         UNCHANGED queue \/ queue' = Enqueued(queue, task)
  PROVE \A x \in On(queue)' \ On(queue) : TaskTrue(x)'
<1>1. CASE UNCHANGED queue
  <2>1. On(queue)' = On(queue) BY <1>1 DEF On
  <2> QED BY <2>1
<1>2. CASE queue' = Enqueued(queue, task)
  <2>1. On(queue') \subseteq {task} \cup On(queue) BY <1>2, Typed, OnEnqueued
  <2>2. On(queue)' = On(queue') BY DEF On
  <2> QED BY <2>1, <2>2
<1> QED BY <1>1, <1>2

LEMMA ReadQueued ==
  ASSUME Before, UNCHANGED queue \/ queue' = Enqueued(queue, [t |-> "read"])
  PROVE \A x \in On(queue)' \ On(queue) : TaskTrue(x)'
<1>1. PICK task \in Task : task = [t |-> "read"] BY TaskMakes
<1>2. TaskTrue(task)' BY <1>1 DEF TaskTrue
<1> QED BY <1>1, <1>2, NewTask

LEMMA VReads ==
  ASSUME Before,
         AwaitRollback \/ ReadIfConfirmed \/ ReadLater \/ ReadIfMoved \/ AwaitRead
  PROVE VInv' /\ Grows /\ AssumesOpen
<1>1. CASE AwaitRollback \/ AwaitRead
  <2>1. /\ UNCHANGED <<jobs, wire, fate, agentChecks, hello, results, queue>> /\ Return
        /\ Answered("awaitRollback") \/ Answered("awaitRead")
    BY <1>1 DEF AwaitRollback, AwaitRead, persisted, link, router
  <2>2. Steps /\ run # <<>> BY <2>1, FrameSteps DEF Answered
  <2> QED BY <2>1, <2>2, PlainStep
<1>2. CASE ReadIfConfirmed \/ ReadLater
  <2>1. /\ UNCHANGED <<jobs, wire, fate, agentChecks, hello, results, reply>> /\ Return
        /\ UNCHANGED queue \/ queue' = Enqueued(queue, [t |-> "read"])
        /\ Running("readIfConfirmed") \/ Running("readLater")
    BY <1>2 DEF ReadIfConfirmed, ReadLater, persisted, link, router
  <2>2. Steps /\ run # <<>> BY <2>1, FrameSteps
  <2>3. \A x \in On(run)' \ On(run) : FrameTrue(x)' BY <2>1, <2>2, NoNewFrame
  <2>4. \A x \in On(queue)' \ On(queue) : TaskTrue(x)' BY <2>1, ReadQueued
  <2> QED BY <2>1, <2>2, <2>3, <2>4, TaskKeepsJobs
<1>3. CASE ReadIfMoved
  <2>1. /\ UNCHANGED <<jobs, wire, fate, agentChecks, hello, results, reply, queue>>
        /\ Return \/ Call(<<Read>>)
    BY <1>3 DEF ReadIfMoved, persisted, link, router
  <2>2. Running("readIfMoved") BY <1>3 DEF ReadIfMoved
  <2>3. Steps /\ run # <<>> BY <2>1, <2>2, FrameSteps
  <2> QED BY <2>1, <2>3, PlainFrames, PlainStep
<1> QED BY <1>1, <1>2, <1>3

LEMMA VReadAndReconcile ==
  ASSUME Before, ReadAndReconcile
  PROVE VInv' /\ Grows /\ AssumesOpen
<1>1. UNCHANGED <<jobs, fate, agentChecks, hello, results, reply, queue>>
      /\ On(queue)' = On(queue)
  BY DEF ReadAndReconcile, persisted, router, On
<1>2. run # <<>> /\ Steps BY <1>1, FrameSteps DEF ReadAndReconcile
<1>3. CASE Return /\ UNCHANGED wire BY <1>1, <1>2, <1>3, PlainStep
<1>4. CASE Ask([m |-> "read", late |-> FALSE]) /\ Call(<<[f |-> "awaitRead"]>>)
  <2>1. PICK r \in Request : r = [m |-> "read", late |-> FALSE] BY RequestMakes
  <2>2. PICK y \in Frame : y = [f |-> "awaitRead"] BY FrameMakes
  <2>3. ~r.late /\ r.m = "read" /\ Ask(r) BY <1>4, <2>1 DEF Ask
  <2>4. y.f = "awaitRead" /\ NoOutcome(y) /\ Call(<<y>>)
    BY <1>4, <2>2 DEF Call, NoOutcome
  <2>5. run' # <<>> /\ Head(run') = y
    <3>1. Tail(run) \in Seq(Frame) BY <1>2, Typed, OnTail
    <3> QED BY <2>4, <3>1, Push1 DEF Call
  <2>6. JobsTrue' /\ (\A k \in JobIds : Keeps(k)) /\ Grows /\ AssumesOpen
    BY <1>1, SameJobs
  <2>7. Awaits(r)' BY <1>2, <2>3, <2>4, <2>5 DEF Awaits, Awaiting, Steps
  <2>8. WireOK' /\ TalkOK' BY <1>1, <1>2, <2>3, <2>6, <2>7, Asked
  <2>9. \A z \in On(run)' \ On(run) : FrameTrue(z)'
    BY <1>2, <2>4, NewFrame, PlainFrame
  <2> QED BY <1>1, <1>2, <2>6, <2>8, <2>9, AskKeeps
<1> QED BY <1>3, <1>4 DEF ReadAndReconcile

LEMMA VController ==
  ASSUME Before, Controller
  PROVE VInv' /\ Grows /\ AssumesOpen
BY VStartTask, VApplyResults, VApplyResult, VAckResults, VSendApply, VAwaitApply,
   VChainNext, VTryConfirm, VAwaitConfirm, VOnAgentReconnected, VOnPushAccepted,
   VRecordChecksReport, VReads, VReadAndReconcile
   DEF Controller

-----------------------------------------------------------------------------
(* The admins and the tick, while no task runs.                            *)

LEMMA IdleSteps ==
  ASSUME Before, Idle, UNCHANGED reply
  PROVE Steps
BY NoAnswerYet DEF Idle, Awaiting, Steps

\* A task of one frame without an outcome begins, or none does.
Begins == run' = <<>> \/ \E y \in Frame : NoOutcome(y) /\ run' = <<y>>

LEMMA BeginsTrue ==
  ASSUME Before, Begins
  PROVE \A x \in On(run)' \ On(run) : FrameTrue(x)'
<1>1. \A x \in On(run)' : NoOutcome(x) BY OnPush DEF Begins, On
<1> QED BY <1>1, PlainFrame

LEMMA IdleJob ==
  ASSUME Before, Idle, Begins, NEW j \in JobIds, NEW x, jobs' = [jobs EXCEPT ![j] = x],
         UNCHANGED <<wire, fate, agentChecks, hello, results, queue, reply>>,
         JobTrue(j)', Keeps(j), x.assumed => jobs[j].assumed \/ Open(j)
  PROVE VInv' /\ Grows /\ AssumesOpen
<1>1. \A y \in On(run)' \ On(run) : FrameTrue(y)' BY BeginsTrue
<1>2. On(queue)' = On(queue) BY DEF On
<1>3. JobsTrue' /\ (\A k \in JobIds : Keeps(k)) /\ Grows /\ AssumesOpen BY OneJob
<1> QED BY <1>1, <1>2, <1>3, IdleSteps, TaskKeeps

LEMMA IdleBegins ==
  ASSUME Before, Idle, Begins,
         UNCHANGED <<jobs, wire, fate, agentChecks, hello, results, queue, reply>>
  PROVE VInv' /\ Grows /\ AssumesOpen
<1>1. \A y \in On(run)' \ On(run) : FrameTrue(y)' BY BeginsTrue
<1>2. On(queue)' = On(queue) BY DEF On
<1> QED BY <1>1, <1>2, IdleSteps, TaskKeepsJobs

\* A job that was never sent ends.
LEMMA UnsentJob ==
  ASSUME Before, NEW j \in JobIds, NEW s \in {"cancelled", "expired"},
         jobs' = [jobs EXCEPT ![j].state = s], UNCHANGED <<fate, results>>,
         jobs[j].state = "queued"
  PROVE \E x : /\ jobs' = [jobs EXCEPT ![j] = x]
               /\ JobTrue(j)' /\ Keeps(j) /\ (x.assumed => jobs[j].assumed)
<1>. DEFINE x == [jobs[j] EXCEPT !.state = s]
<1>1. jobs' = [jobs EXCEPT ![j] = x] /\ jobs'[j] = x BY Typed
<1>2. x.state = s /\ x.assumed = jobs[j].assumed BY Typed DEF Job
<1>. HIDE DEF x
<1>3. fate[j] = "none" /\ ~Allowed(j)
  BY DEF Before, VInv, JobsTrue, JobTrue, Untouched, Sent, Allowed
<1>4. Keeps(j) BY <1>1, <1>2, <1>3 DEF Keeps, Sent
<1>5. JobTrue(j)'
  BY <1>1, <1>2, <1>3
     DEF JobTrue, Untouched, KeptIfAllowed, HasChecks, VerdictOf, WaitsFor
<1> QED BY <1>1, <1>2, <1>4, <1>5

LEMMA VAdminConfirm ==
  ASSUME Before, NEW j \in JobIds, NEW o \in BOOLEAN, AdminConfirm(j, o)
  PROVE VInv' /\ Grows /\ AssumesOpen
<1>. DEFINE x == [jobs[j] EXCEPT !.adminHalf = TRUE,
                                 !.checks = IF o THEN "overridden" ELSE @]
<1>1. jobs[j] \in Job /\ JobTrue(j) BY Typed DEF Before, VInv, JobsTrue
<1>2. jobs' = [jobs EXCEPT ![j] = x] BY Typed DEF AdminConfirm, Job
<1>3. /\ x.assumed = jobs[j].assumed /\ x.mode = jobs[j].mode
      /\ x.agentHalf = jobs[j].agentHalf /\ x.adminHalf
      /\ x.state = jobs[j].state
      /\ x.checks = IF o THEN "overridden" ELSE jobs[j].checks
  BY <1>1 DEF Job
<1>. HIDE DEF x
<1>4. UNCHANGED <<wire, fate, agentChecks, hello, results, queue, reply>>
  BY DEF AdminConfirm, LeavesRouter, link, router
<1>5. Idle /\ jobs[j].state \in InFlight /\ jobs[j].state # "none"
  BY DEF AdminConfirm, InFlight
<1>6. JobTrue(j)' /\ Keeps(j)
  BY <1>1, <1>2, <1>3, <1>4, <1>5, FurtherJob DEF JobTrue, HasChecks
<1>7. Begins BY PlainFrames DEF AdminConfirm, Begins
<1> QED BY <1>2, <1>3, <1>4, <1>5, <1>6, <1>7, IdleJob

LEMMA VRequestApply ==
  ASSUME Before, NEW j \in JobIds, NEW mode \in Modes, RequestApply(j, mode)
  PROVE VInv' /\ Grows /\ AssumesOpen
<1>1. PICK m \in {"agent", "admin_and_agent"} : m = IF session = 0 THEN "agent" ELSE mode
  BY ApplyAssumption
<1>2. 0 \in 0..MaxChain BY ApplyAssumption
<1>3. UNCHANGED <<wire, fate, agentChecks, hello, results, queue, reply>>
  BY DEF RequestApply, LeavesRouter, link, router
<1>4. Idle /\ jobs[j].state = "none" /\ CreateApply(j, m, 0)
  BY <1>1 DEF RequestApply, Fresh
<1>5. PICK x : /\ jobs' = [jobs EXCEPT ![j] = x]
               /\ JobTrue(j)' /\ Keeps(j) /\ (x.assumed => jobs[j].assumed)
  BY <1>2, <1>3, <1>4, NewJob
<1>6. Begins BY PlainFrames DEF RequestApply, Begins
<1> QED BY <1>3, <1>4, <1>5, <1>6, IdleJob

LEMMA VDetachedRequest ==
  ASSUME Before, NEW j \in JobIds, DetachedRequest(j)
  PROVE VInv' /\ Grows /\ AssumesOpen
<1>1. UNCHANGED <<wire, fate, agentChecks, hello, results, queue, reply>>
  BY DEF DetachedRequest, LeavesRouter, link, router
<1>2. 0 \in 0..MaxChain BY ApplyAssumption
<1>3. jobs[j].state = "none" /\ CreateApply(j, "agent", 0) BY DEF DetachedRequest, Fresh
<1>4. PICK x : /\ jobs' = [jobs EXCEPT ![j] = x]
               /\ JobTrue(j)' /\ Keeps(j) /\ (x.assumed => jobs[j].assumed)
  BY <1>1, <1>2, <1>3, NewJob
<1>5. JobsTrue' /\ (\A k \in JobIds : Keeps(k)) /\ Grows /\ AssumesOpen
  BY <1>1, <1>4, OneJob
<1>6. On(queue)' = On(queue) BY <1>1 DEF On
<1>7. CASE UNCHANGED run
  <2>1. On(run)' = On(run) BY <1>7 DEF On
  <2>2. TalkOK'
    BY <1>1, <1>7 DEF Before, VInv, TalkOK, LastIsAwaited, AnswerTrue, Awaits, Awaiting,
                      Top, TrueResult, Applies, Asks
  <2> QED BY <1>1, <1>5, <1>6, <2>1, <2>2, OutcomesStay, WireStays, AgentStays, VParts
<1>8. CASE ~Awaiting /\ run' = <<CallOf("sendApply", j)>> \o run
  <2>1. Steps BY <1>1, <1>8, NoAnswerYet DEF Steps
  <2>2. PICK y \in Frame : y = CallOf("sendApply", j) /\ NoOutcome(y) BY PlainFrames
  <2>3. run \in Seq(Frame) BY Typed
  <2>4. On(run)' \subseteq On(run) \cup {y} BY <1>8, <2>2, <2>3 DEF On
  <2>5. \A z \in On(run)' \ On(run) : FrameTrue(z)' BY <2>2, <2>4, PlainFrame
  <2> QED BY <1>1, <1>5, <1>6, <2>1, <2>5, TaskKeeps
<1> QED BY <1>7, <1>8 DEF DetachedRequest

LEMMA VRevertApply ==
  ASSUME Before, NEW j \in JobIds, RevertApply(j)
  PROVE VInv' /\ Grows /\ AssumesOpen
<1>1. /\ UNCHANGED <<fate, agentChecks, hello, results, queue, reply>> /\ Idle
      /\ On(queue)' = On(queue)
  BY DEF RevertApply, router, On
<1>2. Steps BY <1>1, IdleSteps
<1>3. CASE /\ jobs[j].state = "queued" /\ UNCHANGED <<run, wire>>
           /\ jobs' = [jobs EXCEPT ![j].state = "cancelled"]
  <2>1. PICK x : /\ jobs' = [jobs EXCEPT ![j] = x]
                 /\ JobTrue(j)' /\ Keeps(j) /\ (x.assumed => jobs[j].assumed)
    BY <1>1, <1>3, UnsentJob
  <2>2. Begins BY <1>1, <1>3 DEF Begins, Idle
  <2> QED BY <1>1, <1>3, <2>1, <2>2, IdleJob
<1>4. CASE /\ Ask([m |-> "rollback", job |-> j, override |-> FALSE, late |-> FALSE])
           /\ run' = <<CallOf("awaitRollback", j)>> /\ UNCHANGED jobs
  <2>1. PICK r \in Request :
          r = [m |-> "rollback", job |-> j, override |-> FALSE, late |-> FALSE]
    BY RequestMakes
  <2>2. PICK y \in Frame : y = CallOf("awaitRollback", j) /\ NoOutcome(y)
    BY AwaitFrame
  <2>3. ~r.late /\ r.m = "rollback" /\ Ask(r) BY <1>4, <2>1 DEF Ask
  <2>4. run' = <<y>> /\ y.f = "awaitRollback" BY <1>4, <2>2 DEF CallOf
  <2>5. JobsTrue' /\ (\A k \in JobIds : Keeps(k)) /\ Grows /\ AssumesOpen
    BY <1>1, <1>4, SameJobs
  <2>6. Awaits(r)' BY <1>2, <2>3, <2>4 DEF Awaits, Awaiting, Steps
  <2>7. WireOK' /\ TalkOK' BY <1>1, <1>2, <2>3, <2>5, <2>6, Asked
  <2>8. \A z \in On(run)' \ On(run) : FrameTrue(z)'
    BY <2>2, <2>4, BeginsTrue DEF Begins
  <2> QED BY <1>1, <1>2, <2>5, <2>7, <2>8, AskKeeps
<1> QED BY <1>3, <1>4 DEF RevertApply

LEMMA VAdmin ==
  ASSUME Before, Admin
  PROVE VInv' /\ Grows /\ AssumesOpen
<1>1. ASSUME NEW s, NEW c, EditSections(s, c) \/ ResolveConflict(s, c)
      PROVE VInv' /\ Grows /\ AssumesOpen
  <2>1. /\ Idle /\ UNCHANGED run
        /\ UNCHANGED <<jobs, wire, fate, agentChecks, hello, results, queue, reply>>
    BY <1>1 DEF EditSections, ResolveConflict, LeavesRouter, link, router
  <2>2. Begins BY <2>1 DEF Begins, Idle
  <2> QED BY <2>1, <2>2, IdleBegins
<1> QED BY <1>1, VRequestApply, VDetachedRequest, VAdminConfirm, VRevertApply DEF Admin

\* A rollback assumed: the job is no longer open, but a result may still come.
LEMMA VTickAssume ==
  ASSUME Before, NEW j \in JobIds, TickAssume(j)
  PROVE VInv' /\ Grows /\ AssumesOpen
<1>. DEFINE x == [jobs[j] EXCEPT !.state = "rolled_back", !.assumed = TRUE]
<1>1. jobs[j] \in Job /\ JobTrue(j) BY Typed DEF Before, VInv, JobsTrue
<1>2. jobs' = [jobs EXCEPT ![j] = x] /\ jobs'[j] = x
  BY Typed DEF TickAssume, Assume, Job
<1>3. /\ x.state = "rolled_back" /\ x.assumed /\ x.mode = jobs[j].mode
      /\ x.agentHalf = jobs[j].agentHalf /\ x.adminHalf = jobs[j].adminHalf
      /\ x.checks = jobs[j].checks
  BY <1>1 DEF Job
<1>. HIDE DEF x
<1>4. UNCHANGED <<wire, fate, agentChecks, hello, results, queue, reply, run>>
  BY DEF TickAssume, LeavesRouter, link, router
<1>5. Idle /\ jobs[j].state = "pending_confirm" /\ Open(j) BY DEF TickAssume, Open
<1>6. Keeps(j) BY <1>2, <1>3, <1>4, <1>5 DEF Keeps, Allowed, Sent, Gates
<1>7. JobTrue(j)'
  BY <1>1, <1>2, <1>3, <1>4, <1>5
     DEF JobTrue, Untouched, KeptIfAllowed, HasChecks, VerdictOf, WaitsFor, Allowed,
         Sent, Gates
<1>8. Begins BY <1>4, <1>5 DEF Begins, Idle
<1> QED BY <1>2, <1>4, <1>5, <1>6, <1>7, <1>8, IdleJob

LEMMA VTick ==
  ASSUME Before, Tick
  PROVE VInv' /\ Grows /\ AssumesOpen
<1>1. ASSUME NEW j \in JobIds, TickExpire(j) \/ TickNoAnswer(j)
      PROVE VInv' /\ Grows /\ AssumesOpen
  <2>1. /\ Idle /\ UNCHANGED run
        /\ UNCHANGED <<wire, fate, agentChecks, hello, results, queue, reply>>
    BY <1>1 DEF TickExpire, TickNoAnswer, LeavesRouter, link, router
  <2>2. Begins BY <2>1 DEF Begins, Idle
  <2>3. PICK x : /\ jobs' = [jobs EXCEPT ![j] = x]
                 /\ JobTrue(j)' /\ Keeps(j) /\ (x.assumed => jobs[j].assumed)
    <3>1. CASE TickExpire(j) BY <2>1, <3>1, UnsentJob DEF TickExpire
    <3>2. CASE TickNoAnswer(j) BY <2>1, <3>2, FailedJob DEF TickNoAnswer, InFlight
    <3> QED BY <1>1, <3>1, <3>2
  <2> QED BY <2>1, <2>2, <2>3, IdleJob
<1>2. ASSUME NEW j \in JobIds, TickSend(j) \/ TickConfirm(j)
      PROVE VInv' /\ Grows /\ AssumesOpen
  <2>1. /\ Idle
        /\ UNCHANGED <<jobs, wire, fate, agentChecks, hello, results, queue, reply>>
        /\ run' = <<CallOf("sendApply", j)>> \/ run' = <<CallOf("tryConfirm", j)>>
    BY <1>2 DEF TickSend, TickConfirm, LeavesRouter, link, router, persisted
  <2>2. Begins BY <2>1, PlainFrames DEF Begins
  <2> QED BY <2>1, <2>2, IdleBegins
<1> QED BY <1>1, <1>2, VTickAssume DEF Tick

-----------------------------------------------------------------------------
(* The router's steps.                                                     *)

\* The router may take the step its fate names of this job, and lists it.
MayBecome(k) ==
  /\ fate[k] \in {"none", "live"} /\ Sent(k)
  /\ fate'[k] = "kept" => Allowed(k)
  /\ fate'[k] = "restored" => \E r \in results' : r.job = k

LEMMA RouterActs ==
  ASSUME Before, UNCHANGED <<jobs, run>>,
         hello'.results \subseteq hello.results \cup results,
         \A k \in JobIds : fate'[k] # fate[k] => MayBecome(k),
         results \subseteq results',
         \A r \in results' \ results : TrueResult(r)',
         \A x \in On(queue)' \ On(queue) : TaskTrue(x)'
  PROVE Grows /\ AssumesOpen /\ OutcomesTrue' /\ JobsTrue' /\ \A k \in JobIds : Keeps(k)
<1>1. Grows /\ AssumesOpen BY DEF Grows, AssumesOpen, MayBecome
<1>2. On(run)' = On(run) BY DEF On
<1>3. (results \cup hello.results)' \ (results \cup hello.results) \subseteq results' \ results
  OBVIOUS
<1>4. OutcomesTrue' BY <1>1, <1>2, <1>3, OutcomesStay
<1>5. \A k \in JobIds : Allowed(k) => Allowed(k)' BY <1>1 DEF Allowed, Sent, Gates, Grows
<1>6. \A k \in JobIds : Keeps(k) BY <1>5 DEF Keeps, Sent
<1>7. ASSUME NEW k \in JobIds PROVE JobTrue(k)'
  <2>1. JobTrue(k) BY DEF Before, VInv, JobsTrue
  <2>2. Untouched(k)' BY <2>1 DEF JobTrue, Untouched, Sent, MayBecome
  <2>3. KeptIfAllowed(k)' BY <1>5, <2>1 DEF JobTrue, KeptIfAllowed, MayBecome
  <2>4. HasChecks(k)' BY <2>1 DEF JobTrue, HasChecks
  <2>5. VerdictOf(k)' BY <1>1, <2>1 DEF JobTrue, VerdictOf, Grows
  <2>6. WaitsFor(k)' BY <2>1 DEF JobTrue, WaitsFor, MayBecome, Open
  <2> QED BY <2>2, <2>3, <2>4, <2>5, <2>6 DEF JobTrue
<1> QED BY <1>1, <1>4, <1>6, <1>7 DEF JobsTrue

LEMMA AgentActs ==
  ASSUME Before, OneLive',
         \/ UNCHANGED hello
         \/ /\ hello'.checks \in {"none", "pending", "passed"}
            /\ Checked /\ hello'.apply # 0 => hello'.checks # "none",
         agentChecks' # "none" \/ ~Checked \/ ~AnyLive'
  PROVE AgentOK'
BY DEF Before, VInv, AgentOK, AgentHasChecks

\* The agent has handled the first request on the wire.
LEMMA WireMoves ==
  ASSUME Before, UNCHANGED <<jobs, run>>, Grows, \A k \in JobIds : Keeps(k),
         wire # <<>>, wire' = Tail(wire),
         \A k \in JobIds : fate[k] = "none" /\ fate'[k] # "none" => Asks(1, "apply", k)
  PROVE WireOK' /\ \A k \in JobIds : Applies(k)' => Applies(k)
<1>1. \A i \in DOMAIN wire' : i + 1 \in DOMAIN wire /\ wire'[i] = wire[i + 1] /\ i \in Nat
  BY Typed
<1>2. \A i \in DOMAIN wire' : \A m, k : Asks(i, m, k)' => Asks(i + 1, m, k)
  BY <1>1 DEF Asks
<1>3. 1 \in DOMAIN wire BY Typed
<1>4. AppliesOnce'
  <2> SUFFICES ASSUME NEW j \in JobIds, NEW i \in DOMAIN wire', Asks(i, "apply", j)'
               PROVE /\ fate'[j] = "none" /\ Sent(j)'
                     /\ \A k \in DOMAIN wire' : Asks(k, "apply", j)' => k = i
    BY DEF AppliesOnce
  <2>1. i + 1 \in DOMAIN wire /\ Asks(i + 1, "apply", j) BY <1>1, <1>2
  <2>2. /\ fate[j] = "none" /\ Sent(j)
        /\ \A k \in DOMAIN wire : Asks(k, "apply", j) => k = i + 1
    BY <2>1 DEF Before, VInv, WireOK, AppliesOnce
  <2>3. ~Asks(1, "apply", j)
    <3>1. i # 0 BY <1>1, Typed
    <3> QED BY <1>1, <1>3, <2>2, <3>1
  <2>4. \A k \in DOMAIN wire' : Asks(k, "apply", j)' => k = i
    BY <1>1, <1>2, <2>2
  <2> QED BY <2>2, <2>3, <2>4 DEF Sent
<1>5. ConfirmsAllowed'
  BY <1>1, <1>2 DEF Before, VInv, WireOK, ConfirmsAllowed, Keeps
<1>6. \A k \in JobIds : Applies(k)' => Applies(k) BY <1>1, <1>2 DEF Applies
<1> QED BY <1>4, <1>5, <1>6 DEF WireOK

\* An answer on its way stays true.
LEMMA AnswerStays ==
  ASSUME Before, UNCHANGED <<run, reply>>, Grows,
         \A k \in JobIds : Applies(k)' => Applies(k),
         \A k \in JobIds : fate[k] = "none" /\ fate'[k] # "none" => Applies(k)
  PROVE AnswerTrue'
<1>1. AnswerTrue BY DEF Before, VInv, TalkOK
<1>2. ASSUME Awaiting, Top.f \in {"awaitApply", "awaitConfirm"} PROVE Top.job \in JobIds
  <2>1. Top \in Frame BY <1>2, Typed, OnTail DEF Awaiting, Top
  <2> QED BY <1>2, <2>1, FrameFields
<1>3. Awaiting' = Awaiting /\ Top' = Top BY DEF Awaiting, Top
<1>4. reply'.code \in {"apply_failed", "deadline_passed"} => TrueResult(reply.res)'
  BY <1>1, Typed, ReplyFields, ResultStays DEF AnswerTrue
<1>5. /\ reply'.code = "noop" => (Top'.f = "awaitApply" /\ fate'[Top'.job] = "noop")
      /\ reply'.code = "confirmed" => (Top'.f = "awaitConfirm" /\ fate'[Top'.job] = "kept")
  BY <1>1, <1>2, <1>3 DEF AnswerTrue, Grows, NoReply
<1>6. ASSUME reply.code = "stale_base"
      PROVE Top'.f = "awaitApply" /\ fate'[Top'.job] = "none" /\ ~Applies(Top.job)'
  <2>1. Top.f = "awaitApply" /\ fate[Top.job] = "none" /\ ~Applies(Top.job) /\ Awaiting
    BY <1>1, <1>6 DEF AnswerTrue, NoReply
  <2>2. PICK j \in JobIds : j = Top.job BY <1>2, <2>1
  <2>3. j = Top'.job BY <1>3, <2>2
  <2>4. fate[j] = "none" /\ ~Applies(j) BY <2>1, <2>2
  <2>5. fate'[j] = "none" /\ ~Applies(j)' BY <2>4
  <2>6. ~Applies(Top.job)' BY <2>3, <2>5 DEF Applies, Asks
  <2> QED BY <1>3, <2>1, <2>3, <2>5, <2>6
<1> QED BY <1>1, <1>3, <1>4, <1>5, <1>6 DEF AnswerTrue

\* What the agent answers is read only if the request is still awaited.
LEMMA TalkMoves ==
  ASSUME Before, UNCHANGED <<jobs, run>>, Grows,
         wire # <<>>, wire' = Tail(wire), NEW a, Answer(a),
         \A k \in JobIds : Applies(k)' => Applies(k),
         \A k \in JobIds : fate[k] = "none" /\ fate'[k] # "none" => Applies(k),
         (reply' = a /\ wire' = <<>> /\ Awaits(Head(wire))) => AnswerTrue'
  PROVE TalkOK'
<1>1. Head(wire) = wire[1] /\ 1 \in DOMAIN wire BY Typed
<1>2. CASE Head(wire).late
  <2>1. UNCHANGED reply BY <1>2 DEF Answer
  <2>2. AnswerTrue' BY <2>1, AnswerStays
  <2>3. LastIsAwaited'
    <3>1. \A i \in DOMAIN wire' :
            /\ i + 1 \in DOMAIN wire /\ wire'[i] = wire[i + 1]
            /\ i + 1 = Len(wire) => i = Len(wire')
      BY Typed
    <3>2. \A r : Awaits(r) => Awaits(r)' BY <2>1 DEF Awaits, Awaiting, Top
    <3> QED BY <3>1, <3>2 DEF Before, VInv, TalkOK, LastIsAwaited
  <2> QED BY <2>2, <2>3 DEF TalkOK
<1>3. CASE ~Head(wire).late
  <2>1. Len(wire) = 1 /\ Awaits(Head(wire))
    BY <1>1, <1>3 DEF Before, VInv, TalkOK, LastIsAwaited
  <2>2. reply' = a /\ wire' = <<>> BY <1>3, <2>1, Typed DEF Answer
  <2>3. AnswerTrue' BY <2>1, <2>2
  <2>4. LastIsAwaited' BY <2>2 DEF LastIsAwaited
  <2> QED BY <2>3, <2>4 DEF TalkOK
<1> QED BY <1>2, <1>3

-----------------------------------------------------------------------------
(* Its answers.                                                            *)

LEMMA Handled ==
  ASSUME Before, UNCHANGED <<jobs, run, hello>>,
         wire # <<>>, wire' = Tail(wire), NEW a, Answer(a),
         \A k \in JobIds : fate'[k] # fate[k] =>
           MayBecome(k) /\ (fate[k] = "none" => Asks(1, "apply", k)),
         results \subseteq results',
         \A r \in results' \ results : TrueResult(r)',
         \A x \in On(queue)' \ On(queue) : TaskTrue(x)',
         OneLive', agentChecks' # "none" \/ ~Checked \/ ~AnyLive',
         (reply' = a /\ wire' = <<>> /\ Awaits(Head(wire))) => AnswerTrue'
  PROVE VInv' /\ Grows /\ AssumesOpen
<1>1. Grows /\ AssumesOpen /\ OutcomesTrue' /\ JobsTrue' /\ \A k \in JobIds : Keeps(k)
  BY RouterActs
<1>2. \A k \in JobIds : fate[k] = "none" /\ fate'[k] # "none" => Asks(1, "apply", k)
  OBVIOUS
<1>3. WireOK' /\ \A k \in JobIds : Applies(k)' => Applies(k)
  BY <1>1, <1>2, WireMoves
<1>4. \A k \in JobIds : fate[k] = "none" /\ fate'[k] # "none" => Applies(k)
  <2>1. 1 \in DOMAIN wire BY Typed
  <2> QED BY <1>2, <2>1 DEF Applies
<1>5. TalkOK' BY <1>1, <1>3, <1>4, TalkMoves
<1>6. AgentOK' BY AgentActs
<1> QED BY <1>1, <1>3, <1>5, <1>6, VParts

\* The answers that tell nothing of a job.
LEMMA PlainAnswer ==
  ASSUME Awaiting, UNCHANGED run,
         reply'.code \in {"busy", "refused", "pending_confirm", "not_reconnected",
                          "checks_pending", "unknown_apply", "rolling_back", "read",
                          "offline", "timeout"}
  PROVE AnswerTrue'
BY DEF AnswerTrue, Awaiting

LEMMA FateOf ==
  ASSUME Before, NEW j \in JobIds, NEW v, fate' = [fate EXCEPT ![j] = v]
  PROVE fate'[j] = v /\ \A k \in JobIds \ {j} : fate'[k] = fate[k]
BY Typed

LEMMA RequestIs ==
  ASSUME Before, NEW m \in {"apply", "confirm", "rollback", "read"}, Received(m)
  PROVE /\ wire # <<>> /\ wire' = Tail(wire) /\ Head(wire) = wire[1] /\ 1 \in DOMAIN wire
        /\ Head(wire).m = m
        /\ m # "read" => Head(wire).job \in JobIds
        /\ m # "read" => Asks(1, m, Head(wire).job)
<1>1. wire # <<>> /\ wire' = Tail(wire) /\ Head(wire).m = m BY DEF Received
<1>2. Head(wire) = wire[1] /\ 1 \in DOMAIN wire /\ Head(wire) \in Request BY <1>1, Typed
<1>3. m # "read" => Head(wire).job \in JobIds BY <1>1, <1>2, RequestFields
<1> QED BY <1>1, <1>2, <1>3 DEF Asks

LEMMA VAgentApply ==
  ASSUME Before, AgentApply
  PROVE VInv' /\ Grows /\ AssumesOpen
<1>1. UNCHANGED <<jobs, run, hello, queue>> /\ On(queue)' = On(queue)
  BY DEF AgentApply, persisted, On
<1>2. /\ wire # <<>> /\ wire' = Tail(wire) /\ Head(wire) = wire[1] /\ 1 \in DOMAIN wire
      /\ Head(wire).m = "apply" /\ Head(wire).job \in JobIds
      /\ Asks(1, "apply", Head(wire).job)
  <2>1. Received("apply") BY DEF AgentApply
  <2> QED BY <2>1, RequestIs
<1>3. PICK j \in JobIds : j = Head(wire).job /\ Asks(1, "apply", j) BY <1>2
<1>4. fate[j] = "none" /\ Sent(j) BY <1>2, <1>3 DEF Before, VInv, WireOK, AppliesOnce
<1>5. OneLive /\ (Checked /\ AnyLive => agentChecks # "none")
  BY DEF Before, VInv, AgentOK, AgentHasChecks
<1>6. Awaits(Head(wire)) => Awaiting /\ Top.f = "awaitApply" /\ Top.job = j
  BY <1>2, <1>3 DEF Awaits
<1>7. CASE /\ UNCHANGED router
           /\ \E c \in {"busy", "stale_base", "refused"} : Answer([code |-> c])
  <2>1. UNCHANGED <<fate, results, agentChecks>> BY <1>7 DEF router
  <2>2. OneLive' /\ (agentChecks' # "none" \/ ~Checked \/ ~AnyLive')
    BY <1>5, <2>1 DEF OneLive, AnyLive, Live
  <2>3. PICK a : Answer(a) /\ a.code \in {"busy", "stale_base", "refused"} BY <1>7
  <2>4. ASSUME reply' = a, wire' = <<>>, Awaits(Head(wire)) PROVE AnswerTrue'
    <3>1. CASE a.code # "stale_base" BY <1>1, <1>6, <2>3, <2>4, <3>1, PlainAnswer
    <3>2. CASE a.code = "stale_base"
      <4>1. ~Applies(Top.job)' BY <2>4 DEF Applies
      <4>2. Top' = Top /\ Awaiting' BY <1>1, <1>6, <2>4 DEF Top, Awaiting
      <4> QED BY <1>4, <1>6, <2>1, <2>4, <3>2, <4>1, <4>2 DEF AnswerTrue
    <3> QED BY <3>1, <3>2
  <2> QED BY <1>1, <1>2, <2>1, <2>2, <2>3, <2>4, Handled
<1>8. CASE /\ results' = results \cup {Outcome(j, "rolled_back", FALSE, uci, NoPartial)}
           /\ Answer([code |-> "apply_failed",
                      res |-> Outcome(j, "rolled_back", FALSE, uci, NoPartial)])
           /\ fate' = [fate EXCEPT ![j] = "restored"] /\ UNCHANGED agentChecks
  <2>0. PICK res : res = Outcome(j, "rolled_back", FALSE, uci, NoPartial) OBVIOUS
  <2>1. fate'[j] = "restored" /\ \A k \in JobIds \ {j} : fate'[k] = fate[k]
    BY <1>8, FateOf
  <2>2. res.job = j /\ res.outcome = "rolled_back" /\ results' = results \cup {res}
    BY <1>8, <2>0 DEF Outcome
  <2>3. TrueResult(res)' BY <2>1, <2>2 DEF TrueResult
  <2>4. OneLive' /\ (agentChecks' # "none" \/ ~Checked \/ ~AnyLive')
    BY <1>5, <1>8, <2>1 DEF OneLive, AnyLive, Live
  <2>5. MayBecome(j) BY <1>4, <1>8, <2>1, <2>2 DEF MayBecome
  <2>6. PICK a : a = [code |-> "apply_failed", res |-> res] OBVIOUS
  <2>7. Answer(a) BY <1>8, <2>0, <2>6 DEF Answer
  <2>8. ASSUME reply' = a, Awaits(Head(wire)) PROVE AnswerTrue'
    <3>1. Awaiting' BY <1>1, <1>6, <2>8 DEF Awaiting
    <3>2. reply'.code = "apply_failed" /\ reply'.res = res BY <2>6, <2>8
    <3>3. TrueResult(reply.res)' BY <2>3, <3>2 DEF TrueResult
    <3> QED BY <3>1, <3>2, <3>3 DEF AnswerTrue
  <2> QED BY <1>1, <1>2, <1>3, <2>1, <2>2, <2>3, <2>4, <2>5, <2>7, <2>8, Handled
<1>9. CASE /\ Answer([code |-> "noop", hash |-> uci]) /\ fate' = [fate EXCEPT ![j] = "noop"]
           /\ UNCHANGED <<agentChecks, results>>
  <2>1. fate'[j] = "noop" /\ \A k \in JobIds \ {j} : fate'[k] = fate[k]
    BY <1>9, FateOf
  <2>2. OneLive' /\ (agentChecks' # "none" \/ ~Checked \/ ~AnyLive')
    BY <1>5, <1>9, <2>1 DEF OneLive, AnyLive, Live
  <2>3. MayBecome(j) BY <1>4, <2>1 DEF MayBecome
  <2>4. PICK a : a = [code |-> "noop", hash |-> uci] OBVIOUS
  <2>5. Answer(a) BY <1>9, <2>4 DEF Answer
  <2>6. ASSUME reply' = a, Awaits(Head(wire)) PROVE AnswerTrue'
    <3>1. Awaiting' /\ Top' = Top BY <1>1, <1>6, <2>6 DEF Awaiting, Top
    <3>2. reply'.code = "noop" BY <2>4, <2>6
    <3> QED BY <1>6, <2>1, <2>6, <3>1, <3>2 DEF AnswerTrue
  <2> QED BY <1>1, <1>2, <1>3, <1>9, <2>1, <2>2, <2>3, <2>5, <2>6, Handled
<1>10. CASE /\ ~AnyLive /\ fate' = [fate EXCEPT ![j] = "live"] /\ UNCHANGED results
            /\ agentChecks' = IF Checked THEN "pending" ELSE "none"
            /\ Answer([code |-> "pending_confirm"])
  <2>1. fate'[j] = "live" /\ \A k \in JobIds \ {j} : fate'[k] = fate[k]
    BY <1>10, FateOf
  <2>2. OneLive' BY <1>10, <2>1 DEF OneLive, AnyLive, Live
  <2>3. MayBecome(j) BY <1>4, <2>1 DEF MayBecome
  <2>4. PICK a : a = [code |-> "pending_confirm"] OBVIOUS
  <2>5. Answer(a) BY <1>10, <2>4 DEF Answer
  <2>6. (reply' = a /\ Awaits(Head(wire))) => AnswerTrue'
    BY <1>1, <1>6, <2>4, PlainAnswer
  <2> QED BY <1>1, <1>2, <1>3, <1>10, <2>1, <2>2, <2>3, <2>5, <2>6, Handled
<1> QED BY <1>3, <1>7, <1>8, <1>9, <1>10 DEF AgentApply

LEMMA VAgentConfirm ==
  ASSUME Before, AgentConfirm
  PROVE VInv' /\ Grows /\ AssumesOpen
<1>1. UNCHANGED <<jobs, run, hello, queue>> /\ On(queue)' = On(queue)
  BY DEF AgentConfirm, persisted, On
<1>2. /\ wire # <<>> /\ wire' = Tail(wire) /\ Head(wire) = wire[1] /\ 1 \in DOMAIN wire
      /\ Head(wire).m = "confirm" /\ Head(wire).job \in JobIds
      /\ Asks(1, "confirm", Head(wire).job)
  <2>1. Received("confirm") BY DEF AgentConfirm
  <2> QED BY <2>1, RequestIs
<1>3. PICK j \in JobIds : j = Head(wire).job /\ Asks(1, "confirm", j) BY <1>2
<1>4. Allowed(j) BY <1>2, <1>3 DEF Before, VInv, WireOK, ConfirmsAllowed
<1>5. OneLive /\ (Checked /\ AnyLive => agentChecks # "none")
  BY DEF Before, VInv, AgentOK, AgentHasChecks
<1>6. Awaits(Head(wire)) => Awaiting /\ Top.f = "awaitConfirm" /\ Top.job = j
  BY <1>2, <1>3 DEF Awaits
<1>7. ASSUME UNCHANGED router, NEW a, Answer(a),
             (reply' = a /\ Awaits(Head(wire))) => AnswerTrue'
      PROVE VInv' /\ Grows /\ AssumesOpen
  <2>1. UNCHANGED <<fate, results, agentChecks>> BY <1>7 DEF router
  <2>2. OneLive' /\ (agentChecks' # "none" \/ ~Checked \/ ~AnyLive')
    BY <1>5, <2>1 DEF OneLive, AnyLive, Live
  <2> QED BY <1>1, <1>2, <1>7, <2>1, <2>2, Handled
<1>8. CASE UNCHANGED router /\ \E r \in results : Answer([code |-> "deadline_passed", res |-> r])
  <2>1. PICK r \in results : Answer([code |-> "deadline_passed", res |-> r]) BY <1>8
  <2>2. PICK a : a = [code |-> "deadline_passed", res |-> r] OBVIOUS
  <2>3. Answer(a) BY <2>1, <2>2 DEF Answer
  <2>4. UNCHANGED fate /\ TrueResult(r)
    BY <1>8 DEF router, Before, VInv, OutcomesTrue
  <2>5. ASSUME reply' = a, Awaits(Head(wire)) PROVE AnswerTrue'
    <3>1. Awaiting' BY <1>1, <1>6, <2>5 DEF Awaiting
    <3>2. reply'.code = "deadline_passed" /\ reply'.res = r BY <2>2, <2>5
    <3>3. TrueResult(reply.res)' BY <2>4, <3>2 DEF TrueResult
    <3> QED BY <3>1, <3>2, <3>3 DEF AnswerTrue
  <2> QED BY <1>7, <1>8, <2>3, <2>5
<1>9. CASE /\ UNCHANGED router
           /\ \E c \in {"unknown_apply", "not_reconnected", "checks_pending"} :
                Answer([code |-> c])
  <2>1. PICK a : Answer(a) /\ a.code \in {"unknown_apply", "not_reconnected", "checks_pending"}
    BY <1>9
  <2>2. (reply' = a /\ Awaits(Head(wire))) => AnswerTrue'
    BY <1>1, <1>6, <2>1, PlainAnswer
  <2> QED BY <1>7, <1>9, <2>1, <2>2
<1>10. CASE /\ Live(j) /\ fate' = [fate EXCEPT ![j] = "kept"] /\ agentChecks' = "none"
            /\ results' = IF KeepsConfirmed
                          THEN results \cup {Outcome(j, "confirmed", FALSE, uci, NoPartial)}
                          ELSE results
            /\ Answer([code |-> "confirmed", hash |-> uci])
  <2>1. fate'[j] = "kept" /\ \A k \in JobIds \ {j} : fate'[k] = fate[k]
    BY <1>10, FateOf
  <2>2. OneLive' /\ ~AnyLive' BY <1>5, <1>10, <2>1 DEF OneLive, AnyLive, Live
  <2>3. fate[j] = "live" /\ MayBecome(j) BY <1>4, <1>10, <2>1 DEF MayBecome, Live, Allowed
  <2>4. results \subseteq results' /\ \A r \in results' \ results : TrueResult(r)'
    BY <1>10, <2>1 DEF Outcome, TrueResult
  <2>5. PICK a : a = [code |-> "confirmed", hash |-> uci] OBVIOUS
  <2>6. Answer(a) BY <1>10, <2>5 DEF Answer
  <2>7. ASSUME reply' = a, Awaits(Head(wire)) PROVE AnswerTrue'
    <3>1. Awaiting' /\ Top' = Top BY <1>1, <1>6, <2>7 DEF Awaiting, Top
    <3>2. reply'.code = "confirmed" BY <2>5, <2>7
    <3> QED BY <1>6, <2>1, <2>7, <3>1, <3>2 DEF AnswerTrue
  <2> QED BY <1>1, <1>2, <1>3, <2>1, <2>2, <2>3, <2>4, <2>6, <2>7, Handled
<1> QED BY <1>3, <1>8, <1>9, <1>10 DEF AgentConfirm

\* The router has its snapshot back: what becomes of the job and of the lists.
LEMMA RestoresJob ==
  ASSUME Before, NEW j \in JobIds, NEW b \in BOOLEAN, Restore(j, b), UNCHANGED jobs
  PROVE /\ fate[j] = "live" /\ fate'[j] = "restored" /\ MayBecome(j)
        /\ \A k \in JobIds \ {j} : fate'[k] = fate[k]
        /\ results \subseteq results' /\ \A r \in results' \ results : TrueResult(r)'
        /\ OneLive' /\ ~AnyLive'
        /\ \E res \in Result : res = Restored(j, b) /\ TrueResult(res)'
<1>1. fate[j] = "live" BY DEF Restore, Live
<1>2. fate'[j] = "restored" /\ \A k \in JobIds \ {j} : fate'[k] = fate[k]
  BY FateOf DEF Restore
<1>3. PICK res : res = Restored(j, b) OBVIOUS
<1>4. res.job = j /\ res.outcome = "rolled_back" /\ results' = results \cup {res}
  BY <1>3 DEF Restored, Outcome, Restore
<1>5. TrueResult(res)' BY <1>2, <1>4 DEF TrueResult
<1>6. MayBecome(j)
  BY <1>1, <1>2, <1>4 DEF MayBecome, Before, VInv, JobsTrue, JobTrue, Untouched
<1>7. OneLive' /\ ~AnyLive'
  BY <1>1, <1>2 DEF Before, VInv, AgentOK, OneLive, AnyLive, Live
<1>8. Restored(j, b) \in Result BY RestoredIsResult DEF Before, IInv, TypeInv
<1> QED BY <1>1, <1>2, <1>3, <1>4, <1>5, <1>6, <1>7, <1>8

-----------------------------------------------------------------------------
(* What it does of its own.                                                *)

\* The router acts of its own; the link and what is awaited stay.
LEMMA Unasked ==
  ASSUME Before, UNCHANGED <<jobs, run, wire, reply>>,
         hello'.results \subseteq hello.results \cup results,
         \/ UNCHANGED hello
         \/ /\ hello'.checks \in {"none", "pending", "passed"}
            /\ Checked /\ hello'.apply # 0 => hello'.checks # "none",
         \A k \in JobIds : fate'[k] # fate[k] => MayBecome(k) /\ fate[k] # "none",
         results \subseteq results',
         \A r \in results' \ results : TrueResult(r)',
         \A x \in On(queue)' \ On(queue) : TaskTrue(x)',
         OneLive', agentChecks' # "none" \/ ~Checked \/ ~AnyLive'
  PROVE VInv' /\ Grows /\ AssumesOpen
<1>1. Grows /\ AssumesOpen /\ OutcomesTrue' /\ JobsTrue' /\ \A k \in JobIds : Keeps(k)
  BY RouterActs
<1>2. \A k \in JobIds : fate[k] = "none" => fate'[k] = "none" OBVIOUS
<1>3. AppliesOnce'
  BY <1>2 DEF Before, VInv, WireOK, AppliesOnce, Asks, Sent
<1>4. ConfirmsAllowed' BY <1>1 DEF Before, VInv, WireOK, ConfirmsAllowed, Asks, Keeps
<1>5. \A k \in JobIds : Applies(k)' => Applies(k) BY DEF Applies, Asks
<1>6. AnswerTrue' BY <1>1, <1>2, <1>5, AnswerStays
<1>7. LastIsAwaited'
  <2>1. \A r : Awaits(r) => Awaits(r)' BY DEF Awaits, Awaiting, Top
  <2> QED BY <2>1 DEF Before, VInv, TalkOK, LastIsAwaited
<1>8. AgentOK' BY AgentActs
<1> QED BY <1>1, <1>3, <1>4, <1>6, <1>7, <1>8, VParts DEF WireOK, TalkOK

\* The router is left alone.
LEMMA RouterStays ==
  ASSUME Before, UNCHANGED <<jobs, run, wire, reply, hello, fate, results>>,
         \A x \in On(queue)' \ On(queue) : TaskTrue(x)',
         agentChecks' # "none" \/ UNCHANGED agentChecks
  PROVE VInv' /\ Grows /\ AssumesOpen
<1>1. OneLive' /\ (agentChecks' # "none" \/ ~Checked \/ ~AnyLive')
  BY DEF Before, VInv, AgentOK, AgentHasChecks, OneLive, AnyLive, Live
<1> QED BY <1>1, Unasked

LEMMA Notified ==
  ASSUME Before, NEW task \in Task, TaskTrue(task)', Notify(task)
  PROVE \A x \in On(queue)' \ On(queue) : TaskTrue(x)'
BY NewTask DEF Notify

LEMMA RestoreNotified ==
  ASSUME Before, NEW j \in JobIds, NEW b \in BOOLEAN, RestoreAndNotify(j, b),
         UNCHANGED jobs
  PROVE \A x \in On(queue)' \ On(queue) : TaskTrue(x)'
<1>1. PICK res \in Result : res = Restored(j, b) /\ TrueResult(res)'
  BY RestoresJob DEF RestoreAndNotify
<1>2. PICK task \in Task : task = [t |-> "result", res |-> res] BY TaskMakes
<1>3. Notify(task) BY <1>1, <1>2 DEF RestoreAndNotify, Notify
<1>4. TaskTrue(task)'
  <2>1. task.t = "result" /\ task.res = res BY <1>2
  <2>2. TrueResult(task.res)' BY <1>1, <2>1 DEF TrueResult
  <2> QED BY <2>2 DEF TaskTrue
<1> QED BY <1>3, <1>4, Notified

LEMMA VAgentRollback ==
  ASSUME Before, AgentRollback
  PROVE VInv' /\ Grows /\ AssumesOpen
<1>1. UNCHANGED <<jobs, run, hello>> BY DEF AgentRollback, persisted
<1>2. /\ wire # <<>> /\ wire' = Tail(wire) /\ Head(wire).job \in JobIds
      /\ Head(wire).m = "rollback"
  <2>1. Received("rollback") BY DEF AgentRollback
  <2> QED BY <2>1, RequestIs
<1>3. PICK j \in JobIds : j = Head(wire).job BY <1>2
<1>4. Awaits(Head(wire)) => Awaiting BY DEF Awaits
<1>5. CASE RestoreAndNotify(j, FALSE) /\ Answer([code |-> "rolling_back"])
  <2>1. PICK a : a = [code |-> "rolling_back"] OBVIOUS
  <2>2. Answer(a) BY <1>5, <2>1 DEF Answer
  <2>3. (reply' = a /\ Awaits(Head(wire))) => AnswerTrue'
    BY <1>1, <1>4, <2>1, PlainAnswer
  <2>4. /\ fate[j] = "live" /\ MayBecome(j) /\ \A k \in JobIds \ {j} : fate'[k] = fate[k]
        /\ results \subseteq results' /\ \A r \in results' \ results : TrueResult(r)'
        /\ OneLive' /\ ~AnyLive'
    BY <1>1, <1>5, RestoresJob DEF RestoreAndNotify
  <2>5. \A x \in On(queue)' \ On(queue) : TaskTrue(x)' BY <1>1, <1>5, RestoreNotified
  <2> QED BY <1>1, <1>2, <2>2, <2>3, <2>4, <2>5, Handled
<1>6. CASE Answer([code |-> "unknown_apply"]) /\ UNCHANGED <<queue, router>>
  <2>1. PICK a : a = [code |-> "unknown_apply"] OBVIOUS
  <2>2. Answer(a) BY <1>6, <2>1 DEF Answer
  <2>3. (reply' = a /\ Awaits(Head(wire))) => AnswerTrue'
    BY <1>1, <1>4, <2>1, PlainAnswer
  <2>4. UNCHANGED <<fate, results, agentChecks>> /\ On(queue)' = On(queue)
    BY <1>6 DEF router, On
  <2>5. OneLive' /\ (agentChecks' # "none" \/ ~Checked \/ ~AnyLive')
    BY <2>4 DEF Before, VInv, AgentOK, AgentHasChecks, OneLive, AnyLive, Live
  <2> QED BY <1>1, <1>2, <2>2, <2>3, <2>4, <2>5, Handled
<1> QED BY <1>3, <1>5, <1>6 DEF AgentRollback

LEMMA VAgentRead ==
  ASSUME Before, AgentRead
  PROVE VInv' /\ Grows /\ AssumesOpen
<1>1. UNCHANGED <<jobs, run, hello, queue, fate, results, agentChecks>>
      /\ On(queue)' = On(queue)
  BY DEF AgentRead, persisted, router, On
<1>2. wire # <<>> /\ wire' = Tail(wire)
  <2>1. Received("read") BY DEF AgentRead
  <2> QED BY <2>1, RequestIs
<1>3. PICK a : a = [code |-> "read", hash |-> uci] OBVIOUS
<1>4. Answer(a) BY <1>3 DEF AgentRead, Answer
<1>5. (reply' = a /\ Awaits(Head(wire))) => AnswerTrue'
  BY <1>1, <1>3, PlainAnswer DEF Awaits
<1>6. OneLive' /\ (agentChecks' # "none" \/ ~Checked \/ ~AnyLive')
  BY <1>1 DEF Before, VInv, AgentOK, AgentHasChecks, OneLive, AnyLive, Live
<1> QED BY <1>1, <1>2, <1>4, <1>5, <1>6, Handled

LEMMA VAgent ==
  ASSUME Before, Agent
  PROVE VInv' /\ Grows /\ AssumesOpen
<1>1. ASSUME NEW j \in JobIds, NEW b \in BOOLEAN, RestoreAndNotify(j, b),
             UNCHANGED <<jobs, run, hello, wire, reply>>
      PROVE VInv' /\ Grows /\ AssumesOpen
  <2>1. /\ fate[j] = "live" /\ MayBecome(j) /\ \A k \in JobIds \ {j} : fate'[k] = fate[k]
        /\ results \subseteq results' /\ \A r \in results' \ results : TrueResult(r)'
        /\ OneLive' /\ ~AnyLive'
    BY <1>1, RestoresJob DEF RestoreAndNotify
  <2>2. \A x \in On(queue)' \ On(queue) : TaskTrue(x)' BY <1>1, RestoreNotified
  <2> QED BY <1>1, <2>1, <2>2, Unasked
<1>2. ASSUME NEW j \in JobIds, AgentDeadline(j) \/ ChecksFail(j)
      PROVE VInv' /\ Grows /\ AssumesOpen
  <2>1. /\ UNCHANGED <<jobs, run, hello, wire, reply>>
        /\ \E b \in BOOLEAN : RestoreAndNotify(j, b)
    BY <1>2 DEF AgentDeadline, ChecksFail, persisted, link
  <2> QED BY <1>1, <2>1
<1>3. ASSUME NEW j \in JobIds, ChecksPass(j)
      PROVE VInv' /\ Grows /\ AssumesOpen
  <2>1. UNCHANGED <<jobs, run, hello, wire, reply, fate, results>> /\ agentChecks' = "passed"
    BY <1>3 DEF ChecksPass, persisted, link
  <2>2. PICK task \in Task : task = [t |-> "checks", job |-> j, state |-> "passed"]
    BY TaskMakes
  <2>3. TaskTrue(task)' BY <2>2 DEF TaskTrue
  <2>4. Notify(task) BY <1>3, <2>2 DEF ChecksPass, Notify
  <2>5. \A x \in On(queue)' \ On(queue) : TaskTrue(x)' BY <2>3, <2>4, Notified
  <2> QED BY <2>1, <2>5, RouterStays
<1> QED BY <1>2, <1>3, VAgentApply, VAgentConfirm, VAgentRollback, VAgentRead DEF Agent

-----------------------------------------------------------------------------
(* The link, reboots and restarts.                                         *)

\* The link is gone, and with it what was on the wire.
LEMMA Disconnects ==
  ASSUME Before, UNCHANGED <<jobs, run, queue>>, Closed,
         UNCHANGED reply \/ (Awaiting /\ reply' = [code |-> "offline"]),
         \A k \in JobIds : fate'[k] # fate[k] => MayBecome(k) /\ fate[k] # "none",
         results \subseteq results',
         \A r \in results' \ results : TrueResult(r)',
         OneLive', agentChecks' # "none" \/ ~Checked \/ ~AnyLive'
  PROVE VInv' /\ Grows /\ AssumesOpen
<1>1. /\ wire' = <<>> /\ hello'.results = {} /\ hello'.apply = 0 /\ hello'.checks = "none"
      /\ On(queue)' = On(queue)
  BY DEF Closed, NoHello, On
<1>2. Grows /\ AssumesOpen /\ OutcomesTrue' /\ JobsTrue' BY <1>1, RouterActs
<1>3. WireOK' /\ LastIsAwaited' /\ \A k \in JobIds : ~Applies(k)'
  BY <1>1 DEF WireOK, AppliesOnce, ConfirmsAllowed, LastIsAwaited, Applies
<1>4. AnswerTrue'
  <2>1. CASE UNCHANGED reply BY <1>2, <1>3, <2>1, AnswerStays
  <2>2. CASE Awaiting /\ reply' = [code |-> "offline"] BY <2>2, PlainAnswer
  <2> QED BY <2>1, <2>2
<1>5. AgentOK' BY <1>1, AgentActs
<1> QED BY <1>2, <1>3, <1>4, <1>5, VParts DEF TalkOK

LEMMA VReboot ==
  ASSUME Before, Drop \/ Reboot
  PROVE VInv' /\ Grows /\ AssumesOpen
<1>1. /\ UNCHANGED <<jobs, run, queue>> /\ Closed
      /\ UNCHANGED reply \/ (Awaiting /\ reply' = [code |-> "offline"])
  BY DEF Drop, Reboot, persisted
<1>2. CASE Drop
  <2>1. UNCHANGED <<fate, results, agentChecks>> BY <1>2 DEF Drop, router
  <2>2. OneLive' /\ (agentChecks' # "none" \/ ~Checked \/ ~AnyLive')
    BY <2>1 DEF Before, VInv, AgentOK, AgentHasChecks, OneLive, AnyLive, Live
  <2> QED BY <1>1, <2>1, <2>2, Disconnects
<1>3. CASE Reboot
  <2>1. PICK j \in JobIds : Restore(j, FALSE) BY <1>3 DEF Reboot
  <2>2. /\ fate[j] = "live" /\ MayBecome(j) /\ \A k \in JobIds \ {j} : fate'[k] = fate[k]
        /\ results \subseteq results' /\ \A r \in results' \ results : TrueResult(r)'
        /\ OneLive' /\ ~AnyLive'
    BY <1>1, <2>1, RestoresJob
  <2> QED BY <1>1, <2>2, Disconnects
<1> QED BY <1>2, <1>3

LEMMA VDial ==
  ASSUME Before, Dial
  PROVE VInv' /\ Grows /\ AssumesOpen
<1>1. UNCHANGED <<jobs, run, wire, reply, fate, results, agentChecks>>
  BY DEF Dial, persisted, router
<1>2. /\ hello'.results = results /\ hello'.checks = agentChecks
      /\ hello'.apply # 0 => AnyLive
      /\ queue' = Enqueued(queue, [t |-> "hello"])
  BY DEF Dial
<1>3. agentChecks \in {"none", "pending", "passed"}
  BY DEF Before, IInv, TypeInv, TypeOK, RouterOK
<1>4. OneLive /\ (Checked /\ AnyLive => agentChecks # "none")
  BY DEF Before, VInv, AgentOK, AgentHasChecks
<1>5. OneLive' /\ (agentChecks' # "none" \/ ~Checked \/ ~AnyLive')
  BY <1>1, <1>4 DEF OneLive, AnyLive, Live
<1>6. PICK task \in Task : task = [t |-> "hello"] BY TaskMakes
<1>7. TaskTrue(task)' BY <1>6 DEF TaskTrue
<1>8. \A x \in On(queue)' \ On(queue) : TaskTrue(x)' BY <1>2, <1>6, <1>7, NewTask
<1> QED BY <1>1, <1>2, <1>3, <1>4, <1>5, <1>8, Unasked

LEMMA VTimeout ==
  ASSUME Before, Timeout
  PROVE VInv' /\ Grows /\ AssumesOpen
<1>1. /\ UNCHANGED <<jobs, run, hello, queue, fate, results, agentChecks>>
      /\ On(queue)' = On(queue) /\ On(run)' = On(run)
      /\ Awaiting /\ reply' = [code |-> "timeout"]
  BY DEF Timeout, persisted, router, On
<1>2. /\ DOMAIN wire' = DOMAIN wire
      /\ \A i \in DOMAIN wire : wire'[i] = [wire[i] EXCEPT !.late = TRUE]
  BY DEF Timeout
<1>3. ASSUME NEW i \in DOMAIN wire
      PROVE /\ wire'[i].late
            /\ \A m \in {"apply", "confirm"} : \A j : Asks(i, m, j)' <=> Asks(i, m, j)
  <2>1. PICK r \in Request : r = wire[i] BY Typed
  <2>2. /\ [r EXCEPT !.late = TRUE].late /\ [r EXCEPT !.late = TRUE].m = r.m
        /\ r.m \in {"apply", "confirm"} => [r EXCEPT !.late = TRUE].job = r.job
    BY DEF Request
  <2>3. wire'[i].late /\ wire'[i].m = wire[i].m
        /\ (wire[i].m \in {"apply", "confirm"} => wire'[i].job = wire[i].job)
    BY <1>2, <2>1, <2>2
  <2> QED BY <2>3 DEF Asks
<1>4. JobsTrue' /\ (\A j \in JobIds : Keeps(j)) /\ Grows /\ AssumesOpen
  BY <1>1, SameJobs
<1>5. OutcomesTrue' BY <1>1, <1>4, OutcomesStay
<1>6. WireOK'
  <2>1. AppliesOnce' BY <1>1, <1>2, <1>3 DEF Before, VInv, WireOK, AppliesOnce, Sent
  <2>2. ConfirmsAllowed'
    BY <1>2, <1>3, <1>4 DEF Before, VInv, WireOK, ConfirmsAllowed, Keeps
  <2> QED BY <2>1, <2>2 DEF WireOK
<1>7. TalkOK'
  <2>1. LastIsAwaited' BY <1>2, <1>3 DEF LastIsAwaited
  <2> QED BY <1>1, <2>1, PlainAnswer DEF TalkOK
<1> QED BY <1>1, <1>4, <1>5, <1>6, <1>7, AgentStays, VParts

LEMMA VCrash ==
  ASSUME Before, Crash
  PROVE VInv' /\ Grows /\ AssumesOpen
<1>1. /\ UNCHANGED <<jobs, fate, results, agentChecks>> /\ reply' = NoReply
      /\ wire' = <<>> /\ hello'.results = {} /\ hello'.apply = 0 /\ hello'.checks = "none"
      /\ On(queue)' = {} /\ On(run)' = {}
  BY DEF Crash, Closed, NoHello, persisted, router, On
<1>2. JobsTrue' /\ Grows /\ AssumesOpen BY <1>1, SameJobs
<1>3. OutcomesTrue' BY <1>1, <1>2, OutcomesStay
<1>4. WireOK' /\ LastIsAwaited'
  BY <1>1 DEF WireOK, AppliesOnce, ConfirmsAllowed, LastIsAwaited
<1>5. AnswerTrue' BY <1>1 DEF AnswerTrue, NoReply
<1>6. AgentOK'
  BY <1>1 DEF Before, VInv, AgentOK, AgentHasChecks, OneLive, AnyLive, Live
<1> QED BY <1>2, <1>3, <1>4, <1>5, <1>6, VParts DEF TalkOK

LEMMA VEnvironment ==
  ASSUME Before, Environment
  PROVE VInv' /\ Grows /\ AssumesOpen
<1>1. CASE AgentPush \/ \E j \in JobIds : WindowCloses(j) \/ WindowEnds(j)
  <2>1. /\ UNCHANGED <<jobs, run, wire, reply, hello, fate, results, agentChecks, queue>>
        /\ On(queue)' = On(queue)
    BY <1>1 DEF AgentPush, WindowCloses, WindowEnds, persisted, memory, link, router, On
  <2> QED BY <2>1, RouterStays
<1>2. CASE PushIngested
  <2>1. UNCHANGED <<jobs, run, wire, reply, hello, fate, results, agentChecks>>
    BY <1>2 DEF PushIngested, persisted, link, router
  <2>2. ingest \in Sess BY DEF Before, IInv, TypeInv, TypeOK, MemoryOK
  <2>3. PICK task \in Task : task = [t |-> "push", sess |-> ingest] BY <2>2, TaskMakes
  <2>4. TaskTrue(task)' BY <2>3 DEF TaskTrue
  <2>5. queue' = Enqueued(queue, task) BY <1>2, <2>3 DEF PushIngested
  <2>6. \A x \in On(queue)' \ On(queue) : TaskTrue(x)' BY <2>4, <2>5, NewTask
  <2> QED BY <2>1, <2>6, RouterStays
<1>3. ASSUME NEW s \in Sections, NEW c \in Contents, RouterEdit(s, c)
      PROVE VInv' /\ Grows /\ AssumesOpen
  <2>1. /\ UNCHANGED <<jobs, run, wire, reply, hello, fate, results, agentChecks>>
        /\ UNCHANGED queue \/ queue' = Enqueued(queue, [t |-> "read"])
    BY <1>3 DEF RouterEdit, Notify, persisted, link
  <2> QED BY <2>1, ReadQueued, RouterStays
<1> QED BY <1>1, <1>2, <1>3, VReboot, VDial, VTimeout, VCrash DEF Environment

-----------------------------------------------------------------------------
(* The theorems.                                                           *)

LEMMA VInit ==
  ASSUME Init
  PROVE VInv
<1>1. /\ \A j \in JobIds : /\ jobs[j].state = "none" /\ ~jobs[j].agentHalf
                           /\ ~jobs[j].assumed /\ fate[j] = "none"
      /\ run = <<>> /\ queue = <<>> /\ wire = <<>> /\ reply = NoReply
      /\ results = {} /\ hello = NoHello
  BY DEF Init
<1>2. OutcomesTrue BY <1>1 DEF OutcomesTrue, On, NoHello
<1>3. JobsTrue
  BY <1>1 DEF JobsTrue, JobTrue, Untouched, KeptIfAllowed, HasChecks, VerdictOf, WaitsFor
<1>4. WireOK BY <1>1 DEF WireOK, AppliesOnce, ConfirmsAllowed
<1>5. TalkOK BY <1>1 DEF TalkOK, LastIsAwaited, AnswerTrue, NoReply
<1>6. AgentOK BY <1>1 DEF AgentOK, OneLive, AgentHasChecks, AnyLive, Live, NoHello
<1> QED BY <1>2, <1>3, <1>4, <1>5, <1>6 DEF VInv

LEMMA VNext ==
  ASSUME IInv, VInv, [Next]_vars
  PROVE VInv' /\ Grows /\ AssumesOpen /\ Before
<1>1. Before BY INext, GoodNext DEF Before, Good
<1>2. CASE UNCHANGED vars
  <2>1. /\ UNCHANGED <<jobs, run, wire, reply, hello, fate, results, agentChecks>>
        /\ UNCHANGED queue
    BY <1>2 DEF vars, persisted, memory, link, router
  <2>2. On(queue)' = On(queue) BY <2>1 DEF On
  <2> QED BY <1>1, <2>1, <2>2, RouterStays
<1> QED BY <1>1, <1>2, VController, VAdmin, VTick, VAgent, VEnvironment DEF Next

LEMMA VInvariance == Spec => []VInv
<1>1. Init => VInv BY VInit
<1>2. IInv /\ VInv /\ [Next]_vars => VInv' BY VNext
<1> QED BY <1>1, <1>2, Invariance, PTL DEF Spec

\* The router keeps a change only with every gate open: the agent back on a newer
\* session and a push ingested since (which may have been sent on the old one),
\* the admin where the mode asks for it, and the checks.
THEOREM KeptWithEveryGateAlways == Spec => []KeptWithEveryGate
<1>1. VInv => KeptWithEveryGate
  BY DEF VInv, JobsTrue, JobTrue, KeptIfAllowed, Allowed, Gates, KeptWithEveryGate
<1> QED BY <1>1, VInvariance, PTL

\* What the controller reports of a job is what the router did.
THEOREM VerdictIsTrueAlways == Spec => []VerdictIsTrue
<1>1. VInv => VerdictIsTrue
  BY DEF VInv, JobsTrue, JobTrue, VerdictOf, VerdictIsTrue
<1> QED BY <1>1, VInvariance, PTL

\* The agent holds the outcome of a job it restored until the job is settled.
THEOREM ResultWaitsAlways == Spec => []ResultWaitsForSettlement
<1>1. VInv => ResultWaitsForSettlement
  BY DEF VInv, JobsTrue, JobTrue, WaitsFor, ResultWaitsForSettlement
<1> QED BY <1>1, VInvariance, PTL

\* What became of a job on the router is final: it is committed at most once.
THEOREM CommittedOnceAlways == Spec => CommittedOnce
<1>1. IInv /\ VInv /\ [Next]_vars =>
        [\A j \in JobIds : fate[j] \notin {"none", "live"} => fate'[j] = fate[j]]_fate
  BY VNext DEF Grows
<1> QED BY <1>1, Invariance, VInvariance, PTL DEF Spec, CommittedOnce

-----------------------------------------------------------------------------
(* The steps, as CommitConfirm sees them: nothing, one job of the          *)
(* controller, or one job of the router.                                   *)

\* A job is requested, its halves are given, it ends, or its end becomes known.
Requested(j) ==
  /\ jobs[j].state = "none" /\ jobs'[j].state = "queued"
  /\ jobs'[j].agentHalf = jobs[j].agentHalf
HalvesStay(j) ==
  /\ jobs'[j].agentHalf = jobs[j].agentHalf /\ jobs'[j].adminHalf = jobs[j].adminHalf
  /\ jobs'[j].mode = jobs[j].mode
GoesOn(j) ==
  /\ Open(j) /\ Open(j)'
  /\ jobs'[j].mode = jobs[j].mode
  /\ jobs[j].agentHalf => jobs'[j].agentHalf
  /\ jobs[j].adminHalf => jobs'[j].adminHalf
Ends(j) == Open(j) /\ jobs'[j].state \in Finished /\ HalvesStay(j)
IsToldOf(j) == ~Open(j) /\ SameState(j) /\ HalvesStay(j)
JobSays(j) ==
  /\ UNCHANGED fate /\ \A k \in JobIds \ {j} : jobs'[k] = jobs[k]
  /\ Requested(j) \/ GoesOn(j) \/ Ends(j) \/ IsToldOf(j)

RouterDoes(j) ==
  /\ UNCHANGED jobs /\ Sent(j)
  /\ \E r : /\ fate' = [fate EXCEPT ![j] = r]
            /\ \/ fate[j] = "none" /\ r = "live" /\ ~AnyLive
               \/ fate[j] = "none" /\ r = "noop"
               \/ fate[j] = "live" /\ r = "kept" /\ Gates(j)
               \/ fate[j] \in {"none", "live"} /\ r = "restored"

Tells ==
  UNCHANGED <<jobs, fate>> \/ \E j \in JobIds : JobSays(j) \/ RouterDoes(j)

Known == Before /\ VInv' /\ AssumesOpen

LEMMA VerdictIs ==
  ASSUME NEW j \in JobIds
  PROVE /\ (Verdict(j) = "none") <=> (jobs[j].state = "none")
        /\ (Verdict(j) = "open") <=> Open(j)
BY DEF Verdict, Open

LEMMA SameVerdict ==
  ASSUME NEW j \in JobIds, jobs'[j] = jobs[j]
  PROVE Verdict(j)' = Verdict(j) /\ Agreed(j)' = Agreed(j)
BY DEF Verdict, Open, Agreed

LEMMA RequestMaps ==
  ASSUME Known, NEW j \in JobIds, JobSays(j), Requested(j)
  PROVE Promise!Request(j)
<1>1. \A k \in JobIds \ {j} : Verdict(k)' = Verdict(k) /\ Agreed(k)' = Agreed(k)
  BY SameVerdict DEF JobSays
<1>2. Verdict(j) = "none" /\ Verdict(j)' = "open" BY DEF Requested, Verdict, Open
<1>4. ~jobs[j].agentHalf /\ ~jobs'[j].agentHalf
  BY DEF Known, Before, VInv, JobsTrue, JobTrue, Untouched, Requested
<1> QED BY <1>1, <1>2, <1>4, VerdictIs DEF Promise!Request, Promise!Says, JobSays, Agreed

LEMMA OthersSay ==
  ASSUME NEW j \in JobIds, JobSays(j)
  PROVE \A k \in JobIds \ {j} : Verdict(k)' = Verdict(k) /\ Agreed(k)' = Agreed(k)
BY SameVerdict DEF JobSays

LEMMA GoesOnMaps ==
  ASSUME Known, NEW j \in JobIds, JobSays(j), GoesOn(j)
  PROVE Promise!Agree(j) \/ UNCHANGED Promise!vars
<1>1. UNCHANGED fate BY DEF JobSays
<1>2. Verdict(j) = "open" /\ Verdict(j)' = "open"
  BY DEF GoesOn, Verdict, Open
<1>3. Agreed(j) => Agreed(j)' BY DEF GoesOn, Agreed
<1>4. CASE Agreed(j)' <=> Agreed(j)
  BY <1>1, <1>2, <1>4, OthersSay DEF Promise!vars
<1>5. CASE ~Agreed(j) /\ Agreed(j)'
  BY <1>1, <1>2, <1>5, OthersSay DEF Promise!Agree
<1> QED BY <1>3, <1>4, <1>5

LEMMA EndsMaps ==
  ASSUME Known, NEW j \in JobIds, JobSays(j), Ends(j)
  PROVE Promise!Confirm(j) \/ Promise!RollBack(j) \/ Promise!GiveUp(j)
<1>1. UNCHANGED fate BY DEF JobSays
<1>2. Verdict(j) = "open" BY DEF Ends, Verdict, Open
<1>3. Agreed(j)' <=> Agreed(j) BY DEF Ends, HalvesStay, Agreed
<1>4. VerdictOf(j)' BY DEF Known, VInv, JobsTrue, JobTrue
<1>5. \/ Verdict(j)' = "confirmed" /\ fate[j] \in {"kept", "noop"}
      \/ Verdict(j)' = "rolled_back" /\ fate[j] = "restored"
      \/ Verdict(j)' = "given_up"
  BY <1>1, <1>4 DEF Ends, Finished, Verdict, Open, VerdictOf
<1>6. \A v : Verdict(j)' = v => Promise!Says(j, v)
  BY <1>1, <1>3, OthersSay DEF Promise!Says
<1> QED BY <1>2, <1>5, <1>6 DEF Promise!Confirm, Promise!RollBack, Promise!GiveUp

LEMMA IsToldMaps ==
  ASSUME Known, NEW j \in JobIds, JobSays(j), IsToldOf(j)
  PROVE Promise!RollBack(j) \/ UNCHANGED Promise!vars
<1>1. UNCHANGED fate BY DEF JobSays
<1>2. Agreed(j)' <=> Agreed(j) BY DEF IsToldOf, HalvesStay, Agreed
<1>3. CASE Verdict(j)' = Verdict(j)
  BY <1>1, <1>2, <1>3, OthersSay DEF Promise!vars
<1>4. CASE Verdict(j)' # Verdict(j)
  <2>1. /\ Verdict(j) = "given_up" /\ Verdict(j)' = "rolled_back"
        /\ jobs'[j].state = "rolled_back" /\ ~jobs'[j].assumed
    BY <1>4 DEF IsToldOf, SameState, Verdict, Open, Known, AssumesOpen
  <2>2. fate[j] = "restored"
    BY <1>1, <2>1 DEF Known, VInv, JobsTrue, JobTrue, VerdictOf
  <2>3. Promise!Says(j, "rolled_back") BY <1>1, <1>2, <2>1, OthersSay DEF Promise!Says
  <2> QED BY <2>1, <2>2, <2>3 DEF Promise!RollBack
<1> QED BY <1>3, <1>4

LEMMA RouterMaps ==
  ASSUME Known, NEW j \in JobIds, RouterDoes(j)
  PROVE \/ Promise!Commit(j) \/ Promise!Nothing(j)
        \/ Promise!Keep(j) \/ Promise!Restore(j)
<1>1. \A k \in JobIds : Verdict(k)' = Verdict(k) /\ Agreed(k)' = Agreed(k)
  BY SameVerdict DEF RouterDoes
<1>2. Verdict(j) # "none" BY VerdictIs DEF RouterDoes, Sent
<1>3. PICK r : /\ fate' = [fate EXCEPT ![j] = r]
               /\ \/ fate[j] = "none" /\ r = "live" /\ ~AnyLive
                  \/ fate[j] = "none" /\ r = "noop"
                  \/ fate[j] = "live" /\ r = "kept" /\ Gates(j)
                  \/ fate[j] \in {"none", "live"} /\ r = "restored"
  BY DEF RouterDoes
<1>5. Promise!Does(j, r) BY <1>1, <1>3 DEF Promise!Does
<1>4. Gates(j) => Agreed(j) BY DEF Gates, Agreed
<1> QED BY <1>2, <1>3, <1>4, <1>5
        DEF Promise!Commit, Promise!Nothing, Promise!Keep, Promise!Restore,
            AnyLive, Live

LEMMA TellsMaps ==
  ASSUME Known, Tells
  PROVE [Promise!Next]_(Promise!vars)
<1>1. CASE UNCHANGED <<jobs, fate>>
  <2>1. \A k \in JobIds : Verdict(k)' = Verdict(k) /\ Agreed(k)' = Agreed(k)
    BY <1>1, SameVerdict
  <2> QED BY <1>1, <2>1 DEF Promise!vars
<1>2. ASSUME NEW j \in JobIds, JobSays(j) PROVE [Promise!Next]_(Promise!vars)
  <2>1. Requested(j) \/ GoesOn(j) \/ Ends(j) \/ IsToldOf(j) BY <1>2 DEF JobSays
  <2> QED BY <1>2, <2>1, RequestMaps, GoesOnMaps, EndsMaps, IsToldMaps DEF Promise!Next
<1>3. ASSUME NEW j \in JobIds, RouterDoes(j) PROVE [Promise!Next]_(Promise!vars)
  BY <1>3, RouterMaps DEF Promise!Next
<1> QED BY <1>1, <1>2, <1>3 DEF Tells

-----------------------------------------------------------------------------
(* Each step of the controller says at most one thing of one job.          *)

LEMMA Says ==
  ASSUME Before, NEW j \in JobIds, NEW x, jobs' = [jobs EXCEPT ![j] = x], UNCHANGED fate,
         \/ jobs[j].state = "none" /\ x.state = "queued" /\ x.agentHalf = jobs[j].agentHalf
         \/ /\ Open(j) /\ x.state \in {"queued", "sending", "pending_confirm"}
            /\ x.mode = jobs[j].mode
            /\ jobs[j].agentHalf => x.agentHalf
            /\ jobs[j].adminHalf => x.adminHalf
         \/ /\ IF Open(j) THEN x.state \in Finished ELSE x.state = jobs[j].state
            /\ x.mode = jobs[j].mode
            /\ x.agentHalf = jobs[j].agentHalf /\ x.adminHalf = jobs[j].adminHalf
  PROVE Tells
<1>1. jobs'[j] = x /\ \A k \in JobIds \ {j} : jobs'[k] = jobs[k] BY Typed
<1>2. Requested(j) \/ GoesOn(j) \/ Ends(j) \/ IsToldOf(j)
  BY <1>1 DEF Requested, GoesOn, Ends, IsToldOf, HalvesStay, SameState, Open
<1> QED BY <1>1, <1>2 DEF JobSays, Tells

\* A job ends.
LEMMA EndSays ==
  ASSUME Before, NEW j \in JobIds, Open(j), NEW s \in Finished,
         jobs' = [jobs EXCEPT ![j].state = s], UNCHANGED fate
  PROVE Tells
<1>. DEFINE x == [jobs[j] EXCEPT !.state = s]
<1>1. jobs' = [jobs EXCEPT ![j] = x] OBVIOUS
<1>2. /\ x.state = s /\ x.mode = jobs[j].mode
      /\ x.agentHalf = jobs[j].agentHalf /\ x.adminHalf = jobs[j].adminHalf
  BY Typed DEF Job
<1>. HIDE DEF x
<1> QED BY <1>1, <1>2, Says

LEMMA SettleSays ==
  ASSUME Before, NEW res \in Result, SettleRolledBack(res.job, res), UNCHANGED fate
  PROVE Tells
<1>. DEFINE j == res.job
            x == [jobs[j] EXCEPT !.state = IF Open(j) THEN "rolled_back" ELSE @,
                                 !.assumed = FALSE,
                                 !.checks = IF res.checksFailed /\ @ # "overridden"
                                            THEN "failed" ELSE @]
<1>1. j \in JobIds BY DEF Result
<1>2. jobs' = [jobs EXCEPT ![j] = x] BY <1>1, Typed DEF SettleRolledBack, Job
<1>3. /\ x.state = IF Open(j) THEN "rolled_back" ELSE jobs[j].state
      /\ x.mode = jobs[j].mode
      /\ x.agentHalf = jobs[j].agentHalf /\ x.adminHalf = jobs[j].adminHalf
  BY <1>1, Typed DEF Job
<1>. HIDE DEF x
<1> QED BY <1>1, <1>2, <1>3, Says DEF Finished

LEMMA CreateSays ==
  ASSUME Before, NEW j \in JobIds, Fresh(j), NEW m, NEW step, CreateApply(j, m, step),
         UNCHANGED fate
  PROVE Tells
<1>. DEFINE w == [jobs[j] EXCEPT !.state = "queued", !.mode = m, !.chainStep = step]
            x == WithPlan(w)
<1>1. jobs' = [jobs EXCEPT ![j] = x] BY DEF CreateApply
<1>2. x.state = "queued" /\ x.agentHalf = jobs[j].agentHalf BY Typed DEF WithPlan, Job
<1>. HIDE DEF x
<1> QED BY <1>1, <1>2, Says DEF Fresh

LEMMA SendSays ==
  ASSUME Before, SendApply
  PROVE Tells
<1>1. UNCHANGED fate BY DEF SendApply, router
<1>2. Running("sendApply") BY DEF SendApply
<1>3. run # <<>> /\ Top \in Frame /\ Top.f = "sendApply" BY <1>2, TopIs DEF Before
<1>4. PICK j \in JobIds : j = Top.job BY <1>3, FrameFields
<1>5. jobs[j].state = "queued" /\ Open(j)
  BY <1>3, <1>4 DEF Before, IInv, HoldsJob, Open
<1>6. CASE jobs' = [jobs EXCEPT ![j].state = IF Blocked THEN "failed" ELSE "cancelled"]
  <2>1. PICK s \in Finished : s = IF Blocked THEN "failed" ELSE "cancelled"
    BY DEF Finished
  <2> QED BY <1>1, <1>5, <1>6, <2>1, EndSays
<1>7. CASE jobs' = [jobs EXCEPT ![j] = [WithPlan(@) EXCEPT !.state = "sending",
                                                         !.sentIn = session]]
  <2>. DEFINE x == [WithPlan(jobs[j]) EXCEPT !.state = "sending", !.sentIn = session]
  <2>1. jobs' = [jobs EXCEPT ![j] = x] BY <1>7
  <2>2. /\ x.state = "sending" /\ x.mode = jobs[j].mode
        /\ x.agentHalf = jobs[j].agentHalf /\ x.adminHalf = jobs[j].adminHalf
    BY Typed DEF WithPlan, Job
  <2>. HIDE DEF x
  <2> QED BY <1>1, <1>5, <2>1, <2>2, Says
<1> QED BY <1>1, <1>4, <1>6, <1>7 DEF SendApply, Tells

LEMMA AwaitApplySays ==
  ASSUME Before, AwaitApply
  PROVE Tells
<1>1. UNCHANGED fate BY DEF AwaitApply, router
<1>2. Running("awaitApply") BY DEF AwaitApply, Answered
<1>3. run # <<>> /\ Top \in Frame /\ Top.f = "awaitApply" BY <1>2, TopIs DEF Before
<1>4. PICK j \in JobIds : j = Top.job BY <1>3, FrameFields
<1>5. jobs[j].state = "sending" /\ Open(j)
  BY <1>3, <1>4 DEF Before, IInv, HoldsJob, Open
<1>6. CASE \/ FailApply(j)
           \/ FinishConfirmed(j, reply.hash)
  <2>1. \E s \in Finished : jobs' = [jobs EXCEPT ![j].state = s]
    BY <1>6 DEF FailApply, FinishConfirmed, Finished
  <2> QED BY <1>1, <1>5, <2>1, EndSays
<1>7. CASE \/ jobs' = [jobs EXCEPT ![j].retried = TRUE, ![j].state = "queued"]
           \/ jobs' = [jobs EXCEPT ![j].state = "pending_confirm",
                                   ![j].checks = IF Checked THEN "pending" ELSE @]
  <2>. DEFINE x == [jobs[j] EXCEPT !.retried = TRUE, !.state = "queued"]
              y == [jobs[j] EXCEPT !.state = "pending_confirm",
                                   !.checks = IF Checked THEN "pending" ELSE @]
  <2>1. jobs' = [jobs EXCEPT ![j] = x] \/ jobs' = [jobs EXCEPT ![j] = y]
    BY <1>7, Typed DEF Job
  <2>2. /\ x.state = "queued" /\ x.mode = jobs[j].mode
        /\ x.agentHalf = jobs[j].agentHalf /\ x.adminHalf = jobs[j].adminHalf
        /\ y.state = "pending_confirm" /\ y.mode = jobs[j].mode
        /\ y.agentHalf = jobs[j].agentHalf /\ y.adminHalf = jobs[j].adminHalf
    BY Typed DEF Job
  <2>. HIDE DEF x, y
  <2>3. ASSUME jobs' = [jobs EXCEPT ![j] = x] PROVE Tells
    BY <1>1, <1>5, <2>2, <2>3, Says
  <2>4. ASSUME jobs' = [jobs EXCEPT ![j] = y] PROVE Tells
    BY <1>1, <1>5, <2>2, <2>4, Says
  <2> QED BY <2>1, <2>3, <2>4
<1>8. CASE UNCHANGED jobs BY <1>1, <1>8 DEF Tells
<1> QED BY <1>4, <1>6, <1>7, <1>8 DEF AwaitApply, persisted

LEMMA AwaitConfirmSays ==
  ASSUME Before, AwaitConfirm
  PROVE Tells
<1>1. UNCHANGED fate BY DEF AwaitConfirm, router
<1>2. Running("awaitConfirm") BY DEF AwaitConfirm, Answered
<1>3. run # <<>> /\ Top \in Frame /\ Top.f = "awaitConfirm" BY <1>2, TopIs DEF Before
<1>4. PICK j \in JobIds : j = Top.job BY <1>3, FrameFields
<1>5. jobs[j].state = "pending_confirm" /\ Open(j)
  BY <1>3, <1>4 DEF Before, IInv, HoldsJob, Open
<1>6. CASE FailApply(j) \/ FinishConfirmed(j, reply.hash)
  <2>1. \E s \in Finished : jobs' = [jobs EXCEPT ![j].state = s]
    BY <1>6 DEF FailApply, FinishConfirmed, Finished
  <2> QED BY <1>1, <1>5, <2>1, EndSays
<1>7. CASE jobs' = [jobs EXCEPT ![j].checks = NextChecks(@, "pending")]
  <2>. DEFINE x == [jobs[j] EXCEPT !.checks = NextChecks(@, "pending")]
  <2>1. jobs' = [jobs EXCEPT ![j] = x] BY <1>7
  <2>2. /\ x.state = "pending_confirm" /\ x.mode = jobs[j].mode
        /\ x.agentHalf = jobs[j].agentHalf /\ x.adminHalf = jobs[j].adminHalf
    BY <1>5, Typed DEF Job
  <2>. HIDE DEF x
  <2> QED BY <1>1, <1>5, <2>1, <2>2, Says
<1>8. CASE UNCHANGED jobs BY <1>1, <1>8 DEF Tells
<1> QED BY <1>4, <1>6, <1>7, <1>8 DEF AwaitConfirm, persisted

LEMMA ReconnectedSays ==
  ASSUME Before, OnAgentReconnected
  PROVE Tells
<1>1. UNCHANGED fate BY DEF OnAgentReconnected, router
<1>2. CASE UNCHANGED jobs BY <1>1, <1>2 DEF Tells
<1>3. ASSUME NEW j \in JobIds, SentBefore(j),
             \/ jobs' = [jobs EXCEPT
                   ![j].state = "pending_confirm", ![j].reconnected = TRUE,
                   ![j].checks = NextChecks(jobs[j].checks, hello.checks)]
             \/ FailApply(j)
      PROVE Tells
  <2>1. Open(j) BY <1>3 DEF SentBefore, InFlight, Open
  <2>2. CASE FailApply(j) BY <1>1, <2>1, <2>2, EndSays DEF FailApply, Finished
  <2>3. CASE jobs' = [jobs EXCEPT
                 ![j].state = "pending_confirm", ![j].reconnected = TRUE,
                 ![j].checks = NextChecks(jobs[j].checks, hello.checks)]
    <3>. DEFINE x == [jobs[j] EXCEPT
                 !.state = "pending_confirm", !.reconnected = TRUE,
                 !.checks = NextChecks(jobs[j].checks, hello.checks)]
    <3>1. jobs' = [jobs EXCEPT ![j] = x] BY <2>3, Typed DEF Job
    <3>2. /\ x.state = "pending_confirm" /\ x.mode = jobs[j].mode
          /\ x.agentHalf = jobs[j].agentHalf /\ x.adminHalf = jobs[j].adminHalf
      BY Typed DEF Job
    <3>. HIDE DEF x
    <3> QED BY <1>1, <2>1, <3>1, <3>2, Says
  <2> QED BY <1>3, <2>2, <2>3
<1> QED BY <1>2, <1>3 DEF OnAgentReconnected

\* A half given, or the checks moving on.
LEMMA FurtherSays ==
  ASSUME Before, NEW j \in JobIds, Open(j), NEW x, jobs' = [jobs EXCEPT ![j] = x],
         UNCHANGED fate, x.state = jobs[j].state, x.mode = jobs[j].mode,
         jobs[j].agentHalf => x.agentHalf, jobs[j].adminHalf => x.adminHalf
  PROVE Tells
BY Says DEF Open

LEMMA HalvesSay ==
  ASSUME Before, NEW j \in JobIds,
         \/ \E o \in BOOLEAN : AdminConfirm(j, o)
         \/ /\ jobs[j].state = "pending_confirm" /\ UNCHANGED fate
            /\ jobs' = [jobs EXCEPT ![j].agentHalf = TRUE, ![j].halfFrom = Top.sess]
         \/ /\ Open(j) /\ UNCHANGED fate
            /\ jobs' = [jobs EXCEPT ![j].checks = NextChecks(jobs[j].checks, Top.state)]
  PROVE Tells
<1>1. jobs[j] \in Job BY Typed
<1>2. ASSUME NEW o \in BOOLEAN, AdminConfirm(j, o) PROVE Tells
  <2>. DEFINE x == [jobs[j] EXCEPT !.adminHalf = TRUE,
                                   !.checks = IF o THEN "overridden" ELSE @]
  <2>1. Open(j) /\ UNCHANGED fate
    BY <1>2 DEF AdminConfirm, LeavesRouter, router, Open
  <2>2. jobs' = [jobs EXCEPT ![j] = x] BY <1>2, Typed DEF AdminConfirm, Job
  <2>3. /\ x.state = jobs[j].state /\ x.mode = jobs[j].mode
        /\ x.agentHalf = jobs[j].agentHalf /\ x.adminHalf
    BY <1>1 DEF Job
  <2>. HIDE DEF x
  <2> QED BY <2>1, <2>2, <2>3, FurtherSays
<1>3. CASE /\ jobs[j].state = "pending_confirm" /\ UNCHANGED fate
           /\ jobs' = [jobs EXCEPT ![j].agentHalf = TRUE, ![j].halfFrom = Top.sess]
  <2>. DEFINE x == [jobs[j] EXCEPT !.agentHalf = TRUE, !.halfFrom = Top.sess]
  <2>1. jobs' = [jobs EXCEPT ![j] = x] BY <1>3, Typed DEF Job
  <2>2. /\ x.state = jobs[j].state /\ x.mode = jobs[j].mode
        /\ x.agentHalf /\ x.adminHalf = jobs[j].adminHalf
    BY <1>1 DEF Job
  <2>. HIDE DEF x
  <2> QED BY <1>3, <2>1, <2>2, FurtherSays DEF Open
<1>4. CASE /\ Open(j) /\ UNCHANGED fate
           /\ jobs' = [jobs EXCEPT ![j].checks = NextChecks(jobs[j].checks, Top.state)]
  <2>. DEFINE x == [jobs[j] EXCEPT !.checks = NextChecks(jobs[j].checks, Top.state)]
  <2>1. jobs' = [jobs EXCEPT ![j] = x] BY <1>4
  <2>2. /\ x.state = jobs[j].state /\ x.mode = jobs[j].mode
        /\ x.agentHalf = jobs[j].agentHalf /\ x.adminHalf = jobs[j].adminHalf
    BY <1>1 DEF Job
  <2>. HIDE DEF x
  <2> QED BY <1>4, <2>1, <2>2, FurtherSays
<1> QED BY <1>2, <1>3, <1>4

LEMMA ControllerTells ==
  ASSUME Before, Controller
  PROVE Tells
<1>1. ASSUME ApplyResult PROVE Tells
  <2>1. UNCHANGED fate BY <1>1 DEF ApplyResult, router
  <2>2. Running("applyResult") BY <1>1 DEF ApplyResult
  <2>3. Top \in Frame /\ Top.f = "applyResult" BY <2>2, TopIs DEF Before
  <2>4. PICK res \in Result : res = Top.res BY <2>3, FrameFields
  <2>5. ASSUME Open(res.job), FinishConfirmed(res.job, res.hash) PROVE Tells
    <3>1. res.job \in JobIds BY DEF Result
    <3> QED BY <2>1, <2>5, <3>1, EndSays DEF FinishConfirmed, Finished
  <2>6. ASSUME SettleRolledBack(res.job, res) PROVE Tells BY <2>1, <2>6, SettleSays
  <2>7. ASSUME UNCHANGED jobs PROVE Tells BY <2>1, <2>7 DEF Tells
  <2> QED BY <1>1, <2>4, <2>5, <2>6, <2>7 DEF ApplyResult, persisted
<1>2. ASSUME ChainNext PROVE Tells
  <2>1. UNCHANGED fate BY <1>2 DEF ChainNext, router
  <2>2. UNCHANGED jobs \/ \E next \in JobIds : \E m, step :
                             Fresh(next) /\ CreateApply(next, m, step)
    BY <1>2 DEF ChainNext
  <2>3. CASE UNCHANGED jobs BY <2>1, <2>3 DEF Tells
  <2>4. ASSUME NEW next \in JobIds, NEW m, NEW step, Fresh(next),
               CreateApply(next, m, step)
        PROVE Tells
    BY <2>1, <2>4, CreateSays
  <2> QED BY <2>2, <2>3, <2>4
<1>3. ASSUME OnPushAccepted \/ RecordChecksReport PROVE Tells
  <2>1. UNCHANGED fate BY <1>3 DEF OnPushAccepted, RecordChecksReport, router
  <2>2. CASE UNCHANGED jobs BY <2>1, <2>2 DEF Tells
  <2>3. CASE OnPushAccepted BY <2>1, <2>2, <2>3, HalvesSay DEF OnPushAccepted
  <2>4. CASE RecordChecksReport
    <3>1. Running("recordChecksReport") BY <2>4 DEF RecordChecksReport
    <3>2. Top \in Frame /\ Top.f = "recordChecksReport" BY <3>1, TopIs DEF Before
    <3>3. Top.job \in JobIds BY <3>2, FrameFields
    <3> QED BY <2>1, <2>2, <2>4, <3>3, HalvesSay DEF RecordChecksReport
  <2> QED BY <1>3, <2>3, <2>4
<1>4. ASSUME \/ StartTask \/ ApplyResults \/ AckResults \/ TryConfirm \/ AwaitRollback
             \/ ReadIfConfirmed \/ ReadLater \/ ReadIfMoved \/ ReadAndReconcile \/ AwaitRead
      PROVE Tells
  <2>1. UNCHANGED <<jobs, fate>>
    BY <1>4 DEF StartTask, ApplyResults, AckResults, TryConfirm, AwaitRollback,
                ReadIfConfirmed, ReadLater, ReadIfMoved, ReadAndReconcile, AwaitRead,
                persisted, router
  <2> QED BY <2>1 DEF Tells
<1> QED BY <1>1, <1>2, <1>3, <1>4, SendSays, AwaitApplySays, AwaitConfirmSays,
           ReconnectedSays DEF Controller

-----------------------------------------------------------------------------
(* The other steps, and the refinement.                                    *)

LEMMA AdminTells ==
  ASSUME Before, Admin
  PROVE Tells
<1>1. ASSUME NEW j \in JobIds, NEW mode \in Modes, RequestApply(j, mode) PROVE Tells
  <2>1. /\ UNCHANGED fate /\ Fresh(j)
        /\ \E m, step : CreateApply(j, m, step)
    BY <1>1 DEF RequestApply, LeavesRouter, router
  <2> QED BY <2>1, CreateSays
<1>4. ASSUME NEW j \in JobIds, DetachedRequest(j) PROVE Tells
  <2>1. /\ UNCHANGED fate /\ Fresh(j)
        /\ \E m, step : CreateApply(j, m, step)
    BY <1>4 DEF DetachedRequest, LeavesRouter, router
  <2> QED BY <2>1, CreateSays
<1>2. ASSUME NEW j \in JobIds, RevertApply(j) PROVE Tells
  <2>1. UNCHANGED fate BY <1>2 DEF RevertApply, router
  <2>2. CASE UNCHANGED jobs BY <2>1, <2>2 DEF Tells
  <2>3. CASE jobs[j].state = "queued" /\ jobs' = [jobs EXCEPT ![j].state = "cancelled"]
    BY <2>1, <2>3, EndSays DEF Open, Finished
  <2> QED BY <1>2, <2>2, <2>3 DEF RevertApply
<1>3. ASSUME NEW s, NEW c, EditSections(s, c) \/ ResolveConflict(s, c) PROVE Tells
  BY <1>3 DEF EditSections, ResolveConflict, LeavesRouter, router, Tells
<1> QED BY <1>1, <1>2, <1>3, <1>4, HalvesSay DEF Admin

LEMMA TickTells ==
  ASSUME Before, Tick
  PROVE Tells
<1>1. ASSUME NEW j \in JobIds, TickExpire(j) \/ TickNoAnswer(j) PROVE Tells
  <2>1. UNCHANGED fate /\ Open(j)
    BY <1>1 DEF TickExpire, TickNoAnswer, LeavesRouter, router, Open
  <2>2. \E s \in Finished : jobs' = [jobs EXCEPT ![j].state = s]
    BY <1>1 DEF TickExpire, TickNoAnswer, FailApply, Finished
  <2> QED BY <2>1, <2>2, EndSays
<1>2. ASSUME NEW j \in JobIds, TickAssume(j) PROVE Tells
  <2>. DEFINE x == [jobs[j] EXCEPT !.state = "rolled_back", !.assumed = TRUE]
  <2>1. UNCHANGED fate /\ Open(j) BY <1>2 DEF TickAssume, LeavesRouter, router, Open
  <2>2. jobs' = [jobs EXCEPT ![j] = x] BY <1>2, Typed DEF TickAssume, Assume, Job
  <2>3. /\ x.state \in Finished /\ x.mode = jobs[j].mode
        /\ x.agentHalf = jobs[j].agentHalf /\ x.adminHalf = jobs[j].adminHalf
    BY Typed DEF Job, Finished
  <2>. HIDE DEF x
  <2> QED BY <2>1, <2>2, <2>3, Says
<1>3. ASSUME NEW j \in JobIds, TickSend(j) \/ TickConfirm(j) PROVE Tells
  BY <1>3 DEF TickSend, TickConfirm, LeavesRouter, persisted, router, Tells
<1> QED BY <1>1, <1>2, <1>3 DEF Tick

\* The router's side of a step: of one job at a time.
LEMMA Does ==
  ASSUME Before, NEW j \in JobIds, Sent(j), UNCHANGED jobs, NEW r,
         fate' = [fate EXCEPT ![j] = r],
         \/ fate[j] = "none" /\ r = "live" /\ ~AnyLive
         \/ fate[j] = "none" /\ r = "noop"
         \/ fate[j] = "live" /\ r = "kept" /\ Gates(j)
         \/ fate[j] \in {"none", "live"} /\ r = "restored"
  PROVE Tells
BY DEF RouterDoes, Tells

LEMMA RestoreTells ==
  ASSUME Before, NEW j \in JobIds, NEW b, Restore(j, b), UNCHANGED jobs
  PROVE Tells
<1>1. fate[j] = "live" /\ fate' = [fate EXCEPT ![j] = "restored"] BY DEF Restore, Live
<1>2. Sent(j) BY <1>1 DEF Before, VInv, JobsTrue, JobTrue, Untouched
<1> QED BY <1>1, <1>2, Does

LEMMA AgentTells ==
  ASSUME Before, Agent
  PROVE Tells
<1>1. UNCHANGED jobs
  BY DEF Agent, AgentApply, AgentConfirm, AgentRollback, AgentRead, AgentDeadline,
         ChecksPass, ChecksFail, persisted
<1>2. CASE UNCHANGED fate BY <1>1, <1>2 DEF Tells
<1>3. ASSUME AgentApply PROVE Tells
  <2>1. Received("apply") BY <1>3 DEF AgentApply
  <2>2. /\ Head(wire) = wire[1] /\ 1 \in DOMAIN wire /\ Head(wire).job \in JobIds
        /\ Asks(1, "apply", Head(wire).job)
    BY <2>1, RequestIs
  <2>3. PICK j \in JobIds : j = Head(wire).job /\ Asks(1, "apply", j) BY <2>2
  <2>4. fate[j] = "none" /\ Sent(j) BY <2>2, <2>3 DEF Before, VInv, WireOK, AppliesOnce
  <2>5. \/ UNCHANGED fate
        \/ \E r \in {"restored", "noop"} : fate' = [fate EXCEPT ![j] = r]
        \/ ~AnyLive /\ fate' = [fate EXCEPT ![j] = "live"]
    BY <1>3, <2>3 DEF AgentApply, router
  <2> QED BY <1>1, <1>2, <2>4, <2>5, Does
<1>4. ASSUME AgentConfirm PROVE Tells
  <2>1. Received("confirm") BY <1>4 DEF AgentConfirm
  <2>2. /\ Head(wire) = wire[1] /\ 1 \in DOMAIN wire /\ Head(wire).job \in JobIds
        /\ Asks(1, "confirm", Head(wire).job)
    BY <2>1, RequestIs
  <2>3. PICK j \in JobIds : j = Head(wire).job /\ Asks(1, "confirm", j) BY <2>2
  <2>4. Allowed(j) BY <2>2, <2>3 DEF Before, VInv, WireOK, ConfirmsAllowed
  <2>5. UNCHANGED fate \/ (fate[j] = "live" /\ fate' = [fate EXCEPT ![j] = "kept"])
    BY <1>4, <2>3 DEF AgentConfirm, router, Live
  <2>6. CASE fate[j] = "live" /\ fate' = [fate EXCEPT ![j] = "kept"]
    <3>1. Sent(j) /\ Gates(j) BY <2>4, <2>6 DEF Allowed
    <3> QED BY <1>1, <2>6, <3>1, Does
  <2> QED BY <1>2, <2>5, <2>6
<1>5. ASSUME NEW j \in JobIds, NEW b, RestoreAndNotify(j, b) PROVE Tells
  BY <1>1, <1>5, RestoreTells DEF RestoreAndNotify
<1>6. ASSUME AgentRollback PROVE Tells
  <2>1. Received("rollback") BY <1>6 DEF AgentRollback
  <2>2. Head(wire).job \in JobIds BY <2>1, RequestIs
  <2>3. UNCHANGED fate \/ \E j \in JobIds : RestoreAndNotify(j, FALSE)
    BY <1>6, <2>2 DEF AgentRollback, router
  <2> QED BY <1>2, <1>5, <2>3
<1>7. ASSUME NEW j \in JobIds, AgentDeadline(j) \/ ChecksFail(j) PROVE Tells
  BY <1>5, <1>7 DEF AgentDeadline, ChecksFail
<1>8. ASSUME AgentRead \/ \E j \in JobIds : ChecksPass(j) PROVE Tells
  BY <1>2, <1>8 DEF AgentRead, ChecksPass, router
<1> QED BY <1>3, <1>4, <1>6, <1>7, <1>8 DEF Agent

LEMMA EnvironmentTells ==
  ASSUME Before, Environment
  PROVE Tells
<1>1. ASSUME Reboot PROVE Tells
  BY <1>1, RestoreTells DEF Reboot, persisted
<1>2. ASSUME UNCHANGED <<jobs, fate>> PROVE Tells BY <1>2 DEF Tells
<1>3. Environment => Reboot \/ UNCHANGED <<jobs, fate>>
  BY DEF Environment, Drop, Dial, Timeout, AgentPush, PushIngested, RouterEdit, Crash,
         WindowCloses, WindowEnds, persisted, router
<1> QED BY <1>1, <1>2, <1>3

LEMMA PromiseInit ==
  ASSUME Init
  PROVE Promise!Init
<1>1. \A j \in JobIds : jobs[j].state = "none" /\ ~jobs[j].agentHalf BY DEF Init
<1>2. \A j \in JobIds : Verdict(j) = "none" /\ ~Agreed(j) BY <1>1 DEF Verdict, Agreed
<1>3. fate = [j \in JobIds |-> "none"] BY DEF Init
<1> QED BY <1>2, <1>3 DEF Promise!Init

LEMMA PromiseNext ==
  ASSUME IInv, VInv, [Next]_vars
  PROVE [Promise!Next]_(Promise!vars)
<1>1. Known BY VNext DEF Known
<1>2. CASE UNCHANGED vars
  <2>1. UNCHANGED <<jobs, fate>> BY <1>2 DEF vars, persisted, router
  <2> QED BY <1>1, <2>1, TellsMaps DEF Tells
<1>3. Next => Tells
  BY <1>1, ControllerTells, AdminTells, TickTells, AgentTells, EnvironmentTells
     DEF Next, Known
<1> QED BY <1>1, <1>2, <1>3, TellsMaps

\* Every behaviour of the protocol is one CommitConfirm allows.
THEOREM KeepsPromiseAlways == Spec => KeepsPromise
<1>1. Init => Promise!Init BY PromiseInit
<1>2. IInv /\ VInv /\ [Next]_vars => [Promise!Next]_(Promise!vars) BY PromiseNext
<1> QED BY <1>1, <1>2, Invariance, VInvariance, PTL DEF Spec, KeepsPromise, Promise!Spec

-----------------------------------------------------------------------------
(* What a job in flight holds still: the rows of its sections.             *)

HeldBy(j, s) == {jobs[j].state, jobs'[j].state} \subseteq InFlight /\ s \in jobs[j].secs
Held ==
  count.detached = 0 =>
    \A j \in JobIds, s \in Sections : HeldBy(j, s) =>
      rows'[s].base = rows[s].base /\ rows'[s].desired = rows[s].desired

\* A job that was sent is not planned again.
PlanStays(j) ==
  /\ jobs'[j].secs = jobs[j].secs /\ jobs'[j].written = jobs[j].written
  /\ jobs'[j].replaced = jobs[j].replaced /\ jobs'[j].base = jobs[j].base
PlansStay == \A j \in JobIds : Sent(j) => PlanStays(j)

LEMMA JobRows ==
  ASSUME Before
  PROVE /\ rows \in [Sections -> Row] /\ rows' \in [Sections -> Row]
        /\ \A j \in JobIds : jobs[j] \in Job /\ jobs[j].secs \subseteq Sections
        /\ \A j \in JobIds : jobs'[j] \in Job /\ jobs'[j].secs \subseteq Sections
<1>1. rows \in [Sections -> Row] /\ rows' \in [Sections -> Row]
  BY DEF Before, IInv, TypeInv, TypeOK, PersistedOK
<1>2. \A x \in Job : x.secs \subseteq Sections BY DEF Job
<1> QED BY <1>1, <1>2, Typed

Calm == Held /\ PlansStay

\* The rows stay, and no job starts to carry any.
LEMMA RowsStay ==
  ASSUME UNCHANGED rows, PlansStay,
         \A j \in JobIds : jobs'[j].state \in InFlight =>
           jobs[j].state \in InFlight /\ jobs'[j].secs = jobs[j].secs
  PROVE Calm
BY DEF Calm, Held, HeldBy

LEMMA BothStay ==
  ASSUME UNCHANGED <<jobs, rows>>
  PROVE Calm
BY RowsStay DEF PlansStay, PlanStays

\* One job changes, but not in what it carries; it does not take off.
LEMMA OneCarries ==
  ASSUME Before, NEW j \in JobIds, NEW x, jobs' = [jobs EXCEPT ![j] = x],
         x.secs = jobs[j].secs, x.written = jobs[j].written,
         x.replaced = jobs[j].replaced, x.base = jobs[j].base,
         x.state \in InFlight => jobs[j].state \in InFlight, UNCHANGED rows
  PROVE Calm
<1>1. jobs'[j] = x /\ \A k \in JobIds \ {j} : jobs'[k] = jobs[k] BY Typed
<1> QED BY <1>1, RowsStay DEF PlansStay, PlanStays

\* A job is given up, by whatever state.
LEMMA Closes ==
  ASSUME Before, NEW j \in JobIds, NEW v \in JobStates \ InFlight,
         jobs' = [jobs EXCEPT ![j].state = v], UNCHANGED rows
  PROVE Calm
<1>1. jobs[j] \in Job BY Typed
<1>2. /\ [jobs[j] EXCEPT !.state = v].secs = jobs[j].secs
      /\ [jobs[j] EXCEPT !.state = v].written = jobs[j].written
      /\ [jobs[j] EXCEPT !.state = v].replaced = jobs[j].replaced
      /\ [jobs[j] EXCEPT !.state = v].base = jobs[j].base
      /\ [jobs[j] EXCEPT !.state = v].state = v
  BY <1>1 DEF Job
<1>3. PICK x : x = [jobs[j] EXCEPT !.state = v] OBVIOUS
<1>4. jobs' = [jobs EXCEPT ![j] = x] BY <1>3
<1> QED BY <1>2, <1>3, <1>4, OneCarries

\* The open job is confirmed: nothing is in flight any more, unless a timer's is.
LEMMA ConfirmHolds ==
  ASSUME Before, NEW j \in JobIds, Open(j), NEW h, FinishConfirmed(j, h)
  PROVE Calm
<1>1. jobs'[j].state = "confirmed" /\ PlanStays(j)
      /\ \A k \in JobIds \ {j} : jobs'[k] = jobs[k]
  <2>1. jobs[j] \in Job BY Typed
  <2>2. /\ [jobs[j] EXCEPT !.state = "confirmed"].state = "confirmed"
        /\ [jobs[j] EXCEPT !.state = "confirmed"].written = jobs[j].written
        /\ [jobs[j] EXCEPT !.state = "confirmed"].secs = jobs[j].secs
        /\ [jobs[j] EXCEPT !.state = "confirmed"].replaced = jobs[j].replaced
        /\ [jobs[j] EXCEPT !.state = "confirmed"].base = jobs[j].base
    BY <2>1 DEF Job
  <2> QED BY <2>2, Typed DEF FinishConfirmed, PlanStays
<1>2. count.detached = 0 => \A k \in JobIds \ {j} : ~Open(k)
  BY DEF Before, IInv, OneOpen
<1>3. count.detached = 0 => \A k \in JobIds : jobs'[k].state \notin InFlight
  BY <1>1, <1>2 DEF Open, InFlight
<1> QED BY <1>1, <1>3 DEF Calm, Held, HeldBy, PlansStay, PlanStays

\* A job is settled as rolled back: base and draft of any row stay.
LEMMA SettleHolds ==
  ASSUME Before, NEW res \in Result, SettleRolledBack(res.job, res)
  PROVE Calm
<1>1. PICK j \in JobIds : j = res.job BY DEF Result
<1>2. \A k \in JobIds : /\ jobs'[k].secs = jobs[k].secs
                        /\ jobs'[k].written = jobs[k].written
                        /\ jobs'[k].replaced = jobs[k].replaced
                        /\ jobs'[k].base = jobs[k].base
                        /\ jobs'[k].state \in InFlight => jobs[k].state \in InFlight
  <2>1. jobs[j] \in Job BY Typed
  <2>2. PICK x : x = [jobs[j] EXCEPT
                 !.state = IF Open(j) THEN "rolled_back" ELSE @, !.assumed = FALSE,
                 !.checks = IF res.checksFailed /\ @ # "overridden" THEN "failed" ELSE @]
    OBVIOUS
  <2>3. /\ x.secs = jobs[j].secs /\ x.written = jobs[j].written
        /\ x.replaced = jobs[j].replaced /\ x.base = jobs[j].base
        /\ x.state = IF Open(j) THEN "rolled_back" ELSE jobs[j].state
    BY <2>1, <2>2 DEF Job
  <2>4. jobs' = [jobs EXCEPT ![j] = x] BY <1>1, <2>2, Typed DEF SettleRolledBack, Job
  <2>5. jobs'[j] = x /\ \A k \in JobIds \ {j} : jobs'[k] = jobs[k] BY <2>4, Typed
  <2> QED BY <2>3, <2>5 DEF InFlight, PlanStays
<1>3. ASSUME NEW s \in Sections
      PROVE rows'[s].base = rows[s].base /\ rows'[s].desired = rows[s].desired
  <2>1. rows[s] \in Row BY JobRows
  <2> QED BY <2>1 DEF SettleRolledBack, Row
<1>4. PlansStay BY <1>2 DEF PlansStay, PlanStays
<1> QED BY <1>2, <1>3, <1>4 DEF Held, HeldBy, Calm

\* The rows meet a read: what a job carries keeps all but the router's side.
LEMMA ObserveHolds ==
  ASSUME Before, NEW config, Observe(config), UNCHANGED jobs
  PROVE Calm
<1>1. ASSUME NEW s \in Sections, Carried(s)
      PROVE rows'[s].base = rows[s].base /\ rows'[s].desired = rows[s].desired
  <2>1. rows[s] \in Row BY JobRows
  <2>2. rows'[s] = ReconcileRow(s, config[s]) BY DEF Observe
  <2>3. ReconcileRow(s, config[s]) = [rows[s] EXCEPT !.router = config[s]]
    BY <1>1 DEF ReconcileRow
  <2> QED BY <2>1, <2>2, <2>3 DEF Row
<1>2. \A j \in JobIds : jobs[j].state \in InFlight =>
        \A s \in jobs[j].secs : s \in Sections /\ Carried(s)
  BY JobRows DEF Carried
<1> QED BY <1>1, <1>2 DEF Calm, Held, HeldBy, PlansStay, PlanStays

LEMMA SendApplyHolds ==
  ASSUME Before, SendApply
  PROVE Calm
<1>1. PICK j \in JobIds : j = Top.job /\ jobs[j].state = "queued"
  <2>1. run # <<>> /\ Top \in Frame /\ Top.f = "sendApply" BY TopIs DEF SendApply, Before
  <2> QED BY <2>1, FrameFields DEF Before, IInv, HoldsJob
<1>2. UNCHANGED rows BY DEF SendApply
<1>3. CASE UNCHANGED jobs BY <1>2, <1>3, BothStay DEF Calm
<1>4. CASE jobs' = [jobs EXCEPT ![j].state = IF Blocked THEN "failed" ELSE "cancelled"]
  <2>1. PICK v \in JobStates \ InFlight : v = IF Blocked THEN "failed" ELSE "cancelled"
    BY DEF JobStates, InFlight
  <2> QED BY <1>2, <1>4, <2>1, Closes DEF Calm
<1>5. CASE jobs' = [jobs EXCEPT ![j] = [WithPlan(@) EXCEPT !.state = "sending",
                                                           !.sentIn = session]]
  <2>2. PICK x : x = [WithPlan(jobs[j]) EXCEPT !.state = "sending", !.sentIn = session]
    OBVIOUS
  <2>4. jobs'[j] = x /\ \A k \in JobIds \ {j} : jobs'[k] = jobs[k]
    BY <1>5, <2>2, Typed
  <2> QED BY <1>1, <1>2, <2>4 DEF Calm, Held, HeldBy, PlansStay, PlanStays, Sent, InFlight
<1> QED BY <1>1, <1>3, <1>4, <1>5 DEF SendApply

LEMMA AwaitApplyHolds ==
  ASSUME Before, AwaitApply
  PROVE Calm
<1>1. PICK j \in JobIds : j = Top.job /\ jobs[j].state = "sending"
  <2>1. Running("awaitApply") BY DEF AwaitApply, Answered
  <2>2. run # <<>> /\ Top \in Frame /\ Top.f = "awaitApply" BY <2>1, TopIs DEF Before
  <2> QED BY <2>2, FrameFields DEF Before, IInv, HoldsJob
<1>2. jobs[j] \in Job /\ Open(j) BY <1>1, Typed DEF Open
<1>3. CASE UNCHANGED persisted BY <1>3, BothStay DEF Calm, persisted
<1>4. CASE jobs' = [jobs EXCEPT ![j].retried = TRUE, ![j].state = "queued"]
           /\ UNCHANGED rows
  <2>1. PICK x : x = [jobs[j] EXCEPT !.retried = TRUE, !.state = "queued"] OBVIOUS
  <2>2. x.secs = jobs[j].secs /\ x.written = jobs[j].written
        /\ x.replaced = jobs[j].replaced /\ x.base = jobs[j].base /\ x.state = "queued"
    BY <1>2, <2>1 DEF Job
  <2>3. jobs' = [jobs EXCEPT ![j] = x] BY <1>4, <2>1, Typed
  <2> QED BY <1>4, <2>2, <2>3, OneCarries DEF Calm, InFlight
<1>5. CASE FailApply(j) /\ UNCHANGED rows
  BY <1>5, Closes DEF FailApply, JobStates, InFlight, Calm
<1>6. CASE /\ jobs' = [jobs EXCEPT ![j].state = "pending_confirm",
                                   ![j].checks = IF Checked THEN "pending" ELSE @]
           /\ UNCHANGED rows
  <2>1. PICK x : x = [jobs[j] EXCEPT !.state = "pending_confirm",
                                     !.checks = IF Checked THEN "pending" ELSE @]
    OBVIOUS
  <2>2. x.secs = jobs[j].secs /\ x.written = jobs[j].written
        /\ x.replaced = jobs[j].replaced /\ x.base = jobs[j].base
    BY <1>2, <2>1 DEF Job
  <2>3. jobs' = [jobs EXCEPT ![j] = x] BY <1>6, <2>1, Typed
  <2> QED BY <1>1, <1>6, <2>2, <2>3, OneCarries DEF Calm, InFlight
<1>7. CASE FinishConfirmed(j, reply.hash) BY <1>2, <1>7, ConfirmHolds DEF Calm
<1> QED BY <1>1, <1>3, <1>4, <1>5, <1>6, <1>7 DEF AwaitApply

\* A new job carries nothing yet: it is queued.
LEMMA CreateHolds ==
  ASSUME Before, NEW j \in JobIds, Fresh(j), NEW mode, NEW step,
         CreateApply(j, mode, step), UNCHANGED rows
  PROVE Calm
<1>1. jobs[j] \in Job BY Typed
<1>2. PICK x : x = WithPlan([jobs[j] EXCEPT !.state = "queued", !.mode = mode,
                                            !.chainStep = step])
  OBVIOUS
<1>3. x.state = "queued" BY <1>1, <1>2 DEF WithPlan, Job
<1>4. jobs'[j] = x /\ \A k \in JobIds \ {j} : jobs'[k] = jobs[k]
  BY <1>2, Typed DEF CreateApply
<1> QED BY <1>3, <1>4, RowsStay DEF PlansStay, PlanStays, Fresh, Sent, InFlight

LEMMA AwaitConfirmHolds ==
  ASSUME Before, AwaitConfirm
  PROVE Calm
<1>1. PICK j \in JobIds : j = Top.job /\ jobs[j].state = "pending_confirm"
  <2>1. Running("awaitConfirm") BY DEF AwaitConfirm, Answered
  <2>2. run # <<>> /\ Top \in Frame /\ Top.f = "awaitConfirm" BY <2>1, TopIs DEF Before
  <2> QED BY <2>2, FrameFields DEF Before, IInv, HoldsJob
<1>2. jobs[j] \in Job /\ Open(j) BY <1>1, Typed DEF Open
<1>3. CASE UNCHANGED persisted BY <1>3, BothStay DEF Calm, persisted
<1>4. CASE /\ jobs' = [jobs EXCEPT ![j].checks = NextChecks(@, "pending")]
           /\ UNCHANGED rows
  <2>1. PICK x : x = [jobs[j] EXCEPT !.checks = NextChecks(@, "pending")] OBVIOUS
  <2>2. x.secs = jobs[j].secs /\ x.written = jobs[j].written
        /\ x.replaced = jobs[j].replaced /\ x.base = jobs[j].base /\ x.state = jobs[j].state
    BY <1>2, <2>1 DEF Job
  <2>3. jobs' = [jobs EXCEPT ![j] = x] BY <1>4, <2>1, Typed
  <2> QED BY <1>4, <2>2, <2>3, OneCarries DEF Calm
<1>5. CASE FailApply(j) /\ UNCHANGED rows
  BY <1>5, Closes DEF FailApply, JobStates, InFlight, Calm
<1>6. CASE FinishConfirmed(j, reply.hash) BY <1>2, <1>6, ConfirmHolds DEF Calm
<1> QED BY <1>1, <1>3, <1>4, <1>5, <1>6 DEF AwaitConfirm

\* What a hello, a push or a report changes of a job it does not carry.
LEMMA ReportsHold ==
  ASSUME Before, OnAgentReconnected \/ OnPushAccepted \/ RecordChecksReport
  PROVE Calm
<1>1. UNCHANGED rows
  BY DEF OnAgentReconnected, OnPushAccepted, RecordChecksReport
<1>2. CASE UNCHANGED jobs BY <1>1, <1>2, BothStay DEF Calm
<1>3. ASSUME NEW j \in JobIds, jobs[j].state \in InFlight, NEW now,
             jobs' = [jobs EXCEPT ![j].state = "pending_confirm",
                                  ![j].reconnected = TRUE, ![j].checks = now]
      PROVE Calm
  <2>1. PICK x : x = [jobs[j] EXCEPT !.state = "pending_confirm",
                                     !.reconnected = TRUE, !.checks = now]
    OBVIOUS
  <2>2. x.secs = jobs[j].secs /\ x.written = jobs[j].written
        /\ x.replaced = jobs[j].replaced /\ x.base = jobs[j].base
    BY <2>1, Typed DEF Job
  <2>3. jobs' = [jobs EXCEPT ![j] = x] BY <1>3, <2>1, Typed
  <2> QED BY <1>1, <1>3, <2>2, <2>3, OneCarries DEF Calm
<1>4. ASSUME NEW j \in JobIds, FailApply(j) PROVE Calm
  BY <1>1, <1>4, Closes DEF FailApply, JobStates, InFlight, Calm
<1>5. ASSUME OnAgentReconnected PROVE Calm
  <2>1. \/ UNCHANGED jobs
        \/ \E j \in JobIds :
             /\ jobs[j].state \in InFlight
             /\ \/ FailApply(j)
                \/ \E now : jobs' = [jobs EXCEPT ![j].state = "pending_confirm",
                                      ![j].reconnected = TRUE, ![j].checks = now]
    BY <1>5 DEF OnAgentReconnected, SentBefore
  <2> QED BY <1>2, <1>3, <1>4, <2>1
<1>6. ASSUME NEW j \in JobIds, NEW h,
             jobs' = [jobs EXCEPT ![j].agentHalf = TRUE, ![j].halfFrom = h]
      PROVE Calm
  <2>1. PICK x : x = [jobs[j] EXCEPT !.agentHalf = TRUE, !.halfFrom = h] OBVIOUS
  <2>2. x.secs = jobs[j].secs /\ x.written = jobs[j].written
        /\ x.replaced = jobs[j].replaced /\ x.base = jobs[j].base /\ x.state = jobs[j].state
    BY <2>1, Typed DEF Job
  <2>3. jobs' = [jobs EXCEPT ![j] = x] BY <1>6, <2>1, Typed
  <2> QED BY <1>1, <2>2, <2>3, OneCarries DEF Calm
<1>7. OnPushAccepted => Calm BY <1>2, <1>6 DEF OnPushAccepted
<1>8. ASSUME NEW j \in JobIds, NEW now, jobs' = [jobs EXCEPT ![j].checks = now]
      PROVE Calm
  <2>1. PICK x : x = [jobs[j] EXCEPT !.checks = now] OBVIOUS
  <2>2. x.secs = jobs[j].secs /\ x.written = jobs[j].written
        /\ x.replaced = jobs[j].replaced /\ x.base = jobs[j].base /\ x.state = jobs[j].state
    BY <2>1, Typed DEF Job
  <2>3. jobs' = [jobs EXCEPT ![j] = x] BY <1>8, <2>1
  <2> QED BY <1>1, <2>2, <2>3, OneCarries DEF Calm
<1>9. ASSUME RecordChecksReport PROVE Calm
  <2>1. run # <<>> /\ Top \in Frame /\ Top.f = "recordChecksReport"
    BY <1>9, TopIs DEF RecordChecksReport, Before
  <2>2. Top.job \in JobIds BY <2>1, FrameFields
  <2> QED BY <1>2, <1>8, <1>9, <2>2 DEF RecordChecksReport
<1> QED BY <1>5, <1>7, <1>9

LEMMA ApplyResultHolds ==
  ASSUME Before, ApplyResult
  PROVE Calm
<1>1. run # <<>> /\ Top \in Frame /\ Top.f = "applyResult"
  BY TopIs DEF ApplyResult, Before
<1>2. PICK res \in Result : res = Top.res BY <1>1, FrameFields
<1>3. res.job \in JobIds BY DEF Result
<1>4. \/ Open(res.job) /\ FinishConfirmed(res.job, res.hash)
      \/ SettleRolledBack(res.job, res)
      \/ UNCHANGED <<jobs, rows>>
  BY <1>2 DEF ApplyResult, persisted
<1> QED BY <1>2, <1>3, <1>4, ConfirmHolds, SettleHolds, BothStay DEF Calm

LEMMA ControllerHolds ==
  ASSUME Before, Controller
  PROVE Calm
<1>1. CASE StartTask \/ ApplyResults \/ AckResults \/ TryConfirm \/ AwaitRollback
           \/ ReadIfConfirmed \/ ReadLater \/ ReadIfMoved \/ ReadAndReconcile
  BY <1>1, BothStay DEF StartTask, ApplyResults, AckResults, TryConfirm, AwaitRollback,
     ReadIfConfirmed, ReadLater, ReadIfMoved, ReadAndReconcile, persisted, Calm
<1>2. ASSUME ChainNext PROVE Calm
  <2>1. UNCHANGED rows BY <1>2 DEF ChainNext
  <2>2. UNCHANGED jobs \/ \E j \in JobIds : \E mode, step :
                           Fresh(j) /\ CreateApply(j, mode, step)
    BY <1>2 DEF ChainNext
  <2> QED BY <2>1, <2>2, CreateHolds, BothStay DEF Calm
<1>3. ASSUME AwaitRead PROVE Calm
  BY <1>3, ObserveHolds, BothStay DEF AwaitRead, Calm
<1> QED BY <1>1, <1>2, <1>3, ApplyResultHolds, SendApplyHolds, AwaitApplyHolds,
           AwaitConfirmHolds, ReportsHold DEF Controller

\* Settling a conflict is the one step refused to no section.
Resolves == \E s \in Sections, take \in {"router", "controller"} : ResolveConflict(s, take)

LEMMA ResolveHolds ==
  ASSUME Resolves
  PROVE PlansStay
BY DEF Resolves, ResolveConflict, PlansStay, PlanStays

LEMMA AdminHolds ==
  ASSUME Before, Admin
  PROVE Calm \/ Resolves
<1>1. ASSUME NEW j \in JobIds, NEW mode \in Modes, RequestApply(j, mode) PROVE Calm
  BY <1>1, CreateHolds DEF RequestApply
<1>5. ASSUME NEW j \in JobIds, DetachedRequest(j) PROVE Calm
  BY <1>5, CreateHolds DEF DetachedRequest
<1>2. ASSUME NEW j \in JobIds, NEW o \in BOOLEAN, AdminConfirm(j, o) PROVE Calm
  <2>1. PICK x : x = [jobs[j] EXCEPT !.adminHalf = TRUE,
                                     !.checks = IF o THEN "overridden" ELSE @]
    OBVIOUS
  <2>2. x.secs = jobs[j].secs /\ x.written = jobs[j].written
        /\ x.replaced = jobs[j].replaced /\ x.base = jobs[j].base /\ x.state = jobs[j].state
    BY <2>1, Typed DEF Job
  <2>3. jobs' = [jobs EXCEPT ![j] = x] /\ UNCHANGED rows
    BY <1>2, <2>1, Typed DEF AdminConfirm
  <2> QED BY <2>2, <2>3, OneCarries DEF Calm
<1>3. ASSUME NEW j \in JobIds, RevertApply(j) PROVE Calm
  BY <1>3, Closes, BothStay DEF RevertApply, JobStates, InFlight, Calm
<1>4. ASSUME NEW s \in Sections, NEW c \in Contents, EditSections(s, c) PROVE Calm
  <2>1. UNCHANGED jobs /\ ~Carried(s) BY <1>4 DEF EditSections
  <2>2. \A t \in Sections \ {s} : rows'[t] = rows[t]
    BY <1>4, JobRows DEF EditSections, Row
  <2>3. Held BY <2>1, <2>2 DEF Held, HeldBy, Carried
  <2> QED BY <2>1, <2>3 DEF Calm, PlansStay, PlanStays
<1> QED BY <1>1, <1>2, <1>3, <1>4, <1>5 DEF Admin, Resolves

LEMMA TickHolds ==
  ASSUME Before, Tick
  PROVE Calm
<1>1. PICK j \in JobIds : TickExpire(j) \/ TickSend(j) \/ TickConfirm(j)
                          \/ TickAssume(j) \/ TickNoAnswer(j)
  BY DEF Tick
<1>2. CASE TickExpire(j)
  BY <1>2, Closes DEF TickExpire, JobStates, InFlight, Calm
<1>3. CASE TickNoAnswer(j)
  BY <1>3, Closes DEF TickNoAnswer, FailApply, JobStates, InFlight, Calm
<1>4. CASE TickSend(j) \/ TickConfirm(j)
  BY <1>4, BothStay DEF TickSend, TickConfirm, persisted, Calm
<1>5. CASE TickAssume(j)
  <2>1. PICK x : x = [jobs[j] EXCEPT !.state = "rolled_back", !.assumed = TRUE] OBVIOUS
  <2>2. x.secs = jobs[j].secs /\ x.written = jobs[j].written
        /\ x.replaced = jobs[j].replaced /\ x.base = jobs[j].base /\ x.state = "rolled_back"
    BY <2>1, Typed DEF Job
  <2>3. jobs' = [jobs EXCEPT ![j] = x] BY <1>5, <2>1, Typed DEF TickAssume, Assume
  <2>4. \A k \in JobIds : /\ jobs'[k].secs = jobs[k].secs
                          /\ PlanStays(k)
                          /\ jobs'[k].state \in InFlight => jobs[k].state \in InFlight
    BY <2>2, <2>3, Typed DEF InFlight, PlanStays
  <2>5. ASSUME NEW s \in Sections
        PROVE rows'[s].base = rows[s].base /\ rows'[s].desired = rows[s].desired
    BY <1>5, JobRows DEF TickAssume, Row
  <2> QED BY <2>4, <2>5 DEF Held, PlansStay, PlanStays, Calm
<1> QED BY <1>1, <1>2, <1>3, <1>4, <1>5

LEMMA OutsideHolds ==
  ASSUME Agent \/ Environment
  PROVE Calm
<1>1. UNCHANGED <<jobs, rows>>
  BY DEF Agent, AgentApply, AgentConfirm, AgentRollback, AgentRead, AgentDeadline,
         ChecksPass, ChecksFail, Environment, Drop, Dial, Reboot, Timeout, AgentPush,
         PushIngested, RouterEdit, Crash, WindowCloses, WindowEnds, persisted
<1> QED BY <1>1, BothStay DEF Calm

\* The base and the draft of what a job carries change in no other step.
LEMMA NextHolds ==
  ASSUME Before, [Next]_vars
  PROVE Calm \/ Resolves
<1>1. CASE UNCHANGED vars
  BY <1>1, BothStay DEF vars, persisted, Calm
<1> QED BY <1>1, ControllerHolds, AdminHolds, TickHolds, OutsideHolds DEF Next

\* Until a detached timer requests a job, the base and the draft of what a job in
\* flight carries change in no step of the controller, the router or the link, but
\* one: the admin settles a conflict.
THEOREM CarriedRowsHoldUnlessResolved ==
  Spec => [][Held \/ Resolves]_<<jobs, rows>>
<1>1. IInv /\ VInv /\ [Next]_vars => [Held \/ Resolves]_<<jobs, rows>>
  BY VNext, NextHolds DEF Calm
<1> QED BY <1>1, Invariance, VInvariance, PTL DEF Spec

-----------------------------------------------------------------------------
(* What a job replaces on the router is what it was planned on.            *)

\* What a step does to the configuration of the router and to the copy it keeps of
\* the one before: nothing, and no job takes off; the window of the job is over, or
\* there was none; a job takes off from the configuration it was planned on; or,
\* where that is possible at all, the router's admin edits in the window.
Rests == UNCHANGED <<uci, snapshot>> /\ \A j \in JobIds : Live(j)' => Live(j)
Lands == \A j \in JobIds : ~Live(j)'
TakesOff ==
  \E j \in JobIds : /\ uci = jobs[j].base /\ uci' = Over(uci, jobs[j].written)
                    /\ snapshot' = uci /\ UNCHANGED jobs
                    /\ \A k \in JobIds : Live(k)' => k = j
Edited == WindowEdits /\ UNCHANGED <<snapshot, fate>>

LEMMA RouterMoves ==
  ASSUME Before, [Next]_vars
  PROVE Rests \/ Lands \/ TakesOff \/ Edited
<1>1. UNCHANGED <<uci, snapshot, fate>> => Rests BY DEF Rests, Live
<1>2. UNCHANGED router => Rests BY <1>1 DEF router
<1>3. ASSUME NEW j \in JobIds, NEW b, Restore(j, b) PROVE Lands
  <2>1. Live(j) /\ fate' = [fate EXCEPT ![j] = "restored"] BY <1>3 DEF Restore
  <2> QED BY <2>1, Typed DEF Before, VInv, AgentOK, OneLive, Live, Lands
<1>4. ASSUME AgentApply PROVE Rests \/ TakesOff
  <2>1. Received("apply") /\ UNCHANGED jobs BY <1>4 DEF AgentApply, persisted
  <2>2. PICK j \in JobIds : j = Head(wire).job BY <2>1, RequestIs
  <2>3. \/ UNCHANGED <<uci, snapshot, fate>>
        \/ /\ UNCHANGED <<uci, snapshot>>
           /\ \E v \in {"restored", "noop"} : fate' = [fate EXCEPT ![j] = v]
        \/ /\ ~AnyLive /\ uci = jobs[j].base /\ uci' = Over(uci, jobs[j].written)
           /\ snapshot' = uci /\ fate' = [fate EXCEPT ![j] = "live"]
    BY <1>4, <2>2 DEF AgentApply, router
  <2>4. CASE /\ UNCHANGED <<uci, snapshot>>
             /\ \E v \in {"restored", "noop"} : fate' = [fate EXCEPT ![j] = v]
    BY <2>4, FateOf DEF Rests, Live
  <2>5. CASE /\ ~AnyLive /\ uci = jobs[j].base /\ uci' = Over(uci, jobs[j].written)
             /\ snapshot' = uci /\ fate' = [fate EXCEPT ![j] = "live"]
    <3>1. \A k \in JobIds : Live(k)' => k = j BY <2>5, FateOf DEF AnyLive, Live
    <3> QED BY <2>1, <2>5, <3>1 DEF TakesOff
  <2> QED BY <1>1, <2>3, <2>4, <2>5
<1>5. ASSUME AgentConfirm PROVE Rests \/ Lands
  <2>1. Received("confirm") BY <1>5 DEF AgentConfirm
  <2>2. PICK j \in JobIds : j = Head(wire).job BY <2>1, RequestIs
  <2>3. UNCHANGED router \/ (Live(j) /\ fate' = [fate EXCEPT ![j] = "kept"])
    BY <1>5, <2>2 DEF AgentConfirm
  <2>4. CASE Live(j) /\ fate' = [fate EXCEPT ![j] = "kept"]
    <3>1. \A k \in JobIds : ~Live(k)'
      BY <2>4, FateOf DEF Before, VInv, AgentOK, OneLive, Live
    <3> QED BY <3>1 DEF Lands
  <2> QED BY <1>2, <2>3, <2>4
<1>6. ASSUME AgentRollback PROVE Rests \/ Lands
  <2>1. Received("rollback") BY <1>6 DEF AgentRollback
  <2>2. PICK j \in JobIds : j = Head(wire).job BY <2>1, RequestIs
  <2> QED BY <1>2, <1>3, <1>6, <2>2 DEF AgentRollback, RestoreAndNotify
<1>7. ASSUME Agent PROVE Rests \/ Lands \/ TakesOff
  <2>1. AgentRead => Rests BY <1>2 DEF AgentRead
  <2>2. ASSUME NEW j \in JobIds, AgentDeadline(j) \/ ChecksFail(j) PROVE Lands
    BY <1>3, <2>2 DEF AgentDeadline, ChecksFail, RestoreAndNotify
  <2>3. ASSUME NEW j \in JobIds, ChecksPass(j) PROVE Rests
    BY <1>1, <2>3 DEF ChecksPass
  <2> QED BY <1>4, <1>5, <1>6, <1>7, <2>1, <2>2, <2>3 DEF Agent
<1>8. ASSUME Environment PROVE Rests \/ Lands \/ Edited
  <2>1. ASSUME NEW s \in Sections, NEW c \in Contents, RouterEdit(s, c)
        PROVE Lands \/ Edited
    BY <2>1 DEF RouterEdit, AnyLive, Live, Lands, Edited
  <2>2. Reboot => Rests \/ Lands BY <1>3 DEF Reboot
  <2>3. (Drop \/ Dial \/ Timeout \/ AgentPush \/ PushIngested \/ Crash
         \/ \E j \in JobIds : WindowCloses(j) \/ WindowEnds(j)) => Rests
    BY <1>2 DEF Drop, Dial, Timeout, AgentPush, PushIngested, Crash, WindowCloses,
       WindowEnds
  <2> QED BY <1>8, <2>1, <2>2, <2>3 DEF Environment
<1>9. ASSUME Controller PROVE Rests
  <2>1. UNCHANGED <<uci, snapshot, fate>>
    BY <1>9 DEF Controller, StartTask, ApplyResults, ApplyResult, AckResults, SendApply,
       AwaitApply, ChainNext, TryConfirm, AwaitConfirm, AwaitRollback,
       OnAgentReconnected, OnPushAccepted, RecordChecksReport, ReadIfConfirmed,
       ReadLater, ReadIfMoved, ReadAndReconcile, AwaitRead, router
  <2> QED BY <1>1, <2>1
<1>10. ASSUME Admin \/ Tick PROVE Rests
  <2>1. UNCHANGED router
    BY <1>10 DEF Admin, RequestApply, DetachedRequest, AdminConfirm, RevertApply, EditSections,
       ResolveConflict, Tick, TickExpire, TickSend, TickConfirm, TickAssume,
       TickNoAnswer, LeavesRouter
  <2> QED BY <1>2, <2>1
<1>11. UNCHANGED vars => Rests BY <1>2 DEF vars
<1> QED BY <1>7, <1>8, <1>9, <1>10, <1>11 DEF Next

\* A job that is live keeps its plan.
LEMMA LivePlanStays ==
  ASSUME Before, PlansStay
  PROVE \A j \in JobIds : Live(j) => PlanStays(j)
BY DEF PlansStay, Before, VInv, JobsTrue, JobTrue, Untouched, Live

\* The configuration a job replaces is the one it was planned on.
AsPlanned == \A j \in JobIds : Live(j) => snapshot = jobs[j].base

LEMMA AsPlannedStays ==
  ASSUME Before, AsPlanned, PlansStay, [Next]_vars
  PROVE AsPlanned'
<1>1. \A j \in JobIds : Live(j) => jobs'[j].base = jobs[j].base
  BY LivePlanStays DEF PlanStays
<1>2. Rests => AsPlanned' BY <1>1 DEF Rests, AsPlanned
<1>3. Lands => AsPlanned' BY DEF Lands, AsPlanned
<1>4. TakesOff => AsPlanned' BY DEF TakesOff, AsPlanned
<1>5. Edited => AsPlanned' BY <1>1 DEF Edited, AsPlanned, Live
<1> QED BY <1>2, <1>3, <1>4, <1>5, RouterMoves

\* What a pending job replaced on the router is exactly the configuration whose
\* hashes the controller had when it planned the job, however late the request
\* came, whatever was retried, restarted or edited in between.
THEOREM ReplacesAsPlanned == Spec => []AsPlanned
<1>1. Init => AsPlanned BY DEF Init, AsPlanned, Live
<1>2. ASSUME IInv, VInv, AsPlanned, [Next]_vars PROVE AsPlanned'
  <2>1. Before BY <1>2, VNext
  <2>2. PlansStay
    BY <1>2, <2>1, NextHolds, ResolveHolds DEF Calm
  <2> QED BY <1>2, <2>1, <2>2, AsPlannedStays
<1> QED BY <1>1, <1>2, Invariance, VInvariance, PTL DEF Spec

-----------------------------------------------------------------------------
(* What the first job replaces is on record: until the router keeps or     *)
(* restores a job, what the controller has of each section's content is    *)
(* what its hashes are of, and a job is planned from both.                 *)

\* No job was kept or restored; nor will one be before the router is back.
NoneEnded == \A j \in JobIds : fate[j] \notin {"kept", "restored"}
NoneOver == NoneEnded /\ \A j \in JobIds : ~(Live(j) /\ window[j] = "over")

\* The rows and the hashes are of one and the same configuration.
OnRecord == NoneOver => \A s \in Sections : rows[s].router = observed[s]
\* So are the two parts of a plan that the router has got, or may get.
PlannedOnRecord ==
  NoneEnded => \A j \in JobIds : Applies(j) \/ Live(j) =>
                 \A s \in jobs[j].secs : jobs[j].replaced[s] = jobs[j].base[s]

\* A window is that of a job the router took; it ends unconfirmed while the router
\* is off.
WindowsBegun == \A j \in JobIds : window[j] # "none" => fate[j] \in {"live", "kept", "restored"}
OverOffline == \A j \in JobIds : Live(j) /\ window[j] = "over" => session = 0

\* The task that sent a job holds the queue: no read came since it was planned.
AwaitsAnswer == run # <<>> /\ Top.f = "awaitApply"
SentOnRecord == AwaitsAnswer => observed = jobs[Top.job].base
\* A job that changes nothing wrote what was on record.
NoopOnRecord ==
  AwaitsAnswer /\ reply.code = "noop" =>
    /\ reply.hash = jobs[Top.job].base
    /\ \A s \in jobs[Top.job].secs : jobs[Top.job].written[s] = jobs[Top.job].base[s]

FInv ==
  /\ OnRecord /\ PlannedOnRecord
  /\ WindowsBegun /\ OverOffline
  /\ SentOnRecord /\ NoopOnRecord

\* What became of a job changes when the router takes it, and when it ends it.
FatesMove ==
  \A j \in JobIds : \/ fate'[j] = fate[j]
                    \/ fate[j] = "live" /\ fate'[j] \in {"kept", "restored"}
                    \/ fate[j] = "none" /\ Applies(j)
\* A window begins with the job; it is over for a live one when the router is off.
WindowsMove ==
  \A j \in JobIds : \/ window'[j] = window[j]
                    \/ /\ window[j] \notin {"none", "over"} /\ UNCHANGED <<fate, session>>
                       /\ window'[j] = "over" /\ Live(j) => session = 0
                    \/ window'[j] = "open" /\ fate'[j] = "live" /\ fate[j] = "none"
\* A session begins when no live job must have been restored.
SessionsMove ==
  session' = session \/ session' = 0
  \/ (UNCHANGED <<fate, window>> /\ \A j \in JobIds : Live(j) => window[j] # "over")
LinkMoves == FatesMove /\ WindowsMove /\ SessionsMove

LEMMA LinkStays ==
  ASSUME UNCHANGED <<fate, window>>, session' = session \/ session' = 0
  PROVE LinkMoves
BY DEF LinkMoves, FatesMove, WindowsMove, SessionsMove

\* Nothing ended after a step means that nothing had before.
LEMMA NoneBefore ==
  ASSUME Grows, WindowsBegun, LinkMoves
  PROVE (NoneEnded' => NoneEnded) /\ (NoneOver' => NoneOver)
<1>1. NoneEnded' => NoneEnded BY DEF NoneEnded, Grows
<1>2. ASSUME NoneOver', NEW j \in JobIds, Live(j), window[j] = "over" PROVE FALSE
  <2>1. fate'[j] = "live"
    BY <1>2 DEF NoneOver, NoneEnded, LinkMoves, FatesMove, Live
  <2>2. window'[j] = "over" BY <1>2 DEF LinkMoves, WindowsMove, Live
  <2> QED BY <1>2, <2>1, <2>2 DEF NoneOver, Live
<1> QED BY <1>1, <1>2 DEF NoneOver

LEMMA WindowsStay ==
  ASSUME Grows, WindowsBegun, OverOffline, LinkMoves
  PROVE WindowsBegun' /\ OverOffline'
<1>1. WindowsBegun'
  BY DEF WindowsBegun, LinkMoves, FatesMove, WindowsMove, Grows
<1>2. OverOffline'
  <2> SUFFICES ASSUME NEW j \in JobIds, fate'[j] = "live", window'[j] = "over"
               PROVE session' = 0
    BY DEF OverOffline, Live
  <2>1. Live(j)
    BY DEF LinkMoves, FatesMove, WindowsMove, WindowsBegun, Live, Grows
  <2>2. CASE window[j] = "over"
    BY <2>1, <2>2 DEF OverOffline, LinkMoves, SessionsMove
  <2>3. CASE window[j] # "over"
    BY <2>1, <2>3 DEF LinkMoves, WindowsMove
  <2> QED BY <2>2, <2>3
<1> QED BY <1>1, <1>2

\* The plans stay, and the router gets no other.
LEMMA PlannedStays ==
  ASSUME Before, Grows, FInv, LinkMoves, PlansStay,
         \A j \in JobIds : Applies(j)' => Applies(j)
  PROVE PlannedOnRecord'
<1> SUFFICES ASSUME NoneEnded', NEW j \in JobIds, Applies(j)' \/ fate'[j] = "live"
             PROVE \A s \in jobs'[j].secs : jobs'[j].replaced[s] = jobs'[j].base[s]
  BY DEF PlannedOnRecord, Live
<1>1. NoneEnded BY NoneBefore DEF FInv
<1>2. Applies(j) \/ Live(j) BY DEF LinkMoves, FatesMove, Live
<1>3. Sent(j)
  BY <1>2 DEF Before, VInv, JobsTrue, JobTrue, Untouched, Live, WireOK, AppliesOnce, Applies
<1>4. PlanStays(j) BY <1>3 DEF PlansStay
<1> QED BY <1>1, <1>2, <1>4 DEF FInv, PlannedOnRecord, PlanStays

-----------------------------------------------------------------------------
(* The steps of the router and of the link.                                *)

\* What the router does to the jobs, and the clock to their windows.
LEMMA OutsideMoves ==
  ASSUME Before, Agent \/ Environment
  PROVE LinkMoves
<1>1. ASSUME UNCHANGED <<router, window>>, session' = session \/ session' = 0 PROVE LinkMoves
  BY <1>1, LinkStays DEF router
<1>2. ASSUME NEW j \in JobIds, NEW b, Restore(j, b), UNCHANGED window,
             session' = session \/ session' = 0
      PROVE LinkMoves
  <2>1. fate'[j] = "restored" /\ fate[j] = "live" /\ \A k \in JobIds \ {j} : fate'[k] = fate[k]
    BY <1>2, FateOf DEF Restore, Live
  <2> QED BY <1>2, <2>1 DEF LinkMoves, FatesMove, WindowsMove, SessionsMove
<1>3. ASSUME AgentApply PROVE LinkMoves
  <2>1. PICK j \in JobIds : j = Head(wire).job /\ Asks(1, "apply", j) /\ 1 \in DOMAIN wire
    BY <1>3, RequestIs DEF AgentApply
  <2>2. Applies(j) /\ fate[j] = "none"
    BY <2>1 DEF Applies, Before, VInv, WireOK, AppliesOnce
  <2>3. UNCHANGED session BY <1>3 DEF AgentApply
  <2>4. \/ UNCHANGED <<router, window>>
        \/ UNCHANGED window /\ \E v : fate' = [fate EXCEPT ![j] = v]
        \/ fate' = [fate EXCEPT ![j] = "live"] /\ window' = [window EXCEPT ![j] = "open"]
    BY <1>3, <2>1 DEF AgentApply
  <2>5. ASSUME NEW v, fate' = [fate EXCEPT ![j] = v] PROVE FatesMove
    BY <2>2, <2>5, FateOf DEF FatesMove
  <2>6. SessionsMove BY <2>3 DEF SessionsMove
  <2>7. CASE fate' = [fate EXCEPT ![j] = "live"] /\ window' = [window EXCEPT ![j] = "open"]
    <3>1. window \in [JobIds -> {"none", "open", "closed", "over"}]
      BY DEF Before, IInv, TypeInv, TypeOK, ClockOK
    <3>2. fate'[j] = "live" BY <2>7, FateOf
    <3>3. WindowsMove BY <2>2, <2>7, <3>1, <3>2 DEF WindowsMove
    <3> QED BY <2>5, <2>6, <2>7, <3>3 DEF LinkMoves
  <2>8. ASSUME UNCHANGED window PROVE WindowsMove BY <2>8 DEF WindowsMove
  <2> QED BY <1>1, <2>3, <2>4, <2>5, <2>6, <2>7, <2>8 DEF LinkMoves
<1>4. ASSUME AgentConfirm PROVE LinkMoves
  <2>1. Received("confirm") BY <1>4 DEF AgentConfirm
  <2>2. PICK j \in JobIds : j = Head(wire).job BY <2>1, RequestIs
  <2>3. UNCHANGED <<session, window>> BY <1>4 DEF AgentConfirm
  <2>4. UNCHANGED router \/ (Live(j) /\ fate' = [fate EXCEPT ![j] = "kept"])
    BY <1>4, <2>2 DEF AgentConfirm
  <2>5. CASE Live(j) /\ fate' = [fate EXCEPT ![j] = "kept"]
    <3>1. fate'[j] = "kept" /\ fate[j] = "live" /\ \A k \in JobIds \ {j} : fate'[k] = fate[k]
      BY <2>5, FateOf DEF Live
    <3> QED BY <2>3, <3>1 DEF LinkMoves, FatesMove, WindowsMove, SessionsMove
  <2> QED BY <1>1, <2>3, <2>4, <2>5
<1>5. ASSUME AgentRollback PROVE LinkMoves
  <2>1. Received("rollback") BY <1>5 DEF AgentRollback
  <2>2. PICK j \in JobIds : j = Head(wire).job BY <2>1, RequestIs
  <2> QED BY <1>1, <1>2, <1>5, <2>2 DEF AgentRollback, RestoreAndNotify
<1>6. ASSUME Agent PROVE LinkMoves
  <2>1. AgentRead => LinkMoves BY <1>1 DEF AgentRead
  <2>2. ASSUME NEW j \in JobIds, AgentDeadline(j) \/ ChecksFail(j) PROVE LinkMoves
    BY <1>2, <2>2 DEF AgentDeadline, ChecksFail, RestoreAndNotify, link
  <2>3. ASSUME NEW j \in JobIds, ChecksPass(j) PROVE LinkMoves
    BY <2>3, LinkStays DEF ChecksPass, link
  <2> QED BY <1>3, <1>4, <1>5, <1>6, <2>1, <2>2, <2>3 DEF Agent
<1>7. ASSUME Environment PROVE LinkMoves
  <2>1. Drop \/ Timeout \/ AgentPush \/ PushIngested \/ Crash => LinkMoves
    BY <1>1 DEF Drop, Timeout, AgentPush, PushIngested, Crash, Closed, link
  <2>2. Reboot => LinkMoves BY <1>2 DEF Reboot, Closed
  <2>3. Dial => LinkMoves
    BY DEF Dial, router, LinkMoves, FatesMove, WindowsMove, SessionsMove
  <2>4. ASSUME NEW s \in Sections, NEW c \in Contents, RouterEdit(s, c) PROVE LinkMoves
    BY <2>4, LinkStays DEF RouterEdit, link
  <2>5. ASSUME NEW j \in JobIds, WindowCloses(j) \/ WindowEnds(j) PROVE LinkMoves
    <3>1. UNCHANGED <<fate, session>>
      BY <2>5 DEF WindowCloses, WindowEnds, router, link
    <3>2. window \in [JobIds -> {"none", "open", "closed", "over"}]
      BY DEF Before, IInv, TypeInv, TypeOK, ClockOK
    <3>3. WindowsMove BY <2>5, <3>1, <3>2 DEF WindowCloses, WindowEnds, WindowsMove
    <3> QED BY <3>1, <3>3 DEF LinkMoves, FatesMove, SessionsMove
  <2> QED BY <1>7, <2>1, <2>2, <2>3, <2>4, <2>5 DEF Environment
<1> QED BY <1>6, <1>7

\* None of them sends an apply.
LEMMA OutsideSends ==
  ASSUME Before, Agent \/ Environment
  PROVE \A j \in JobIds : Applies(j)' => Applies(j)
<1>1. ASSUME UNCHANGED wire PROVE \A j \in JobIds : Applies(j)' => Applies(j)
  BY <1>1 DEF Applies, Asks
<1>2. ASSUME wire' = Tail(wire), wire # <<>> PROVE \A j \in JobIds : Applies(j)' => Applies(j)
  <2>1. \A i \in DOMAIN wire' : i + 1 \in DOMAIN wire /\ wire'[i] = wire[i + 1]
    BY <1>2, Typed
  <2> QED BY <2>1 DEF Applies, Asks
<1>3. ASSUME wire' = <<>> PROVE \A j \in JobIds : Applies(j)' => Applies(j)
  BY <1>3 DEF Applies
<1>4. ASSUME Timeout PROVE \A j \in JobIds : Applies(j)' => Applies(j)
  <2>1. wire' = [i \in DOMAIN wire |-> [wire[i] EXCEPT !.late = TRUE]] BY <1>4 DEF Timeout
  <2>2. \A i \in DOMAIN wire : wire[i] \in Request BY Typed
  <2>3. \A i \in DOMAIN wire : wire'[i].m = wire[i].m /\ (wire'[i].m # "read" => wire'[i].job = wire[i].job)
    BY <2>1, <2>2 DEF Request
  <2>4. DOMAIN wire' = DOMAIN wire BY <2>1
  <2> QED BY <2>3, <2>4 DEF Applies, Asks
<1>5. ASSUME Agent PROVE UNCHANGED wire \/ (wire' = Tail(wire) /\ wire # <<>>)
  BY <1>5 DEF Agent, AgentApply, AgentConfirm, AgentRollback, AgentRead, AgentDeadline,
     ChecksPass, ChecksFail, Received, link
<1>6. ASSUME Environment, ~Timeout PROVE UNCHANGED wire \/ wire' = <<>>
  BY <1>6 DEF Environment, Drop, Dial, Reboot, AgentPush, PushIngested, RouterEdit,
     WindowCloses, WindowEnds, Crash, Closed, link
<1> QED BY <1>1, <1>2, <1>3, <1>4, <1>5, <1>6

NotNoop(a) == a.code # "noop"

\* The answer that a job changes nothing is one to the job awaited.
LEMMA NoopAnswered ==
  ASSUME Before, NoopOnRecord, Agent \/ Environment
  PROVE NoopOnRecord'
<1>1. CASE UNCHANGED <<jobs, run, reply>> BY <1>1 DEF NoopOnRecord, AwaitsAnswer, Top
<1>2. CASE NotNoop(reply') BY <1>2 DEF NoopOnRecord, NotNoop
<1>3. ASSUME AgentApply PROVE NoopOnRecord'
  <2>1. PICK j \in JobIds : j = Head(wire).job /\ Head(wire) = wire[1] /\ 1 \in DOMAIN wire
                            /\ Asks(1, "apply", j)
    BY <1>3, RequestIs DEF AgentApply
  <2>2. UNCHANGED <<jobs, run>> BY <1>3 DEF AgentApply, persisted
  <2>3. CASE UNCHANGED reply BY <1>1, <2>2, <2>3
  <2>4. CASE ~UNCHANGED reply
    <3>1. ~wire[1].late BY <1>3, <2>1, <2>4 DEF AgentApply, Answer
    <3>2. Awaits(wire[1]) BY <2>1, <3>1 DEF Before, VInv, TalkOK, LastIsAwaited
    <3>3. Top.job = j BY <2>1, <3>2 DEF Awaits, Asks
    <3>4. \/ NotNoop(reply')
          \/ /\ uci = jobs[j].base /\ Over(uci, jobs[j].written) = uci
             /\ reply' = [code |-> "noop", hash |-> uci]
      <4>1. \/ \E c \in {"busy", "stale_base", "refused", "pending_confirm"} :
                 Answer([code |-> c])
            \/ \E res \in {Outcome(j, "rolled_back", FALSE, uci, NoPartial)} :
                 Answer([code |-> "apply_failed", res |-> res])
            \/ /\ uci = jobs[j].base /\ Over(uci, jobs[j].written) = uci
               /\ Answer([code |-> "noop", hash |-> uci])
        BY <1>3, <2>1 DEF AgentApply
      <4>2. \A c \in {"busy", "stale_base", "refused", "pending_confirm"} :
              NotNoop([code |-> c])
        BY DEF NotNoop
      <4>3. \A res \in {Outcome(j, "rolled_back", FALSE, uci, NoPartial)} :
              NotNoop([code |-> "apply_failed", res |-> res])
        BY DEF NotNoop
      <4>4. ~Head(wire).late BY <2>1, <3>1
      <4> QED BY <4>1, <4>2, <4>3, <4>4 DEF Answer
    <3>5. PlanOK(jobs[j]) /\ jobs[j].secs \subseteq Sections
      BY JobRows DEF Before, IInv, TypeInv, PlansOK
    <3>6. Over(uci, jobs[j].written) = uci =>
            \A s \in jobs[j].secs : jobs[j].written[s] = uci[s]
      <4>1. \A s \in Sections : Over(uci, jobs[j].written)[s] =
              IF s \in DOMAIN jobs[j].written THEN jobs[j].written[s] ELSE uci[s]
        BY DEF Over
      <4> QED BY <3>5, <4>1 DEF PlanOK
    <3>7. \/ NotNoop(reply')
          \/ /\ reply'.hash = jobs[j].base
             /\ \A s \in jobs[j].secs : jobs[j].written[s] = jobs[j].base[s]
      <4>1. ASSUME reply' = [code |-> "noop", hash |-> uci] PROVE reply'.hash = uci
        BY <4>1
      <4> QED BY <3>4, <3>6, <4>1
    <3>8. Top' = Top /\ jobs' = jobs BY <2>2 DEF Top
    <3> QED BY <1>2, <3>3, <3>7, <3>8 DEF NoopOnRecord
  <2> QED BY <2>3, <2>4
<1>4. ASSUME Agent, ~AgentApply PROVE UNCHANGED <<jobs, run, reply>> \/ NotNoop(reply')
  <2>1. UNCHANGED <<jobs, run>>
    BY <1>4 DEF Agent, AgentConfirm, AgentRollback, AgentRead, AgentDeadline, ChecksPass,
       ChecksFail, persisted
  <2>2. ASSUME AgentConfirm PROVE UNCHANGED reply \/ NotNoop(reply')
    <3>1. \/ \E c \in {"unknown_apply", "not_reconnected", "checks_pending"} :
               Answer([code |-> c])
          \/ Answer([code |-> "confirmed", hash |-> uci])
          \/ \E r \in results : Answer([code |-> "deadline_passed", res |-> r])
      BY <2>2 DEF AgentConfirm
    <3>2. \A r \in results : NotNoop([code |-> "deadline_passed", res |-> r])
      BY DEF NotNoop
    <3>3. \A c \in {"unknown_apply", "not_reconnected", "checks_pending"} :
            NotNoop([code |-> c])
      BY DEF NotNoop
    <3>4. NotNoop([code |-> "confirmed", hash |-> uci]) BY DEF NotNoop
    <3> QED BY <3>1, <3>2, <3>3, <3>4 DEF Answer
  <2>3. ASSUME AgentRollback \/ AgentRead PROVE UNCHANGED reply \/ NotNoop(reply')
    <3>1. \/ Answer([code |-> "rolling_back"]) \/ Answer([code |-> "unknown_apply"])
          \/ Answer([code |-> "read", hash |-> uci])
      BY <2>3 DEF AgentRollback, AgentRead
    <3>2. /\ NotNoop([code |-> "rolling_back"]) /\ NotNoop([code |-> "unknown_apply"])
          /\ NotNoop([code |-> "read", hash |-> uci])
      BY DEF NotNoop
    <3> QED BY <3>1, <3>2 DEF Answer
  <2>4. ASSUME NEW j \in JobIds, AgentDeadline(j) \/ ChecksPass(j) \/ ChecksFail(j)
        PROVE UNCHANGED reply
    BY <2>4 DEF AgentDeadline, ChecksPass, ChecksFail
  <2> QED BY <1>4, <2>1, <2>2, <2>3, <2>4 DEF Agent
<1>5. ASSUME Environment PROVE UNCHANGED <<jobs, run, reply>> \/ NotNoop(reply')
  <2>1. /\ NotNoop([code |-> "offline"]) /\ NotNoop([code |-> "timeout"])
        /\ NotNoop([code |-> "none"])
    BY DEF NotNoop
  <2>2. UNCHANGED <<jobs, run>> \/ Crash
    BY <1>5 DEF Environment, Drop, Dial, Reboot, Timeout, AgentPush, PushIngested, RouterEdit,
       WindowCloses, WindowEnds, persisted, memory
  <2>3. CASE Crash BY <2>1, <2>3 DEF Crash, NoReply
  <2>4. CASE Drop \/ Reboot BY <2>1, <2>2, <2>4 DEF Drop, Reboot, persisted
  <2>5. CASE Timeout BY <2>1, <2>5 DEF Timeout, persisted
  <2>6. CASE ~Crash /\ ~Drop /\ ~Reboot /\ ~Timeout
    <3>1. UNCHANGED reply
      BY <1>5, <2>6 DEF Environment, Dial, AgentPush, PushIngested, RouterEdit,
         WindowCloses, WindowEnds, memory
    <3> QED BY <2>2, <2>6, <3>1
  <2> QED BY <2>3, <2>4, <2>5, <2>6
<1> QED BY <1>1, <1>2, <1>3, <1>4, <1>5

LEMMA OutsideF ==
  ASSUME Before, Grows, FInv, Agent \/ Environment
  PROVE FInv'
<1>1. LinkMoves /\ \A j \in JobIds : Applies(j)' => Applies(j)
  BY OutsideMoves, OutsideSends
<1>2. UNCHANGED <<jobs, rows, observed>> /\ (UNCHANGED run \/ run' = <<>>)
  BY DEF Agent, AgentApply, AgentConfirm, AgentRollback, AgentRead, AgentDeadline,
         ChecksPass, ChecksFail, Environment, Drop, Dial, Reboot, Timeout, AgentPush,
         PushIngested, RouterEdit, Crash, WindowCloses, WindowEnds, persisted, memory
<1>3. NoneOver' => NoneOver BY <1>1, NoneBefore DEF FInv
<1>4. OnRecord' BY <1>2, <1>3 DEF FInv, OnRecord
<1>5. PlansStay BY <1>2 DEF PlansStay, PlanStays
<1>6. PlannedOnRecord' BY <1>1, <1>5, PlannedStays
<1>7. WindowsBegun' /\ OverOffline' BY <1>1, WindowsStay DEF FInv
<1>8. SentOnRecord' BY <1>2 DEF FInv, SentOnRecord, AwaitsAnswer, Top
<1>9. NoopOnRecord' BY NoopAnswered DEF FInv
<1> QED BY <1>4, <1>6, <1>7, <1>8, <1>9 DEF FInv

-----------------------------------------------------------------------------
(* The steps of the controller.                                            *)

\* What they do to the record of the router: nothing; they write a read, both
\* sides of it; or they settle a job that ended, or changed nothing.
Recorded == \A s \in Sections : rows'[s].router = observed'[s]
SameRecord == observed' = observed /\ \A s \in Sections : rows'[s].router = rows[s].router
RecordMoves ==
  \/ SameRecord \/ Recorded
  \/ \E j \in JobIds : fate[j] \in {"kept", "restored"} \/ window[j] = "over"
  \/ AwaitsAnswer /\ reply.code = "noop" /\ FinishConfirmed(Top.job, reply.hash)

LEMMA ResultRecords ==
  ASSUME Before, ApplyResult
  PROVE RecordMoves
<1>1. Running("applyResult") BY DEF ApplyResult
<1>2. run # <<>> /\ Top \in Frame /\ Top.f = "applyResult" /\ FrameTrue(Top)
  BY <1>1, FrameSteps
<1>3. Top.res \in Result /\ TrueResult(Top.res) BY <1>2, FrameFields DEF FrameTrue
<1>4. Top.res.job \in JobIds BY <1>3 DEF Result
<1>5. UNCHANGED persisted \/ Top.res.outcome \in {"confirmed", "rolled_back"}
  BY <1>3 DEF Result
<1>6. Top.res.outcome \in {"confirmed", "rolled_back"} =>
        fate[Top.res.job] \in {"kept", "restored"}
  BY <1>3 DEF TrueResult
<1> QED BY <1>4, <1>5, <1>6 DEF RecordMoves, SameRecord, persisted

LEMMA AnswerRecords ==
  ASSUME Before, AwaitApply \/ AwaitConfirm
  PROVE RecordMoves
<1>1. Running("awaitApply") \/ Running("awaitConfirm")
  BY DEF AwaitApply, AwaitConfirm, Answered
<1>2. run # <<>> /\ Top \in Frame /\ Top.f \in {"awaitApply", "awaitConfirm"}
  BY <1>1, FrameSteps
<1>3. Top.job \in JobIds BY <1>2, FrameFields
<1>4. AnswerTrue BY DEF Before, VInv, TalkOK
<1>5. ASSUME AwaitApply PROVE RecordMoves
  <2>1. Top.f = "awaitApply"
    <3>1. Running("awaitApply") BY <1>5 DEF AwaitApply, Answered
    <3> QED BY <3>1, FrameSteps
  <2>2. UNCHANGED <<rows, observed>> \/ (reply.code = "noop" /\ FinishConfirmed(Top.job, reply.hash))
    BY <1>5 DEF AwaitApply, persisted
  <2> QED BY <1>2, <2>1, <2>2 DEF RecordMoves, SameRecord, AwaitsAnswer
<1>6. ASSUME AwaitConfirm PROVE RecordMoves
  <2>1. UNCHANGED <<rows, observed>> \/ reply.code = "confirmed"
    BY <1>6 DEF AwaitConfirm, persisted
  <2>2. reply.code = "confirmed" => fate[Top.job] = "kept" BY <1>4 DEF AnswerTrue
  <2> QED BY <1>3, <2>1, <2>2 DEF RecordMoves, SameRecord
<1> QED BY <1>5, <1>6

\* A read writes what it saw on both sides.
LEMMA ReadRecords ==
  ASSUME Before, NEW config, Observe(config)
  PROVE Recorded
<1> SUFFICES ASSUME NEW s \in Sections PROVE rows'[s].router = observed'[s]
  BY DEF Recorded
<1>1. rows'[s] = ReconcileRow(s, config[s]) /\ observed' = config BY DEF Observe
<1>2. rows[s] \in Row BY JobRows
<1>3. ReconcileRow(s, config[s]).router = config[s]
  BY <1>2 DEF ReconcileRow, Row
<1> QED BY <1>1, <1>3

LEMMA InsideRecords ==
  ASSUME Before, Controller \/ Admin \/ Tick
  PROVE RecordMoves
<1>1. CASE UNCHANGED <<rows, observed>> BY <1>1 DEF RecordMoves, SameRecord
<1>2. ASSUME Controller, ~UNCHANGED <<rows, observed>>
      PROVE ApplyResult \/ AwaitApply \/ AwaitConfirm \/ AwaitRead
  BY <1>2 DEF Controller, StartTask, ApplyResults, AckResults, SendApply, ChainNext,
     TryConfirm, AwaitRollback, OnAgentReconnected, OnPushAccepted, RecordChecksReport,
     ReadIfConfirmed, ReadLater, ReadIfMoved, ReadAndReconcile, persisted
<1>3. ASSUME AwaitRead, ~UNCHANGED <<rows, observed>> PROVE RecordMoves
  BY <1>3, ReadRecords DEF AwaitRead, RecordMoves
<1>4. ASSUME NEW s \in Sections, NEW x, x.router = rows[s].router,
             rows' = [rows EXCEPT ![s] = x], UNCHANGED observed
      PROVE RecordMoves
  BY <1>4, JobRows DEF RecordMoves, SameRecord
<1>5. ASSUME Admin PROVE RecordMoves
  <2>1. ASSUME NEW s \in Sections, NEW c \in Contents, EditSections(s, c) PROVE RecordMoves
    <3>1. PICK x : x = [rows[s] EXCEPT !.desired = c] OBVIOUS
    <3>2. x.router = rows[s].router BY <3>1, JobRows DEF Row
    <3> QED BY <1>4, <2>1, <3>1, <3>2 DEF EditSections
  <2>2. ASSUME NEW s \in Sections, NEW take, ResolveConflict(s, take) PROVE RecordMoves
    <3>1. UNCHANGED observed /\ \A t \in Sections : rows'[t].router = rows[t].router
      BY <2>2, JobRows DEF ResolveConflict, Row
    <3> QED BY <3>1 DEF RecordMoves, SameRecord
  <2> QED BY <1>1, <1>5, <2>1, <2>2 DEF Admin, RequestApply, DetachedRequest,
         AdminConfirm, RevertApply
<1>6. ASSUME Tick PROVE RecordMoves
  <2>1. PICK j \in JobIds : TickExpire(j) \/ TickSend(j) \/ TickConfirm(j)
                            \/ TickAssume(j) \/ TickNoAnswer(j)
    BY <1>6 DEF Tick
  <2>2. CASE TickAssume(j) BY <2>2 DEF TickAssume, RecordMoves
  <2> QED BY <1>1, <2>1, <2>2 DEF TickExpire, TickSend, TickConfirm, TickNoAnswer, persisted
<1> QED BY <1>1, <1>2, <1>3, <1>5, <1>6, ResultRecords, AnswerRecords

\* What is on record stays of one and the same configuration.
LEMMA RecordStays ==
  ASSUME Before, FInv, UNCHANGED <<fate, window>>, RecordMoves
  PROVE OnRecord'
<1> SUFFICES ASSUME NoneOver' PROVE Recorded
  BY DEF OnRecord, Recorded
<1>1. NoneOver BY DEF NoneOver, NoneEnded, Live
<1>2. \A s \in Sections : rows[s].router = observed[s] BY <1>1 DEF FInv, OnRecord
<1>3. CASE SameRecord BY <1>2, <1>3 DEF SameRecord, Recorded
<1>4. ASSUME NEW j \in JobIds, fate[j] \in {"kept", "restored"} \/ window[j] = "over"
      PROVE FALSE
  BY <1>1, <1>4 DEF NoneOver, NoneEnded, FInv, WindowsBegun, Live
<1>5. CASE AwaitsAnswer /\ reply.code = "noop" /\ FinishConfirmed(Top.job, reply.hash)
  <2>1. PICK j \in JobIds : j = Top.job
    <3>1. Top \in Frame BY <1>5, Typed, OnTail DEF AwaitsAnswer, Top
    <3> QED BY <1>5, <3>1, FrameFields DEF AwaitsAnswer
  <2>2. /\ observed = jobs[j].base /\ reply.hash = jobs[j].base
        /\ \A s \in jobs[j].secs : jobs[j].written[s] = jobs[j].base[s]
    BY <1>5, <2>1 DEF FInv, SentOnRecord, NoopOnRecord
  <2>3. observed' = observed BY <1>5, <2>1, <2>2 DEF FinishConfirmed
  <2>4. ASSUME NEW s \in Sections PROVE rows'[s].router = observed[s]
    <3>1. rows[s] \in Row BY JobRows
    <3>2. rows'[s] = IF s \in jobs[j].secs
                     THEN [rows[s] EXCEPT !.base = jobs[j].written[s],
                                          !.router = jobs[j].written[s]]
                     ELSE rows[s]
      BY <1>5, <2>1 DEF FinishConfirmed
    <3>3. s \in jobs[j].secs => rows'[s].router = jobs[j].written[s] BY <3>1, <3>2 DEF Row
    <3> QED BY <1>2, <2>2, <3>2, <3>3
  <2> QED BY <2>3, <2>4 DEF Recorded
<1> QED BY <1>3, <1>4, <1>5 DEF RecordMoves

\* How a task goes on: a frame returns, or calls one or two, and none awaits the
\* answer to an apply that is not just sent.
Follows(x) == x.f = "awaitApply" => SendApply
GoesOnTo ==
  \/ Return
  \/ \E x \in Frame : Follows(x) /\ Call(<<x>>)
  \/ \E x, y \in Frame : Follows(x) /\ Follows(y) /\ Call(<<x, y>>)

LEMMA ReplyIs ==
  ASSUME Before, reply.code \in {"apply_failed", "deadline_passed"}
  PROVE Settle(reply.res) \in Frame /\ Follows(Settle(reply.res))
<1>1. reply.res \in Result BY Typed, ReplyFields
<1> QED BY <1>1, FrameMakes DEF Settle, Follows

LEMMA ControllerGoesOn ==
  ASSUME Before, Controller, ~StartTask
  PROVE run # <<>> /\ GoesOnTo
<1>0. /\ \A fn \in {"sendApply", "tryConfirm", "awaitConfirm", "chainNext",
                    "readIfConfirmed"}, j \in JobIds :
           CallOf(fn, j) \in Frame /\ Follows(CallOf(fn, j))
      /\ \A j \in JobIds : /\ CallOf("awaitApply", j) \in Frame
                           /\ SendApply => Follows(CallOf("awaitApply", j))
      /\ Read \in Frame /\ Follows(Read)
      /\ [f |-> "awaitRead"] \in Frame /\ Follows([f |-> "awaitRead"])
  BY FrameMakes, PlainFrames, AwaitFrame DEF Follows, CallOf, Read
<1>1. \A fn : Running(fn) => run # <<>> /\ Top \in Frame /\ Top.f = fn
  BY TopIs DEF Before
<1>2. ASSUME ApplyResults PROVE run # <<>> /\ GoesOnTo
  <2>1. Running("applyResults") BY <1>2 DEF ApplyResults
  <2>3. Top.set \subseteq Result BY <1>1, <2>1, FrameFields
  <2>4. ASSUME NEW r \in Top.set,
               Call(<<Settle(r), [f |-> "applyResults", set |-> Top.set \ {r}]>>)
        PROVE GoesOnTo
    <3>1. PICK x \in Frame, y \in Frame :
            /\ x = Settle(r) /\ y = [f |-> "applyResults", set |-> Top.set \ {r}]
      BY <2>3, FrameMakes
    <3>2. Follows(x) /\ Follows(y) BY <3>1 DEF Follows, Settle
    <3>3. Call(<<x, y>>) BY <2>4, <3>1 DEF Call
    <3> QED BY <3>2, <3>3 DEF GoesOnTo
  <2> QED BY <1>1, <1>2, <2>1, <2>4 DEF ApplyResults, GoesOnTo
<1>3. ASSUME ApplyResult PROVE run # <<>> /\ GoesOnTo
  <2>1. Running("applyResult") BY <1>3 DEF ApplyResult
  <2>2. PICK res \in Result : res = Top.res BY <1>1, <2>1, FrameFields
  <2>3. PICK ack \in Frame : ack = [f |-> "ackResults", res |-> res] BY FrameMakes
  <2>4. res.job \in JobIds BY DEF Result
  <2>5. PICK next \in Frame : next = CallOf("chainNext", res.job) BY <1>0, <2>4
  <2>6. Follows(ack) /\ Follows(next) BY <1>0, <2>3, <2>4, <2>5 DEF Follows
  <2>7. Call(<<ack>>) \/ Call(<<next, ack>>)
    BY <1>3, <2>2, <2>3, <2>5 DEF ApplyResult, Call
  <2> QED BY <1>1, <2>1, <2>6, <2>7 DEF GoesOnTo
<1>4. CASE AckResults \/ AwaitRollback \/ ReadIfConfirmed \/ ReadLater \/ AwaitRead
  BY <1>1, <1>4 DEF AckResults, AwaitRollback, ReadIfConfirmed, ReadLater, AwaitRead,
     Answered, GoesOnTo
<1>5. CASE SendApply \/ TryConfirm
  <2>1. Running("sendApply") \/ Running("tryConfirm") BY <1>5 DEF SendApply, TryConfirm
  <2>2. run # <<>> /\ Top.job \in JobIds BY <1>1, <2>1, FrameFields
  <2>3. \/ Return
        \/ SendApply /\ Call(<<CallOf("awaitApply", Top.job)>>)
        \/ Call(<<CallOf("awaitConfirm", Top.job)>>)
    BY <1>5 DEF SendApply, TryConfirm
  <2> QED BY <1>0, <2>2, <2>3 DEF GoesOnTo
<1>6. CASE AwaitApply \/ AwaitConfirm
  <2>1. Running("awaitApply") \/ Running("awaitConfirm")
    BY <1>6 DEF AwaitApply, AwaitConfirm, Answered
  <2>2. run # <<>> /\ Top.job \in JobIds BY <1>1, <2>1, FrameFields
  <2>3. \/ Return
        \/ /\ reply.code \in {"apply_failed", "deadline_passed"}
           /\ Call(<<Settle(reply.res)>>)
        \/ Call(<<Read, CallOf("sendApply", Top.job)>>)
        \/ Call(<<CallOf("chainNext", Top.job)>>)
    BY <1>6 DEF AwaitApply, AwaitConfirm
  <2> QED BY <1>0, <2>2, <2>3, ReplyIs DEF GoesOnTo
<1>7. CASE ChainNext
  <2>1. run # <<>> BY <1>1, <1>7 DEF ChainNext
  <2> QED BY <1>0, <1>7, <2>1 DEF ChainNext, GoesOnTo
<1>8. CASE OnAgentReconnected \/ OnPushAccepted
  <2>1. run # <<>> BY <1>1, <1>8 DEF OnAgentReconnected, OnPushAccepted
  <2>2. \/ Return
        \/ \E j \in JobIds :
             \/ Call(<<CallOf("tryConfirm", j)>>)
             \/ Call(<<CallOf("tryConfirm", j), CallOf("readIfConfirmed", j)>>)
    BY <1>8 DEF OnAgentReconnected, OnPushAccepted
  <2> QED BY <1>0, <2>1, <2>2 DEF GoesOnTo
<1>9. CASE RecordChecksReport
  <2>1. run # <<>> /\ Top.job \in JobIds BY <1>1, <1>9, FrameFields DEF RecordChecksReport
  <2>2. Return \/ Call(<<CallOf("tryConfirm", Top.job)>>) BY <1>9 DEF RecordChecksReport
  <2> QED BY <1>0, <2>1, <2>2 DEF GoesOnTo
<1>10. CASE ReadIfMoved \/ ReadAndReconcile
  <2>1. run # <<>> BY <1>1, <1>10 DEF ReadIfMoved, ReadAndReconcile
  <2>2. Return \/ Call(<<Read>>) \/ Call(<<[f |-> "awaitRead"]>>)
    BY <1>10 DEF ReadIfMoved, ReadAndReconcile
  <2> QED BY <1>0, <2>1, <2>2 DEF GoesOnTo
<1> QED BY <1>2, <1>3, <1>4, <1>5, <1>6, <1>7, <1>8, <1>9, <1>10 DEF Controller

\* A frame that returns uncovers none that awaits an apply.
LEMMA GoesElsewhere ==
  ASSUME Before, Controller, ~SendApply
  PROVE ~AwaitsAnswer'
<1>1. ASSUME StartTask PROVE ~AwaitsAnswer'
  <2>1. Head(queue) \in Task BY <1>1, Typed, OnTail DEF StartTask
  <2>2. run' \in Seq(Frame) /\ Clear(run')
    BY <1>1, <2>1, HandlerClear, Typed DEF StartTask, Before
  <2>3. run' # <<>> => Head(run').f \notin Relies BY <2>2, ClearTail
  <2> QED BY <2>3 DEF AwaitsAnswer, Top, Relies
<1>2. ASSUME ~StartTask PROVE ~AwaitsAnswer'
  <2>1. run # <<>> /\ GoesOnTo BY <1>2, ControllerGoesOn
  <2>2. Tail(run) \in Seq(Frame) BY <2>1, Typed
  <2>3. CASE Return
    <3>1. Clear(Tail(run)) \/ Head(Tail(run)).f = "sendApply"
      BY <2>1 DEF Before, IInv, StackOK
    <3>2. run' # <<>> => Head(run').f # "awaitApply"
      BY <2>2, <2>3, <3>1, ClearTail DEF Return, Relies
    <3> QED BY <3>2 DEF AwaitsAnswer, Top
  <2>4. ASSUME NEW x \in Frame, Follows(x), NEW y \in Frame, Call(<<x>>) \/ Call(<<x, y>>)
        PROVE ~AwaitsAnswer'
    <3>1. x.f # "awaitApply" BY <2>4 DEF Follows
    <3>2. Head(run') = x BY <2>2, <2>4, Push1, Push2 DEF Call
    <3> QED BY <3>1, <3>2 DEF AwaitsAnswer, Top
  <2> QED BY <2>1, <2>3, <2>4 DEF GoesOnTo
<1> QED BY <1>1, <1>2

\* Another request than an apply leaves those on the wire.
LEMMA OtherAsked ==
  ASSUME Before, NEW r \in Request, r.m # "apply", Ask(r)
  PROVE \A j \in JobIds : Applies(j)' => Applies(j)
<1>1. \A i \in DOMAIN wire' : wire'[i] = r \/ (i \in DOMAIN wire /\ wire'[i] = wire[i])
  BY Typed DEF Ask
<1> QED BY <1>1 DEF Applies, Asks

\* All but one of the controller's steps send no apply and await none.
LEMMA InsideQuiet ==
  ASSUME Before, Controller \/ Admin \/ Tick, ~SendApply
  PROVE ~AwaitsAnswer' /\ \A j \in JobIds : Applies(j)' => Applies(j)
<1>1. ASSUME UNCHANGED wire PROVE \A j \in JobIds : Applies(j)' => Applies(j)
  BY <1>1 DEF Applies, Asks
<1>2. ASSUME Controller PROVE ~AwaitsAnswer' /\ \A j \in JobIds : Applies(j)' => Applies(j)
  <2>1. ASSUME TryConfirm PROVE \A j \in JobIds : Applies(j)' => Applies(j)
    <3>1. Running("tryConfirm") BY <2>1 DEF TryConfirm
    <3>2. Top.job \in JobIds BY <3>1, FrameSteps, FrameFields
    <3>3. \A b \in BOOLEAN : [m |-> "confirm", job |-> Top.job, late |-> FALSE, override |-> b]
            \in Request
      BY <3>2 DEF Request
    <3>4. UNCHANGED wire \/ \E b \in BOOLEAN :
            Ask([m |-> "confirm", job |-> Top.job, late |-> FALSE, override |-> b])
      BY <2>1 DEF TryConfirm
    <3> QED BY <1>1, <3>3, <3>4, OtherAsked
  <2>2. ASSUME ReadAndReconcile PROVE \A j \in JobIds : Applies(j)' => Applies(j)
    <3>1. [m |-> "read", late |-> FALSE] \in Request BY DEF Request
    <3> QED BY <1>1, <2>2, <3>1, OtherAsked DEF ReadAndReconcile
  <2>3. TryConfirm \/ ReadAndReconcile \/ UNCHANGED wire
    BY <1>2 DEF Controller, StartTask, ApplyResults, ApplyResult, AckResults, AwaitApply,
       ChainNext, AwaitConfirm, AwaitRollback, OnAgentReconnected, OnPushAccepted,
       RecordChecksReport, ReadIfConfirmed, ReadLater, ReadIfMoved, AwaitRead, link
  <2> QED BY <1>1, <1>2, <2>1, <2>2, <2>3, GoesElsewhere
<1>3. ASSUME Admin \/ Tick PROVE ~AwaitsAnswer' /\ \A j \in JobIds : Applies(j)' => Applies(j)
  <2>1. \/ run' = <<>>
        \/ \E fn \in {"sendApply", "tryConfirm", "awaitRollback"}, j \in JobIds :
             run' = <<CallOf(fn, j)>>
        \/ \E j \in JobIds : DetachedRequest(j)
    BY <1>3 DEF Admin, RequestApply, AdminConfirm, RevertApply, EditSections,
       ResolveConflict, Tick, TickExpire, TickSend, TickConfirm, TickAssume, TickNoAnswer, Idle
  <2>5. ASSUME NEW j \in JobIds, DetachedRequest(j) PROVE ~AwaitsAnswer'
    <3>1. run # <<>> /\ Top \in Frame /\ run \in Seq(Frame) /\ ~HasOpenApply
      BY <2>5, Typed DEF DetachedRequest, Idle, Top
    <3>2. Top.f # "awaitApply"
      BY <3>1, FrameFields DEF Before, IInv, HoldsJob, HasOpenApply, Open
    <3>3. CASE UNCHANGED run BY <3>2, <3>3 DEF AwaitsAnswer, Top
    <3>4. CASE run' = <<CallOf("sendApply", j)>> \o run
      <4>1. Head(run') = CallOf("sendApply", j) BY <3>1, <3>4, FrameMakes, Push1
      <4> QED BY <4>1 DEF AwaitsAnswer, Top, CallOf
    <3> QED BY <2>5, <3>3, <3>4 DEF DetachedRequest
  <2>2. ~AwaitsAnswer' BY <2>1, <2>5 DEF AwaitsAnswer, Top, CallOf
  <2>3. ASSUME NEW j \in JobIds, RevertApply(j)
        PROVE \A k \in JobIds : Applies(k)' => Applies(k)
    <3>1. [m |-> "rollback", job |-> j, override |-> FALSE, late |-> FALSE] \in Request
      BY DEF Request
    <3> QED BY <1>1, <2>3, <3>1, OtherAsked DEF RevertApply
  <2>4. UNCHANGED wire \/ \E j \in JobIds : RevertApply(j)
    BY <1>3 DEF Admin, RequestApply, DetachedRequest, AdminConfirm, EditSections,
       ResolveConflict, Tick, TickExpire, TickSend, TickConfirm, TickAssume, TickNoAnswer,
       LeavesRouter, link
  <2> QED BY <1>1, <2>2, <2>3, <2>4
<1> QED BY <1>2, <1>3

\* The job that is sent is planned from what is on record.
LEMMA SendPlanned ==
  ASSUME Before, FInv, PlansStay, SendApply
  PROVE PlannedOnRecord' /\ SentOnRecord' /\ NoopOnRecord'
<1>1. Running("sendApply") BY DEF SendApply
<1>2. run # <<>> /\ Top \in Frame /\ Top.f = "sendApply" /\ (UNCHANGED reply => Steps)
  BY <1>1, FrameSteps
<1>3. UNCHANGED <<reply, fate, session, window, observed, rows>>
  BY DEF SendApply, router
<1>4. reply'.code # "noop" BY <1>2, <1>3 DEF Steps, NoReply
<1>5. NoopOnRecord' BY <1>4 DEF NoopOnRecord
<1>6. LinkMoves BY <1>3, LinkStays
<1>7. CASE ~UNCHANGED wire
  <2>1. PICK j \in JobIds : j = Top.job BY <1>2, FrameFields
  <2>2. /\ session # 0
        /\ jobs' = [jobs EXCEPT ![j] = [WithPlan(@) EXCEPT !.state = "sending",
                                                           !.sentIn = session]]
        /\ Ask([m |-> "apply", job |-> j, override |-> FALSE, late |-> FALSE])
        /\ Call(<<CallOf("awaitApply", j)>>)
    BY <1>7, <2>1 DEF SendApply
  <2>3. PICK x : x = [WithPlan(jobs[j]) EXCEPT !.state = "sending", !.sentIn = session]
    OBVIOUS
  <2>4. jobs[j] \in Job BY Typed
  <2>5. /\ x.secs = Planned /\ x.base = observed
        /\ x.replaced = [s \in Planned |-> rows[s].router]
    BY <2>3, <2>4 DEF WithPlan, Job
  <2>6. jobs'[j] = x /\ \A k \in JobIds \ {j} : jobs'[k] = jobs[k] BY <2>2, <2>3, Typed
  <2>7. ASSUME NoneEnded' PROVE \A s \in x.secs : x.replaced[s] = x.base[s]
    <3>1. NoneEnded BY <1>3, <2>7 DEF NoneEnded
    <3>2. NoneOver BY <2>2, <3>1 DEF NoneOver, FInv, OverOffline
    <3>3. \A s \in Planned : s \in Sections BY PlannedSections
    <3> QED BY <2>5, <3>2, <3>3 DEF FInv, OnRecord
  <2>8. \A k \in JobIds \ {j} : Applies(k)' => Applies(k)
    <3>1. PICK r \in Request : r = [m |-> "apply", job |-> j, override |-> FALSE, late |-> FALSE]
      BY DEF Request
    <3>2. wire' = Append(wire, r) /\ wire \in Seq(Request) BY <2>2, <3>1, Typed DEF Ask
    <3>3. \A i \in DOMAIN wire' : wire'[i] = r \/ (i \in DOMAIN wire /\ wire'[i] = wire[i])
      BY <3>2, AppendedAt
    <3> QED BY <3>1, <3>3 DEF Applies, Asks
  <2>9. PlannedOnRecord'
    <3> SUFFICES ASSUME NoneEnded', NEW k \in JobIds, Applies(k)' \/ fate'[k] = "live"
                 PROVE \A s \in jobs'[k].secs : jobs'[k].replaced[s] = jobs'[k].base[s]
      BY DEF PlannedOnRecord, Live
    <3>1. CASE k = j BY <2>6, <2>7, <3>1
    <3>2. CASE k # j
      <4>1. NoneEnded BY <1>3 DEF NoneEnded
      <4> QED BY <1>3, <2>6, <2>8, <3>2, <4>1 DEF FInv, PlannedOnRecord, Live
    <3> QED BY <3>1, <3>2
  <2>10. Top' = CallOf("awaitApply", j)
    <3>1. Tail(run) \in Seq(Frame) BY <1>2, Typed
    <3>2. CallOf("awaitApply", j) \in Frame BY FrameMakes
    <3> QED BY <2>2, <3>1, <3>2, Push1 DEF Call, Top
  <2>11. SentOnRecord' BY <1>3, <2>5, <2>6, <2>10 DEF SentOnRecord, CallOf
  <2> QED BY <1>5, <2>9, <2>11
<1>8. CASE UNCHANGED wire
  <2>1. \A j \in JobIds : Applies(j)' => Applies(j) BY <1>8 DEF Applies, Asks
  <2>2. Grows BY <1>3 DEF Grows
  <2>3. PlannedOnRecord' BY <1>6, <2>1, <2>2, PlannedStays
  <2>4. Return
    <3>1. PICK r \in Request, j \in JobIds :
            j = Top.job /\ r = [m |-> "apply", job |-> j, override |-> FALSE, late |-> FALSE]
      BY <1>2, FrameFields DEF Request
    <3>2. Append(wire, r) # wire BY Typed
    <3> QED BY <1>8, <3>1, <3>2 DEF SendApply, Ask
  <2>5. ~AwaitsAnswer'
    <3>1. Clear(Tail(run)) /\ Tail(run) \in Seq(Frame) BY <1>2, Typed DEF Before, IInv, StackOK
    <3>2. run' # <<>> => Head(run').f \notin Relies BY <2>4, <3>1, ClearTail DEF Return
    <3> QED BY <3>2 DEF AwaitsAnswer, Top, Relies
  <2> QED BY <1>5, <2>3, <2>5 DEF SentOnRecord
<1> QED BY <1>7, <1>8

LEMMA InsideF ==
  ASSUME Before, FInv, PlansStay, Controller \/ Admin \/ Tick
  PROVE FInv'
<1>1. UNCHANGED <<fate, window, session>>
  BY DEF Controller, StartTask, ApplyResults, ApplyResult, AckResults, SendApply,
     AwaitApply, ChainNext, TryConfirm, AwaitConfirm, AwaitRollback, OnAgentReconnected,
     OnPushAccepted, RecordChecksReport, ReadIfConfirmed, ReadLater, ReadIfMoved,
     ReadAndReconcile, AwaitRead, router, link, Admin, RequestApply, DetachedRequest, AdminConfirm,
     RevertApply, EditSections, ResolveConflict, Tick, TickExpire, TickSend, TickConfirm,
     TickAssume, TickNoAnswer, LeavesRouter
<1>2. LinkMoves /\ Grows BY <1>1, LinkStays DEF Grows
<1>3. OnRecord' BY <1>1, InsideRecords, RecordStays
<1>4. WindowsBegun' /\ OverOffline' BY <1>2, WindowsStay DEF FInv
<1>5. PlannedOnRecord' /\ SentOnRecord' /\ NoopOnRecord'
  <2>1. CASE SendApply BY <2>1, SendPlanned
  <2>2. CASE ~SendApply
    <3>1. ~AwaitsAnswer' /\ \A j \in JobIds : Applies(j)' => Applies(j)
      BY <2>2, InsideQuiet
    <3> QED BY <1>2, <3>1, PlannedStays DEF SentOnRecord, NoopOnRecord
  <2> QED BY <2>1, <2>2
<1> QED BY <1>3, <1>4, <1>5 DEF FInv

LEMMA FNext ==
  ASSUME IInv, VInv, FInv, [Next]_vars
  PROVE FInv'
<1>1. Before /\ Grows BY VNext
<1>2. PlansStay BY <1>1, NextHolds, ResolveHolds DEF Calm
<1>3. CASE UNCHANGED vars
  BY <1>3 DEF vars, persisted, memory, link, router, FInv, OnRecord, NoneOver, NoneEnded,
     PlannedOnRecord, WindowsBegun, OverOffline, SentOnRecord, NoopOnRecord, AwaitsAnswer,
     Top, Live, Applies, Asks
<1> QED BY <1>1, <1>2, <1>3, InsideF, OutsideF DEF Next

LEMMA FInit ==
  ASSUME Init
  PROVE FInv
<1>1. PICK c \in Config :
        /\ observed = c
        /\ rows = [s \in Sections |->
                    [base |-> c[s], router |-> c[s], desired |-> c[s],
                     conflict |-> "none", discarded |-> c[s]]]
  BY DEF Init
<1>2. /\ \A j \in JobIds : fate[j] = "none" /\ window[j] = "none"
      /\ run = <<>> /\ wire = <<>>
  BY DEF Init
<1>3. OnRecord BY <1>1 DEF OnRecord
<1>4. PlannedOnRecord BY <1>2 DEF PlannedOnRecord, Applies, Live
<1> QED BY <1>2, <1>3, <1>4 DEF FInv, WindowsBegun, OverOffline, SentOnRecord, NoopOnRecord,
           AwaitsAnswer, Live

\* The first job the router takes replaces only what was on record.
FirstReplaces ==
  \A j \in JobIds : Live(j) /\ NoneEnded =>
    \A s \in jobs[j].secs : snapshot[s] = jobs[j].replaced[s]

LEMMA FirstOnRecord ==
  ASSUME FInv, AsPlanned
  PROVE FirstReplaces
<1> SUFFICES ASSUME NEW j \in JobIds, Live(j), NoneEnded, NEW s \in jobs[j].secs
             PROVE snapshot[s] = jobs[j].replaced[s]
  BY DEF FirstReplaces
<1>1. snapshot = jobs[j].base BY DEF AsPlanned
<1>2. jobs[j].replaced[s] = jobs[j].base[s] BY DEF FInv, PlannedOnRecord
<1> QED BY <1>1, <1>2

\* Nobody's edit is lost unseen to the first job the router takes, whenever it was
\* made, whatever was read, refused, timed out or restarted before, and however
\* late the request came (the base hashes of gateway.config.apply, sendApply's
\* re-planning, the retry after stale_base).
THEOREM FirstReplacesOnRecord == Spec => []FirstReplaces
<1>1. Init => FInv BY FInit
<1>2. IInv /\ VInv /\ FInv /\ [Next]_vars => FInv' BY FNext
<1>3. FInv /\ AsPlanned => FirstReplaces BY FirstOnRecord
<1> QED BY <1>1, <1>2, <1>3, Invariance, VInvariance, ReplacesAsPlanned, PTL DEF Spec
=============================================================================
