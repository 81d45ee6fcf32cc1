-------------------------- MODULE UpdateJobProofs --------------------------
(***************************************************************************)
(* For any number of jobs, restages and events, and however the pass, the  *)
(* reports and the aborts overlap: the types of the update jobs of a       *)
(* device; the record agrees with the device (VInv); and only an open job  *)
(* holds the unique key, which an open job loses only by being closed and  *)
(* opened again (KInv).                                                    *)
(***************************************************************************)
EXTENDS UpdateJob, SequenceTheorems, TLAPS

\* The device is at work for an update only.
AtWork == dev.phase # "none" => dev.active # 0

TInv == StateOK /\ AtWork

LEMMA Constants == /\ MaxJobs \in Nat \ {0} /\ MaxRestages \in Nat /\ MaxEvents \in Nat
BY JobAssumption

LEMMA SavedRow ==
  ASSUME NEW now \in Row, NEW copy \in Row, NEW new \in Row
  PROVE  /\ Saved(now, copy, new) \in Row
         /\ copy = now => Saved(now, copy, new) = new
BY DEF Saved, Row

LEMMA ToRow ==
  ASSUME NEW copy \in Row, NEW s \in Open \cup Final
  PROVE  /\ To(copy, s) \in Row
         /\ To(copy, s).state = s
         /\ To(copy, s).key <=> copy.key /\ s \in Open
         /\ To(copy, s).restages = copy.restages
BY DEF To, Row

LEMMA SaveTyped ==
  ASSUME StateOK, NEW j \in Jobs, NEW copy \in Row, NEW new \in Row, Save(j, copy, new)
  PROVE  row' \in [Jobs -> Row] /\ hold' \in BOOLEAN
<1>1. Saved(row[j], copy, new) \in Row
  BY SavedRow DEF StateOK
<1> QED BY <1>1 DEF Save, StateOK

LEMMA MoveTyped ==
  ASSUME StateOK, NEW j \in Jobs, NEW s \in Open \cup Final, Move(j, s)
  PROVE  row' \in [Jobs -> Row] /\ hold' \in BOOLEAN
<1>1. row[j] \in Row
  BY DEF StateOK
<1>2. To(row[j], s) \in Row
  BY <1>1, ToRow
<1> QED BY <1>1, <1>2, SaveTyped DEF Move

LEMMA SettledRow ==
  ASSUME StateOK, NEW r \in Result
  PROVE  Settled(r) \in Row
<1> DEFINE now == row[r.job]
<1>1. r.job \in Jobs /\ now \in Row
  BY DEF StateOK, Result
<1>2. \A s \in Open \cup Final : To(now, s) \in Row /\ To(now, s).restages = now.restages
  BY <1>1, ToRow
<1>3. {"staged", "queued", "failed"} \subseteq Open \cup Final
  BY DEF Open, Final, InFlight
<1>4. now.restages < MaxRestages
        => [To(now, "queued") EXCEPT !.restages = now.restages + 1] \in Row
  BY <1>1, <1>2, <1>3, Constants DEF Row
<1>5. r.outcome \in {"staged", "url_expired"} \/ r.outcome \in Open \cup Final
  BY DEF Result, Final
<1> HIDE DEF now
<1>6. [To(now, "queued") EXCEPT !.restages = @ + 1]
        = [To(now, "queued") EXCEPT !.restages = now.restages + 1]
  BY <1>2, <1>3 DEF Row
<1> QED BY <1>1, <1>2, <1>3, <1>4, <1>5, <1>6 DEF Settled, now

LEMMA SettleTyped ==
  ASSUME StateOK, NEW r \in Result, Settle(r)
  PROVE  row' \in [Jobs -> Row] /\ hold' \in BOOLEAN
<1>1. Settled(r) \in Row /\ r.job \in Jobs /\ row[r.job] \in Row
  BY SettledRow DEF StateOK, Result
<1> QED BY <1>1, SaveTyped DEF Settle, Keep, StateOK

LEMMA ResyncedRow ==
  ASSUME StateOK, NEW j \in Jobs
  PROVE  Resynced(j) \in Row
<1>1. row[j] \in Row
  BY DEF StateOK
<1>2. \A s \in Open \cup Final : To(row[j], s) \in Row
  BY <1>1, ToRow
<1>3. {"staged", "confirmed", "failed"} \subseteq Open \cup Final
  BY DEF Open, Final, InFlight
<1> QED BY <1>1, <1>2, <1>3 DEF Resynced

LEMMA NoCallTyped == NoCall \in Call /\ NoRow \in Row
BY Constants DEF NoCall, Call, Answers, NoRow, Row, Jobs

LEMMA FailedTyped ==
  ASSUME NEW c \in Call
  PROVE  Failed(c) \in Call
BY DEF Failed, Call, Answers


LEMMA InitTyped == Init => TInv
<1> SUFFICES ASSUME Init PROVE TInv
  OBVIOUS
<1>1. /\ row \in [Jobs -> Row] /\ tick \in Call /\ confirm \in Call /\ abort \in Call
  BY NoCallTyped DEF Init
<1>2. /\ wire \in Seq(Request) /\ notes \in Seq(Result)
      /\ report \in [busy : BOOLEAN, todo : SUBSET Result, sent : SUBSET Result]
  BY DEF Init, NoReport
<1>3. /\ session \in [up : BOOLEAN, runs : 0..MaxJobs, active : 0..MaxJobs, phase : Phases,
                      after : SUBSET Jobs]
      /\ dev \in [runs : 0..MaxJobs, old : 0..MaxJobs, active : 0..MaxJobs, phase : Phases,
                  results : SUBSET Result, kept : SUBSET Jobs]
  BY Constants DEF Init, Phases
<1>4. hold = FALSE /\ ticked = FALSE /\ apply \in {"none", "pending", "early"}
  BY DEF Init
<1>5. events \in 0..MaxEvents
  BY Constants DEF Init
<1>6. AtWork
  BY DEF Init, AtWork
<1> QED BY <1>1, <1>2, <1>3, <1>4, <1>5, <1>6 DEF TInv, StateOK

\* What an action leaves alone keeps its type.
LEMMA CallTyped ==
  ASSUME StateOK, NEW j \in Jobs, NEW op \in Asks \cup Ops
  PROVE  /\ Sent(op, j) \in Call
         /\ Send(op, j) /\ op \in Asks => wire' \in Seq(Request)
<1>1. row[j] \in Row
  BY DEF StateOK
<1>2. Sent(op, j) \in Call
  BY <1>1 DEF Sent, Call, Answers
<1>3. op \in Asks => [op |-> op, job |-> j, live |-> TRUE] \in Request
  BY DEF Request
<1>4. op \in Asks => Append(wire, [op |-> op, job |-> j, live |-> TRUE]) \in Seq(Request)
  BY <1>3, AppendProperties DEF StateOK
<1> QED BY <1>2, <1>4 DEF Send

LEMMA TickSends ==
  ASSUME StateOK, NEW op \in Asks, Send(op, tick.job)
  PROVE  wire' \in Seq(Request)
<1>1. tick.job \in Jobs
  BY DEF StateOK, Call
<1> QED BY <1>1, CallTyped

LEMMA HappensTyped == ASSUME StateOK, Happens PROVE events' \in 0..MaxEvents
BY Constants DEF StateOK, Happens

LEMMA DownTyped ==
  ASSUME StateOK, Down
  PROVE  /\ tick' \in Call /\ confirm' \in Call /\ abort' \in Call
         /\ wire' \in Seq(Request) /\ notes' \in Seq(Result)
         /\ report' \in [busy : BOOLEAN, todo : SUBSET Result, sent : SUBSET Result]
         /\ session' \in [up : BOOLEAN, runs : 0..MaxJobs, active : 0..MaxJobs,
                          phase : Phases, after : SUBSET Jobs]
<1>1. tick' \in Call /\ confirm' \in Call /\ abort' \in Call
  BY FailedTyped DEF StateOK, Down
<1>2. wire' \in Seq(Request) /\ notes' \in Seq(Result)
  BY DEF Down
<1>3. report' \in [busy : BOOLEAN, todo : SUBSET Result, sent : SUBSET Result]
  BY DEF Down, StateOK
<1>4. session' \in [up : BOOLEAN, runs : 0..MaxJobs, active : 0..MaxJobs,
                    phase : Phases, after : SUBSET Jobs]
  BY DEF Down, StateOK
<1> QED BY <1>1, <1>2, <1>3, <1>4

LEMMA PassTyped == ASSUME TInv, Pass PROVE TInv'
<1> USE DEF TInv, AtWork, calls, link
<1>1. CASE RefreshInFlight
  BY <1>1 DEF RefreshInFlight, StateOK
<1>2. CASE StageAnswered
  <2>1. tick.job \in Jobs /\ tick.copy \in Row
    BY DEF StateOK, Call
  <2>2. \A s \in Open \cup Final : To(tick.copy, s) \in Row
    BY <2>1, ToRow
  <2>3. row' \in [Jobs -> Row] /\ hold' \in BOOLEAN
    <3>1. \/ Keep
          \/ \E s \in {"staging", "staged", "failed"} :
               Save(tick.job, tick.copy, To(tick.copy, s))
      BY <1>2 DEF StageAnswered
    <3>2. {"staging", "staged", "failed"} \subseteq Open \cup Final
      BY DEF Open, Final, InFlight
    <3> QED BY <2>1, <2>2, <3>1, <3>2, SaveTyped DEF Keep, StateOK
  <2> QED BY <1>2, <2>3, NoCallTyped DEF StageAnswered, StateOK
<1>3. CASE InstallAnswered
  <2> DEFINE copy == tick.copy
  <2>1. tick.job \in Jobs /\ copy \in Row
    BY DEF StateOK, Call
  <2>2. \A s \in Open \cup Final : To(copy, s) \in Row /\ To(copy, s).restages = copy.restages
    BY <2>1, ToRow
  <2>3. {"installing", "queued", "failed"} \subseteq Open \cup Final
    BY DEF Open, Final, InFlight
  <2>4. [To(copy, "installing") EXCEPT !.sent = TRUE] \in Row
    BY <2>2, <2>3 DEF Row
  <2>5. copy.restages < MaxRestages => [To(copy, "queued") EXCEPT !.restages = @ + 1] \in Row
    BY <2>1, <2>2, <2>3, Constants DEF Row
  <2>6. row' \in [Jobs -> Row] /\ hold' \in BOOLEAN
    <3>1. \/ Keep
          \/ Save(tick.job, copy, [To(copy, "installing") EXCEPT !.sent = TRUE])
          \/ /\ copy.restages < MaxRestages
             /\ Save(tick.job, copy, [To(copy, "queued") EXCEPT !.restages = @ + 1])
          \/ Save(tick.job, copy, To(copy, "failed"))
      BY <1>3 DEF InstallAnswered
    <3> QED BY <2>1, <2>2, <2>3, <2>4, <2>5, <3>1, SaveTyped DEF Keep, StateOK
  <2> QED BY <1>3, <2>6, NoCallTyped DEF InstallAnswered, StateOK
<1>4. ASSUME NEW s \in {"failed", "unknown", "expired"},
             Save(tick.job, tick.copy, To(tick.copy, s)), tick' = NoCall,
             UNCHANGED <<confirm, abort, link, dev, ticked, apply, events>>
      PROVE  TInv'
  <2>1. tick.job \in Jobs /\ tick.copy \in Row
    BY DEF StateOK, Call
  <2>2. s \in Open \cup Final
    BY DEF Open, Final, InFlight
  <2>3. row' \in [Jobs -> Row] /\ hold' \in BOOLEAN
    BY <1>4, <2>1, <2>2, ToRow, SaveTyped
  <2> QED BY <1>4, <2>3, NoCallTyped DEF StateOK
<1>5. CASE CannotStart \/ MarkOverdue \/ ExpireQueued
  BY <1>4, <1>5 DEF CannotStart, MarkOverdue, ExpireQueued, Expires
<1>6. CASE LetGo
  BY <1>6, NoCallTyped DEF LetGo, StateOK
<1>7. CASE StartQueued
  <2>1. [tick EXCEPT !.op = "stage"] \in Call
    BY DEF StateOK, Call, Asks
  <2>2. wire' \in Seq(Request)
    BY <1>7, TickSends DEF StartQueued, Asks
  <2> QED BY <1>7, <2>1, <2>2 DEF StartQueued, StateOK
<1>8. CASE InstallStaged
  <2>1. [tick EXCEPT !.op = "install"] \in Call
        /\ [tick EXCEPT !.op = "install", !.answer = "lost"] \in Call
    BY DEF StateOK, Call, Asks, Answers
  <2>2. tick' \in Call /\ wire' \in Seq(Request)
    BY <1>8, <2>1, TickSends DEF InstallStaged, StateOK, Asks
  <2>3. session' \in [up : BOOLEAN, runs : 0..MaxJobs, active : 0..MaxJobs,
                      phase : Phases, after : SUBSET Jobs]
    BY <1>8 DEF InstallStaged, StateOK
  <2> QED BY <1>8, <2>2, <2>3 DEF InstallStaged, StateOK
<1>9. ASSUME NEW op \in Ops, NEW j \in Jobs, ReadJob(op, j) PROVE TInv'
  BY <1>9, CallTyped DEF ReadJob, StateOK
<1> QED BY <1>1, <1>2, <1>3, <1>5, <1>6, <1>7, <1>8, <1>9 DEF Pass

LEMMA ConfirmTyped == ASSUME TInv, Confirm PROVE TInv'
<1> USE DEF TInv, AtWork, calls, link
<1>1. "probation" \in Open \cup Final /\ "confirmed" \in Open \cup Final
  BY DEF Open, Final, InFlight
<1>2. CASE ConfirmAnswered
  <2>1. confirm.job \in Jobs
    BY DEF StateOK, Call
  <2>2. row' \in [Jobs -> Row] /\ hold' \in BOOLEAN
    BY <1>1, <1>2, <2>1, MoveTyped DEF ConfirmAnswered, Keep, StateOK
  <2> QED BY <1>2, <2>2, NoCallTyped DEF ConfirmAnswered, StateOK
<1>3. ASSUME NEW j \in Jobs, SeeCandidate(j) PROVE TInv'
  <2>1. row' \in [Jobs -> Row] /\ hold' \in BOOLEAN
    BY <1>1, <1>3, MoveTyped DEF SeeCandidate
  <2> QED BY <1>3, <2>1 DEF SeeCandidate, StateOK
<1>4. ASSUME NEW j \in Jobs, SendConfirm(j) PROVE TInv'
  <2>1. row' \in [Jobs -> Row] /\ hold' \in BOOLEAN
    BY <1>1, <1>4, MoveTyped DEF SendConfirm
  <2> QED BY <1>4, <2>1, CallTyped DEF Asks, SendConfirm, StateOK
<1> QED BY <1>2, <1>3, <1>4 DEF Confirm

LEMMA AdminTyped == ASSUME TInv, Admin PROVE TInv'
<1> USE DEF TInv, AtWork, calls, link
<1>1. "cancelled" \in Open \cup Final /\ "queued" \in Open
  BY DEF Open, Final, InFlight
<1>2. CASE AbortAnswered
  <2>1. abort.job \in Jobs /\ abort.copy \in Row
    BY DEF StateOK, Call
  <2>2. To(abort.copy, "cancelled") \in Row
    BY <1>1, <2>1, ToRow
  <2>3. row' \in [Jobs -> Row] /\ hold' \in BOOLEAN
    BY <1>2, <2>1, <2>2, SaveTyped DEF AbortAnswered, Keep, StateOK
  <2> QED BY <1>2, <2>3, NoCallTyped DEF AbortAnswered, StateOK
<1>3. ASSUME NEW j \in Jobs, CreateJob(j) PROVE TInv'
  <2>1. [NoRow EXCEPT !.state = "queued", !.key = TRUE] \in Row
    BY <1>1, Constants, NoCallTyped DEF Row
  <2> QED BY <1>3, <2>1 DEF CreateJob, StateOK
<1>4. ASSUME NEW j \in Jobs, Abort(j) PROVE TInv'
  <2>1. row' \in [Jobs -> Row] /\ hold' \in BOOLEAN
    BY <1>1, <1>4, MoveTyped DEF Abort, Keep, StateOK
  <2>2. abort' \in Call /\ wire' \in Seq(Request)
    BY <1>4, CallTyped DEF Asks, Abort, StateOK
  <2>3. events' \in 0..MaxEvents
    BY <1>4, HappensTyped DEF Abort
  <2> QED BY <1>4, <2>1, <2>2, <2>3 DEF Abort, StateOK
<1> QED BY <1>2, <1>3, <1>4 DEF Admin

LEMMA AckTyped ==
  ASSUME TInv, NEW results, Ack(results)
  PROVE  /\ dev' \in [runs : 0..MaxJobs, old : 0..MaxJobs, active : 0..MaxJobs,
                      phase : Phases, results : SUBSET Result, kept : SUBSET Jobs]
         /\ AtWork'
BY DEF TInv, StateOK, AtWork, Ack

LEMMA ReportsTyped == ASSUME TInv, Reports PROVE TInv'
<1> USE DEF TInv, calls, link
<1>1. CASE HandleNote
  <2>1. Head(notes) \in Result /\ notes' \in Seq(Result)
    BY <1>1 DEF HandleNote, StateOK
  <2>2. row' \in [Jobs -> Row] /\ hold' \in BOOLEAN
    BY <1>1, <2>1, SettleTyped DEF HandleNote
  <2> QED BY <1>1, <2>1, <2>2, AckTyped DEF HandleNote, StateOK
<1>2. CASE HandleResult
  <2>1. PICK r \in report.todo : Settle(r) /\ report' = [report EXCEPT !.todo = @ \ {r}]
    BY <1>2 DEF HandleResult
  <2>2. r \in Result
    BY <2>1 DEF StateOK
  <2>3. row' \in [Jobs -> Row] /\ hold' \in BOOLEAN
    BY <2>1, <2>2, SettleTyped
  <2> QED BY <1>2, <2>1, <2>3 DEF HandleResult, StateOK, AtWork
<1>3. CASE Resync
  <2>1. row' \in [Jobs -> Row] /\ hold' \in BOOLEAN
    <3>1. CASE \E j \in Jobs : row[j].key
      <4> DEFINE j == CHOOSE j \in Jobs : row[j].key
      <4>1. j \in Jobs
        BY <3>1
      <4>2. Resynced(j) \in Row /\ row[j] \in Row
        BY <4>1, ResyncedRow DEF StateOK
      <4>3. Keep \/ Save(j, row[j], Resynced(j))
        BY <1>3, <3>1 DEF Resync
      <4> HIDE DEF j
      <4> QED BY <4>1, <4>2, <4>3, SaveTyped DEF Keep, StateOK
    <3> QED BY <1>3, <3>1 DEF Resync, Keep, StateOK
  <2>2. report' \in [busy : BOOLEAN, todo : SUBSET Result, sent : SUBSET Result]
    BY <1>3 DEF Resync, NoReport
  <2> QED BY <1>3, <2>1, <2>2, AckTyped DEF Resync, StateOK
<1> QED BY <1>1, <1>2, <1>3 DEF Reports

LEMMA LateTyped == ASSUME StateOK, NEW c, Late(c) PROVE wire' \in Seq(Request)
<1>1. \A i \in DOMAIN wire : wire[i] \in Request
  BY DEF StateOK
<1>2. \A m \in Request : [m EXCEPT !.live = FALSE] \in Request
  BY DEF Request
<1>3. \A i \in DOMAIN wire :
        (IF wire[i].op = c.op THEN [wire[i] EXCEPT !.live = FALSE] ELSE wire[i]) \in Request
  BY <1>1, <1>2
<1>4. DOMAIN wire = 1..Len(wire) /\ Len(wire) \in Nat
  BY DEF StateOK
<1>5. wire' \in [1..Len(wire) -> Request]
  BY <1>3, <1>4 DEF Late
<1> QED BY <1>4, <1>5

LEMMA LinkTyped == ASSUME TInv, Link PROVE TInv'
<1> USE DEF TInv, AtWork, calls, link
<1>1. CASE Connect
  <2>1. session' \in [up : BOOLEAN, runs : 0..MaxJobs, active : 0..MaxJobs,
                      phase : Phases, after : SUBSET Jobs]
    BY <1>1 DEF Connect, StateOK
  <2>2. report' \in [busy : BOOLEAN, todo : SUBSET Result, sent : SUBSET Result]
    BY <1>1 DEF Connect, StateOK
  <2> QED BY <1>1, <2>1, <2>2 DEF Connect, StateOK
<1>2. CASE Drop
  BY <1>2, DownTyped, HappensTyped DEF Drop, StateOK
<1>3. CASE TimeOut
  <2>1. \E c \in {tick, confirm, abort} : Late(c)
    BY <1>3 DEF TimeOut
  <2>2. tick' \in Call /\ confirm' \in Call /\ abort' \in Call
    BY <1>3, FailedTyped DEF TimeOut, StateOK
  <2>3. wire' \in Seq(Request) /\ events' \in 0..MaxEvents
    BY <2>1, LateTyped, HappensTyped DEF Late
  <2> QED BY <2>1, <2>2, <2>3 DEF Late, StateOK
<1>4. CASE Crash
  <2>1. wire' \in Seq(Request) /\ notes' \in Seq(Result)
    BY <1>4 DEF Crash
  <2>2. report' \in [busy : BOOLEAN, todo : SUBSET Result, sent : SUBSET Result]
    BY <1>4 DEF Crash, NoReport
  <2>3. session' \in [up : BOOLEAN, runs : 0..MaxJobs, active : 0..MaxJobs,
                      phase : Phases, after : SUBSET Jobs]
    BY <1>4 DEF Crash, StateOK
  <2>4. hold' \in BOOLEAN /\ ticked' \in BOOLEAN
    BY <1>4 DEF Crash
  <2> QED BY <1>4, <2>1, <2>2, <2>3, <2>4, NoCallTyped, HappensTyped DEF Crash, StateOK
<1> QED BY <1>1, <1>2, <1>3, <1>4 DEF Link

\* A device as StateOK has it, at work for an update only.
DeviceOK(d) ==
  /\ d \in [runs : 0..MaxJobs, old : 0..MaxJobs, active : 0..MaxJobs, phase : Phases,
            results : SUBSET Result, kept : SUBSET Jobs]
  /\ d.phase # "none" => d.active # 0

LEMMA WithTyped ==
  ASSUME StateOK, NEW j \in Jobs,
         NEW o \in {"staged", "failed", "url_expired", "confirmed", "rolled_back", "cancelled"}
  PROVE  With(j, o) \in SUBSET Result /\ Others(j) \in SUBSET Result
BY DEF StateOK, With, Others, Result

LEMMA RepliesTyped ==
  ASSUME TInv, NEW m \in Request, NEW reply \in Replies(m)
  PROVE  DeviceOK(reply.dev) /\ reply.answer \in Answers
<1> DEFINE mine == dev.active = m.job
           Same(a) == [dev |-> dev, answer |-> a]
           At(phase, a) == [dev |-> [dev EXCEPT !.active = m.job, !.phase = phase,
                                                !.results = Others(m.job)], answer |-> a]
           Cleared == [dev EXCEPT !.active = 0, !.phase = "none"]
           Kept == [Cleared EXCEPT !.kept = @ \cup {m.job}]
<1>1. m.job \in Jobs /\ m.job # 0 /\ m.job \in 0..MaxJobs
  BY Constants DEF Request, Jobs
<1>2. DeviceOK(dev)
  BY DEF TInv, StateOK, AtWork, DeviceOK
<1>3. \A p \in Phases : DeviceOK([dev EXCEPT !.active = m.job, !.phase = p,
                                           !.results = Others(m.job)])
  BY <1>1, <1>2, WithTyped DEF DeviceOK, TInv
<1>4. DeviceOK(Cleared) /\ Cleared \in [runs : 0..MaxJobs, old : 0..MaxJobs,
          active : 0..MaxJobs, phase : Phases, results : SUBSET Result, kept : SUBSET Jobs]
  <2>1. 0 \in 0..MaxJobs /\ "none" \in Phases
    BY Constants DEF Phases
  <2> QED BY <1>2, <2>1 DEF DeviceOK
<1>5. Cleared.phase = "none"
  BY <1>2 DEF DeviceOK
<1>6. DeviceOK(Kept) /\ Kept.phase = "none" /\ Kept \in [runs : 0..MaxJobs,
          old : 0..MaxJobs, active : 0..MaxJobs, phase : Phases, results : SUBSET Result,
          kept : SUBSET Jobs]
  <2> HIDE DEF Cleared
  <2> QED BY <1>1, <1>4, <1>5 DEF DeviceOK
<1>7. DeviceOK([Kept EXCEPT !.results = With(m.job, "confirmed")])
  <2> HIDE DEF Kept
  <2> QED BY <1>1, <1>6, WithTyped DEF DeviceOK, TInv
<1>8. DeviceOK([Cleared EXCEPT !.results = With(m.job, "cancelled")])
  <2> HIDE DEF Cleared
  <2> QED BY <1>1, <1>4, <1>5, WithTyped DEF DeviceOK, TInv
<1>9. \/ \E a \in Answers : reply = Same(a)
      \/ reply = Same(dev.phase) /\ dev.phase \in {"downloading", "staged"}
      \/ \E p \in {"downloading", "staged", "installing", "rolling"} : reply = At(p, p)
      \/ reply = [dev |-> Cleared, answer |-> "refused"]
      \/ reply = [dev |-> Kept, answer |-> "confirmed"]
      \/ reply = [dev |-> [Kept EXCEPT !.results = With(m.job, "confirmed")],
                  answer |-> "confirmed"]
      \/ reply = [dev |-> [Cleared EXCEPT !.results = With(m.job, "cancelled")],
                  answer |-> "cancelled"]
  BY DEF Replies, Answers, Request, Asks
<1>10. /\ {"downloading", "staged", "installing", "rolling"} \subseteq Answers
       /\ {"downloading", "staged", "installing", "rolling"} \subseteq Phases
       /\ {"refused", "confirmed", "cancelled"} \subseteq Answers
  BY DEF Answers, Phases
<1>11. CASE \E p \in {"downloading", "staged", "installing", "rolling"} : reply = At(p, p)
  <2>1. PICK p \in {"downloading", "staged", "installing", "rolling"} : reply = At(p, p)
    BY <1>11
  <2> DEFINE d == [dev EXCEPT !.active = m.job, !.phase = p, !.results = Others(m.job)]
  <2>2. DeviceOK(d)
    BY <1>3, <1>10
  <2>3. reply = [dev |-> d, answer |-> p]
    BY <2>1
  <2> HIDE DEF d
  <2> QED BY <1>10, <2>2, <2>3
<1>12. CASE \/ \E a \in Answers : reply = Same(a)
            \/ reply = Same(dev.phase) /\ dev.phase \in {"downloading", "staged"}
  <2>1. reply.dev = dev /\ reply.answer \in Answers
    BY <1>10, <1>12
  <2> QED BY <1>2, <2>1
<1> DEFINE left == [Kept EXCEPT !.results = With(m.job, "confirmed")]
           undone == [Cleared EXCEPT !.results = With(m.job, "cancelled")]
<1>13. CASE \/ reply = [dev |-> Cleared, answer |-> "refused"]
            \/ reply = [dev |-> Kept, answer |-> "confirmed"]
            \/ reply = [dev |-> left, answer |-> "confirmed"]
            \/ reply = [dev |-> undone, answer |-> "cancelled"]
  <2>1. DeviceOK(Cleared) /\ DeviceOK(Kept) /\ DeviceOK(left) /\ DeviceOK(undone)
    BY <1>4, <1>6, <1>7, <1>8
  <2> HIDE DEF Cleared, Kept, left, undone
  <2> QED BY <1>10, <1>13, <2>1
<1> QED BY <1>9, <1>11, <1>12, <1>13

LEMMA AnsweredTyped ==
  ASSUME NEW c \in Call, NEW m \in Request, NEW a \in Answers
  PROVE  Answered(c, m, a) \in Call
BY DEF Answered, Call

LEMMA DeviceTyped == ASSUME TInv, Device PROVE TInv'
<1> USE DEF TInv, calls, link
<1>0. ASSUME NEW d, DeviceOK(d), dev' = d
      PROVE  /\ dev' \in [runs : 0..MaxJobs, old : 0..MaxJobs, active : 0..MaxJobs,
                          phase : Phases, results : SUBSET Result, kept : SUBSET Jobs]
             /\ AtWork'
  BY <1>0 DEF DeviceOK, AtWork
<1>1. dev.phase # "none" => dev.active \in Jobs
  BY Constants DEF StateOK, AtWork, Jobs
<1>2. dev \in [runs : 0..MaxJobs, old : 0..MaxJobs, active : 0..MaxJobs, phase : Phases,
               results : SUBSET Result, kept : SUBSET Jobs]
  BY DEF StateOK
<1>3. {"none", "probation", "staged", "installing", "downloading", "rolling"} \subseteq Phases
      /\ 0 \in 0..MaxJobs
  BY Constants DEF Phases
<1>4. CASE Handle
  <2> DEFINE m == Head(wire)
  <2>1. m \in Request /\ Tail(wire) \in Seq(Request)
    BY <1>4 DEF Handle, StateOK
  <2>2. PICK reply \in Replies(m) :
          /\ dev' = reply.dev
          /\ tick' = Answered(tick, m, reply.answer)
          /\ confirm' = Answered(confirm, m, reply.answer)
          /\ abort' = Answered(abort, m, reply.answer)
          /\ notes' = IF reply.answer = "cancelled"
                      THEN Append(notes, [job |-> m.job, outcome |-> "cancelled"]) ELSE notes
    BY <1>4 DEF Handle
  <2> HIDE DEF m
  <2>3. DeviceOK(reply.dev) /\ reply.answer \in Answers
    BY <2>1, RepliesTyped
  <2>4. tick' \in Call /\ confirm' \in Call /\ abort' \in Call
    BY <2>1, <2>2, <2>3, AnsweredTyped DEF StateOK
  <2>5. [job |-> m.job, outcome |-> "cancelled"] \in Result
    BY <2>1 DEF Result, Request
  <2>6. notes' \in Seq(Result)
    BY <2>2, <2>5, AppendProperties DEF StateOK
  <2> QED BY <1>0, <1>4, <2>1, <2>2, <2>3, <2>4, <2>6 DEF Handle, StateOK, m
<1>5. CASE DownloadEnds
  <2>1. PICK o \in {"staged", "failed", "url_expired"} :
       /\ dev' = [dev EXCEPT !.results = With(dev.active, o),
                             !.active = IF o = "staged" THEN @ ELSE 0,
                             !.phase = IF o = "staged" THEN "staged" ELSE "none"]
       /\ notes' = IF session.up THEN Append(notes, [job |-> dev.active, outcome |-> o])
                  ELSE notes
    BY <1>5 DEF DownloadEnds
  <2>2. dev.active \in Jobs /\ dev.active # 0
    BY <1>1, <1>5 DEF DownloadEnds, AtWork
  <2>3. With(dev.active, o) \in SUBSET Result
    BY <2>2, WithTyped
  <2>4. DeviceOK([dev EXCEPT !.results = With(dev.active, o),
                             !.active = IF o = "staged" THEN @ ELSE 0,
                             !.phase = IF o = "staged" THEN "staged" ELSE "none"])
    BY <1>2, <1>3, <2>2, <2>3 DEF DeviceOK
  <2>5. [job |-> dev.active, outcome |-> o] \in Result
    BY <2>2 DEF Result
  <2>6. notes' \in Seq(Result)
    BY <2>1, <2>5, AppendProperties DEF StateOK
  <2> QED BY <1>0, <1>5, <2>1, <2>4, <2>6 DEF DownloadEnds, StateOK
<1>6. CASE Swap
  <2>1. dev.active \in Jobs /\ dev.active # 0
    BY <1>1, <1>6 DEF Swap, AtWork
  <2>2. With(dev.active, "failed") \in SUBSET Result
    BY <2>1, WithTyped
  <2>3. /\ DeviceOK([dev EXCEPT !.phase = "probation", !.runs = dev.active, !.old = dev.runs])
        /\ DeviceOK([dev EXCEPT !.phase = "none", !.active = 0,
                               !.results = With(dev.active, "failed")])
    BY <1>2, <1>3, <2>1, <2>2 DEF DeviceOK
  <2> QED BY <1>0, <1>6, <2>3, DownTyped DEF Swap, StateOK
<1>7. CASE RollBack
  <2>1. dev.active \in Jobs /\ dev.active # 0
    BY <1>1, <1>7 DEF RollBack, AtWork
  <2>2. With(dev.active, "rolled_back") \in SUBSET Result
    BY <2>1, WithTyped
  <2>3. DeviceOK([dev EXCEPT !.phase = "none", !.active = 0,
                             !.runs = IF dev.active = dev.runs THEN dev.old ELSE @,
                             !.results = With(dev.active, "rolled_back")])
    BY <1>2, <1>3, <2>1, <2>2 DEF DeviceOK
  <2> QED BY <1>0, <1>7, <2>3, DownTyped DEF RollBack, StateOK
<1>8. CASE LoseFiles
  <2>1. DeviceOK([dev EXCEPT !.phase = "none", !.active = 0])
    BY <1>2, <1>3 DEF DeviceOK
  <2> QED BY <1>0, <1>8, <2>1, DownTyped, HappensTyped DEF LoseFiles, StateOK
<1> QED BY <1>4, <1>5, <1>6, <1>7, <1>8 DEF Device

LEMMA NextTyped == ASSUME TInv, [Next]_vars PROVE TInv'
<1> USE DEF TInv, AtWork, calls, link
<1>1. CASE StartApply
  <2>1. apply' \in {"none", "pending", "early"}
    BY <1>1 DEF StartApply
  <2> QED BY <1>1, <2>1, HappensTyped DEF StartApply, StateOK
<1>2. CASE EndApply
  BY <1>2 DEF EndApply, StateOK
<1>3. CASE UNCHANGED vars
  BY <1>3 DEF vars, StateOK
<1> QED BY <1>1, <1>2, <1>3, PassTyped, ConfirmTyped, AdminTyped, ReportsTyped, LinkTyped,
           DeviceTyped DEF Next, Step

\* The types of the jobs, the calls, the link and the device, whatever is
\* lost, late or restarted.
THEOREM TypeOKAlways == Spec => []TypeOK
<1>1. Init => TInv
  BY InitTyped
<1>2. TInv /\ [Next]_vars => TInv'
  BY NextTyped
<1> DEFINE Typed == TInv /\ reopened \subseteq Jobs /\ crossed \subseteq Jobs
<1>3. Init => Typed
  BY <1>1 DEF Init
<1>4. Typed /\ [Next]_vars => Typed'
  <2>1. (reopened \subseteq Jobs /\ crossed \subseteq Jobs) /\ [Next]_vars
          => (reopened \subseteq Jobs /\ crossed \subseteq Jobs)'
    BY DEF Next, Noted, vars, history
  <2> QED BY <1>2, <2>1
<1>5. Typed => TypeOK
  BY DEF TInv, TypeOK
<1> QED BY <1>3, <1>4, <1>5, PTL DEF Spec

LEMMA StatesApart == Open \cap Final = {} /\ {"queued", "staged"} \subseteq Open
                     /\ {"installing", "probation", "unknown", "staging"} \subseteq Open
BY DEF Open, Final, InFlight

LEMMA NoCallStays ==
  ASSUME NEW m \in Request, NEW a
  PROVE  Answered(NoCall, m, a) = NoCall /\ Failed(NoCall) = NoCall
BY DEF Answered, Failed, NoCall, Request, Asks

LEMMA Awaiting == ASSUME NEW c, c = NoCall PROVE c.op = "none" /\ c.answer = "none"
BY DEF NoCall

LEMMA FailedCall ==
  ASSUME NEW c \in Call
  PROVE  /\ Failed(c).op = c.op /\ Failed(c).job = c.job /\ Failed(c).copy = c.copy
         /\ c = NoCall => Failed(c) = NoCall
         /\ Failed(c).answer \in {c.answer, "lost"}
         /\ c.op \notin Asks => Failed(c) = c
BY DEF Failed, Call, NoCall, Asks

LEMMA AnsweredCall ==
  ASSUME NEW c \in Call, NEW m \in Request, NEW a
  PROVE  /\ Answered(c, m, a).op = c.op /\ Answered(c, m, a).job = c.job
         /\ Answered(c, m, a).copy = c.copy
         /\ c = NoCall => Answered(c, m, a) = NoCall
BY NoCallStays DEF Answered, Call


\* A device that swaps or tests its binary, or goes back to the old one.
Swapping == {"installing", "probation", "rolling"}

\* Requests on the wire.
Is(i, op, j) == wire[i].op = op /\ wire[i].job = j
Asked(op, j) == \E i \in 1..Len(wire) : Is(i, op, j)

\* Results on their way.
NotesOf == {notes[i] : i \in 1..Len(notes)}
Told == dev.results \cup report.todo \cup NotesOf

\* The session's block said that its device tests job j.
Tested(j) ==
  session.up /\ session.runs = j /\ session.active = j /\ session.phase = "probation"

\* The row of a job the device keeps.
KeptStates == {"probation", "unknown", "cancelled", "confirmed"}

\* Without a session nothing is on its way.
Quiet ==
  /\ ~session.up => Len(wire) = 0 /\ Len(notes) = 0
  /\ ~report.busy => report.todo = {}

\* A request whose answer would be taken has its call, and a call only one.
\* What asks nothing has no answer.
Awaited(c, i) == c.op = wire[i].op /\ c.job = wire[i].job /\ c.answer = "none"
LiveCalls ==
  /\ tick.op \in {"none", "stage", "install"} \cup Ops /\ confirm.op \in {"none", "confirm"}
  /\ abort.op \in {"none", "abort"}
  /\ tick.op \in Ops => tick.answer = "none"
  /\ \A i \in 1..Len(wire) :
       wire[i].live => Awaited(tick, i) \/ Awaited(confirm, i) \/ Awaited(abort, i)
  /\ \A i, k \in 1..Len(wire) :
       wire[i].live /\ wire[k].live /\ wire[i].op = wire[k].op => i = k

\* The copy the pass has is of a row in the state it looks for, that of an abort
\* of an open one.
Copies ==
  /\ tick.op \in {"start", "stage", "expire"} => tick.copy.state = "queued"
  /\ tick.op \in {"put", "install"} => tick.copy.state = "staged"
  /\ tick.op = "overdue" => tick.copy.state \in {"installing", "probation"}
  /\ abort # NoCall => abort.copy.state \in Open

\* What the device runs, and would go back to, is a version it kept.
DevRuns ==
  /\ dev.active # 0 => dev.phase # "none"
  /\ \/ dev.runs \in dev.kept \cup {0}
     \/ dev.phase \in {"probation", "rolling"} /\ dev.active = dev.runs
  /\ dev.old \in dev.kept \cup {0}
SessionRuns == session.active = 0 => session.runs \in dev.kept \cup {0}

\* A job that was kept is over for the device.
NotKept ==
  /\ dev.active \notin dev.kept
  /\ \A j \in dev.kept : ~Asked("stage", j)

\* A result says confirmed exactly for a job that was kept, and the device has
\* none of the job that it swaps to.
ResultsTrue ==
  /\ \A r \in Told : r.outcome = "confirmed" <=> r.job \in dev.kept
  /\ dev.phase \in Swapping => \A r \in dev.results : r.job # dev.active

\* What the session's block said of a tested binary is true as long as the
\* session lives, or the job was kept since.
TestedOK ==
  \A j \in Jobs : Tested(j) =>
    /\ \/ dev.active = j /\ dev.phase \in {"probation", "rolling"}
       \/ j \in dev.kept
    /\ \A r \in Told : r.job = j => r.outcome = "confirmed"

Confirmed == confirm.answer = "confirmed" => confirm.job \in dev.kept

DeviceAgrees == /\ Quiet /\ LiveCalls /\ Copies /\ DevRuns /\ SessionRuns /\ NotKept
                /\ ResultsTrue /\ TestedOK /\ Confirmed

\* The row of a job that is kept, or about to be.
Sure ==
  \A j \in Jobs :
    /\ Asked("confirm", j) => Tested(j) /\ row[j].state \in KeptStates
    /\ \A i, k \in 1..Len(wire) : Is(i, "confirm", j) /\ Is(k, "stage", j) => k < i
    /\ j \in dev.kept => row[j].state \in KeptStates
    /\ row[j].state = "confirmed" => j \in dev.kept

\* Whatever the other handlers make of the row while the pass has a copy of it:
\* they do not bring it past the install, and the device cannot keep the job.  So
\* what the pass writes back contradicts no device; unknown contradicts none.
Far == {"installing", "probation", "unknown", "confirmed"}
PassApart ==
  tick.op \notin {"none", "overdue"} =>
    /\ row[tick.job].state \notin Far
    /\ tick.job \notin dev.kept /\ ~Asked("confirm", tick.job)

VInv == TInv /\ DeviceAgrees /\ Sure /\ PassApart

----------------------------------------------------------------------------
\* The wire and the notes after a step.
LEMMA WireSend ==
  ASSUME StateOK, NEW j \in Jobs, NEW op, Send(op, j)
  PROVE  /\ Len(wire) \in Nat /\ Len(wire') = Len(wire) + 1
         /\ \A i \in 1..Len(wire) : wire'[i] = wire[i]
         /\ wire'[Len(wire) + 1] = [op |-> op, job |-> j, live |-> TRUE]
BY DEF Send, StateOK

LEMMA WireTail ==
  ASSUME StateOK, wire # <<>>, wire' = Tail(wire)
  PROVE  /\ Len(wire) \in Nat \ {0} /\ Len(wire') = Len(wire) - 1 /\ Head(wire) = wire[1]
         /\ \A i \in 1..Len(wire') : wire'[i] = wire[i + 1]
BY DEF StateOK

LEMMA WireLate ==
  ASSUME StateOK, NEW c, Late(c)
  PROVE  /\ Len(wire) \in Nat /\ Len(wire') = Len(wire)
         /\ \A i \in 1..Len(wire) : /\ wire'[i].op = wire[i].op /\ wire'[i].job = wire[i].job
                                    /\ wire'[i].live <=> wire[i].live /\ wire[i].op # c.op
<1>1. DOMAIN wire = 1..Len(wire) /\ Len(wire) \in Nat /\ \A i \in 1..Len(wire) : wire[i] \in Request
  BY DEF StateOK
<1>2. wire' = [i \in 1..Len(wire) |->
                IF wire[i].op = c.op THEN [wire[i] EXCEPT !.live = FALSE] ELSE wire[i]]
  BY <1>1 DEF Late
<1>3. \A i \in 1..Len(wire) :
        LET m == IF wire[i].op = c.op THEN [wire[i] EXCEPT !.live = FALSE] ELSE wire[i] IN
        /\ m.op = wire[i].op /\ m.job = wire[i].job
        /\ m.live <=> wire[i].live /\ wire[i].op # c.op
  BY <1>1 DEF Request
<1>4. wire' \in Seq(Request)
  BY LateTyped
<1>5. DOMAIN wire' = 1..Len(wire') /\ Len(wire') \in Nat
  BY <1>4
<1>6. Len(wire') = Len(wire)
  BY <1>1, <1>2, <1>5
<1> QED BY <1>1, <1>2, <1>3, <1>6

LEMMA NotesAppend ==
  ASSUME StateOK, NEW r \in Result, notes' = Append(notes, r)
  PROVE  NotesOf' = NotesOf \cup {r} /\ Len(notes') = Len(notes) + 1
<1>1. /\ Len(notes') = Len(notes) + 1 /\ Len(notes) \in Nat
      /\ \A i \in 1..Len(notes) : notes'[i] = notes[i]
      /\ notes'[Len(notes) + 1] = r
  BY DEF StateOK
<1> QED BY <1>1 DEF NotesOf

LEMMA NotesTail ==
  ASSUME StateOK, notes # <<>>, notes' = Tail(notes)
  PROVE  /\ NotesOf = NotesOf' \cup {Head(notes)} /\ Head(notes) \in Result
         /\ Len(notes) # 0
<1>1. /\ Len(notes) \in Nat \ {0} /\ Len(notes') = Len(notes) - 1 /\ Head(notes) = notes[1]
      /\ \A i \in 1..Len(notes') : notes'[i] = notes[i + 1]
      /\ Head(notes) \in Result
  BY DEF StateOK
<1>2. \A i \in 1..Len(notes) : i = 1 \/ (i - 1 \in 1..Len(notes') /\ notes[i] = notes'[i - 1])
  BY <1>1
<1> QED BY <1>1, <1>2 DEF NotesOf

LEMMA WireTyped ==
  ASSUME StateOK
  PROVE  /\ Len(wire) \in Nat
         /\ \A i \in 1..Len(wire) : /\ wire[i] \in Request /\ wire[i].op # "none"
                                    /\ wire[i].op \in Asks
                                    /\ wire[i].job \in Jobs
<1>1. Len(wire) \in Nat /\ \A i \in 1..Len(wire) : wire[i] \in Request
  BY DEF StateOK
<1> QED BY <1>1 DEF Request, Asks

LEMMA ToldTyped == ASSUME StateOK PROVE Told \subseteq Result
BY DEF StateOK, Told, NotesOf

\* Handlers that only change rows: calls that were answered end, what is on its
\* way is handled or stays.
Ends(c) == c.answer # "none"
PassOn ==
  \/ tick' = tick
  \/ (Ends(tick) \/ tick.op \in Ops) /\ tick' = NoCall
  \/ /\ tick = NoCall
     /\ \E op \in Ops, j \in Jobs : row[j].state \in Wanted(op) /\ tick' = Sent(op, j)
  \/ tick.op = "put" /\ tick' = [tick EXCEPT !.op = "install", !.answer = "lost"]
SameSession ==
  /\ session'.up = session.up /\ session'.runs = session.runs
  /\ session'.active = session.active /\ session'.phase = session.phase
Calms ==
  /\ wire' = wire /\ SameSession /\ PassOn
  /\ NotesOf' \subseteq NotesOf /\ (Len(notes) = 0 => Len(notes') = 0)
  /\ report'.todo \subseteq report.todo
  /\ report'.busy => report.busy
  /\ ~report'.busy => report'.todo = {}
  /\ dev'.results \subseteq dev.results
  /\ dev'.runs = dev.runs /\ dev'.old = dev.old /\ dev'.active = dev.active
  /\ dev'.phase = dev.phase /\ dev'.kept = dev.kept
  /\ confirm' = confirm \/ (Ends(confirm) /\ confirm' = NoCall)
  /\ abort' = abort \/ (Ends(abort) /\ abort' = NoCall)

LEMMA CalmsAgree ==
  ASSUME TInv, DeviceAgrees, Calms
  PROVE  DeviceAgrees'
<1> USE DEF DeviceAgrees
<1>1. Told' \subseteq Told
  BY DEF Calms, Told
<1>2. \A op, j : Asked(op, j)' <=> Asked(op, j)
  BY DEF Calms, Asked, Is
<1>3. Quiet'
  BY <1>2 DEF Quiet, Calms, SameSession
<1> DEFINE Done(c, new) == new = c \/ (Ends(c) /\ new = NoCall)
<1>9. Done(confirm, confirm') /\ Done(abort, abort') /\ wire' = wire
  BY DEF Calms
<1>10. tick \in Call /\ \A i \in 1..Len(wire) : wire[i].op \in Asks
  BY WireTyped DEF TInv, StateOK
<1>11. /\ tick'.op \in {"none", "stage", "install"} \cup Ops
       /\ tick'.op \in Ops => tick'.answer = "none"
       /\ tick.op \in Asks /\ tick.answer = "none" => tick' = tick
       /\ tick'.op \in {"start", "stage", "expire"} => tick'.copy.state = "queued"
       /\ tick'.op \in {"put", "install"} => tick'.copy.state = "staged"
       /\ tick'.op = "overdue" => tick'.copy.state \in {"installing", "probation"}
  <2>1. CASE tick' = tick
    BY <2>1 DEF LiveCalls, Copies
  <2>2. CASE (Ends(tick) \/ tick.op \in Ops) /\ tick' = NoCall
    BY <2>2 DEF Ends, Ops, Asks, NoCall
  <2>3. ASSUME NEW op \in Ops, NEW j \in Jobs, tick = NoCall, row[j].state \in Wanted(op),
               tick' = Sent(op, j)
        PROVE  /\ tick.op = "none" /\ tick'.op = op /\ tick'.answer = "none"
               /\ tick'.copy.state \in Wanted(op)
    BY <2>3 DEF Sent, NoCall
  <2>4. CASE \E op \in Ops, j \in Jobs :
               tick = NoCall /\ row[j].state \in Wanted(op) /\ tick' = Sent(op, j)
    BY <2>3, <2>4 DEF Wanted, Ops, Asks
  <2>5. CASE tick.op = "put" /\ tick' = [tick EXCEPT !.op = "install", !.answer = "lost"]
    <3>1. tick'.op = "install" /\ tick'.copy = tick.copy
      BY <1>10, <2>5 DEF Call
    <3> QED BY <2>5, <3>1 DEF Copies, Ops, Asks
  <2> QED BY <2>1, <2>2, <2>4, <2>5 DEF Calms, PassOn
<1>4. LiveCalls'
  <2>3. confirm'.op \in {"none", "confirm"} /\ abort'.op \in {"none", "abort"}
    BY <1>9 DEF LiveCalls, NoCall
  <2>4. ASSUME NEW i \in 1..Len(wire'), wire'[i].live
        PROVE  Awaited(tick, i)' \/ Awaited(confirm, i)' \/ Awaited(abort, i)'
    <3>1. i \in 1..Len(wire) /\ wire[i].live
      BY <1>9, <2>4
    <3>2. Awaited(tick, i) \/ Awaited(confirm, i) \/ Awaited(abort, i)
      BY <3>1 DEF LiveCalls
    <3>3. wire' = wire /\ wire[i].op \in Asks
      BY <1>9, <1>10, <3>1
    <3>4. CASE Awaited(tick, i)
      BY <1>11, <3>3, <3>4 DEF Awaited
    <3>5. CASE Awaited(confirm, i) \/ Awaited(abort, i)
      BY <1>9, <3>3, <3>5 DEF Awaited, Ends
    <3> QED BY <3>2, <3>4, <3>5
  <2>5. \A i, k \in 1..Len(wire') :
          wire'[i].live /\ wire'[k].live /\ wire'[i].op = wire'[k].op => i = k
    BY <1>9 DEF LiveCalls
  <2> QED BY <1>11, <2>3, <2>4, <2>5 DEF LiveCalls
<1>12. Copies'
  BY <1>9, <1>11 DEF Copies
<1>5. DevRuns' /\ SessionRuns' /\ NotKept'
  BY <1>2 DEF DevRuns, SessionRuns, NotKept, Calms, SameSession
<1>6. ResultsTrue'
  BY <1>1 DEF ResultsTrue, Calms
<1>7. TestedOK'
  BY <1>1 DEF TestedOK, Tested, Calms, SameSession
<1>8. Confirmed'
  BY DEF Confirmed, Calms, NoCall
<1> QED BY <1>3, <1>4, <1>5, <1>6, <1>7, <1>8, <1>12

\* The steps that send nothing.
Quits == LetGo \/ CannotStart \/ MarkOverdue \/ ExpireQueued
Looks == \/ \E op \in Ops, j \in Jobs : ReadJob(op, j)
         \/ InstallStaged /\ ~session.up
RowSteps ==
  \/ RefreshInFlight \/ StageAnswered \/ InstallAnswered \/ Quits \/ Looks
  \/ ConfirmAnswered \/ \E j \in Jobs : SeeCandidate(j)
  \/ AbortAnswered \/ \E j \in Jobs : CreateJob(j)
  \/ \E j \in Jobs : Abort(j) /\ UNCHANGED <<abort, wire>>
  \/ Reports \/ StartApply \/ EndApply \/ UNCHANGED vars

LEMMA AckFields ==
  ASSUME StateOK, NEW results, Ack(results)
  PROVE  /\ dev'.results \subseteq dev.results
         /\ dev'.runs = dev.runs /\ dev'.old = dev.old /\ dev'.active = dev.active
         /\ dev'.phase = dev.phase /\ dev'.kept = dev.kept
BY DEF StateOK, Ack

LEMMA RowStepsCalm == ASSUME TInv, DeviceAgrees, RowSteps PROVE Calms
<1> USE DEF TInv, calls, link
<1>1. ASSUME UNCHANGED <<wire, notes, report, dev>>, SameSession, PassOn,
             confirm' = confirm \/ (Ends(confirm) /\ confirm' = NoCall),
             abort' = abort \/ (Ends(abort) /\ abort' = NoCall)
      PROVE  Calms
  BY <1>1 DEF Calms, NotesOf, DeviceAgrees, Quiet
<1>2. CASE RefreshInFlight \/ StageAnswered \/ InstallAnswered
  BY <1>1, <1>2 DEF RefreshInFlight, StageAnswered, InstallAnswered, Ends, PassOn, SameSession
<1>3. ASSUME NEW j \in Jobs, SeeCandidate(j) \/ CreateJob(j)
      PROVE  Calms
  BY <1>1, <1>3 DEF SeeCandidate, CreateJob, PassOn, SameSession
<1>10. CASE Quits
  BY <1>1, <1>10 DEF Quits, LetGo, CannotStart, MarkOverdue, ExpireQueued, Expires, PassOn, Ops,
     SameSession
<1>11. CASE Looks
  <2>1. CASE \E op \in Ops, j \in Jobs : ReadJob(op, j)
    BY <1>1, <2>1 DEF ReadJob, Idle, PassOn, SameSession
  <2>2. CASE InstallStaged /\ ~session.up
    <3>1. SameSession
      BY <2>2 DEF InstallStaged, SameSession, StateOK
    <3> QED BY <1>1, <2>2, <3>1 DEF InstallStaged, PassOn
  <2> QED BY <1>11, <2>1, <2>2 DEF Looks
<1>4. CASE ConfirmAnswered \/ AbortAnswered
  BY <1>1, <1>4 DEF ConfirmAnswered, AbortAnswered, Ends, PassOn, SameSession
<1>5. ASSUME NEW j \in Jobs, Abort(j), UNCHANGED <<abort, wire>> PROVE Calms
  BY <1>1, <1>5 DEF Abort, PassOn, SameSession
<1>6. CASE StartApply \/ EndApply \/ UNCHANGED vars
  BY <1>1, <1>6 DEF StartApply, EndApply, vars, PassOn, SameSession
<1>7. CASE HandleNote
  <2>1. NotesOf' \subseteq NotesOf /\ Len(notes) # 0
    BY <1>7, NotesTail DEF HandleNote
  <2>2. ~report'.busy => report'.todo = {}
    BY <1>7 DEF HandleNote, DeviceAgrees, Quiet
  <2> QED BY <1>7, <2>1, <2>2, AckFields DEF HandleNote, Calms, PassOn, SameSession
<1>8. CASE HandleResult
  <2>1. /\ report'.todo \subseteq report.todo /\ report'.busy = report.busy /\ report.busy
    BY <1>8 DEF HandleResult, StateOK
  <2> QED BY <1>8, <2>1 DEF HandleResult, Calms, NotesOf, PassOn, SameSession
<1>9. CASE Resync
  BY <1>9, AckFields DEF Resync, Calms, NotesOf, NoReport, PassOn, SameSession
<1> QED BY <1>2, <1>3, <1>4, <1>5, <1>6, <1>7, <1>8, <1>9, <1>10, <1>11 DEF RowSteps, Reports

\* A request that is sent is live and has its call.
Sends(j) ==
  \/ (StartQueued \/ (InstallStaged /\ session.up)) /\ tick.job = j
  \/ SendConfirm(j) \/ (Abort(j) /\ abort' # abort)

LEMMA SendIs ==
  ASSUME TInv, DeviceAgrees, NEW j \in Jobs, Sends(j)
  PROVE  \E op \in Asks :
           /\ Send(op, j) /\ session.up
           /\ op \in {"stage", "install"} =>
                /\ tick.op = (IF op = "stage" THEN "start" ELSE "put") /\ tick.job = j
                /\ tick'.op = op /\ tick'.job = j /\ tick'.copy = tick.copy
                /\ tick'.answer = "none" /\ UNCHANGED <<row, confirm, abort>>
           /\ op = "confirm" => /\ confirm = NoCall /\ confirm' = Sent(op, j)
                                /\ SendConfirm(j) /\ UNCHANGED <<tick, abort>>
           /\ op = "abort" => /\ abort = NoCall /\ abort' = Sent(op, j) /\ row' = row
                              /\ UNCHANGED <<tick, confirm>> /\ row[j].state \in Open
           /\ UNCHANGED <<notes, report, dev>> /\ SameSession
<1> USE DEF TInv, DeviceAgrees
<1>0. tick \in Call
  BY DEF StateOK
<1>1. CASE StartQueued /\ tick.job = j
  <2>1. tick' = [tick EXCEPT !.op = "stage"] /\ tick.answer = "none" /\ tick.op = "start"
    BY <1>1 DEF StartQueued, LiveCalls, Ops
  <2>2. "stage" \in Asks
    BY DEF Asks
  <2> QED BY <1>0, <1>1, <2>1, <2>2 DEF StartQueued, MayCall, SameSession, Call
<1>2. CASE InstallStaged /\ session.up /\ tick.job = j
  <2>1. tick' = [tick EXCEPT !.op = "install"] /\ tick.answer = "none" /\ tick.op = "put"
        /\ Send("install", j)
    BY <1>2 DEF InstallStaged, LiveCalls, Ops
  <2>2. "install" \in Asks
    BY DEF Asks
  <2>3. SameSession
    BY <1>2 DEF InstallStaged, SameSession, StateOK
  <2> QED BY <1>0, <1>2, <2>1, <2>2, <2>3 DEF InstallStaged, Call
<1>3. CASE SendConfirm(j)
  BY <1>3 DEF SendConfirm, Candidate, SameSession, Asks
<1>4. CASE Abort(j) /\ abort' # abort
  BY <1>4 DEF Abort, Keep, SameSession, Asks
<1> QED BY <1>1, <1>2, <1>3, <1>4 DEF Sends

LEMMA SendAgrees ==
  ASSUME VInv, NEW j \in Jobs, Sends(j)
  PROVE  DeviceAgrees'
<1> USE DEF VInv, DeviceAgrees, TInv
<1>1. PICK op \in Asks :
        /\ Send(op, j) /\ session.up
        /\ op \in {"stage", "install"} =>
             /\ tick.op = (IF op = "stage" THEN "start" ELSE "put") /\ tick.job = j
             /\ tick'.op = op /\ tick'.job = j /\ tick'.copy = tick.copy
             /\ tick'.answer = "none" /\ UNCHANGED <<row, confirm, abort>>
        /\ op = "confirm" => /\ confirm = NoCall /\ confirm' = Sent(op, j)
                             /\ SendConfirm(j) /\ UNCHANGED <<tick, abort>>
        /\ op = "abort" => /\ abort = NoCall /\ abort' = Sent(op, j) /\ row' = row
                           /\ UNCHANGED <<tick, confirm>> /\ row[j].state \in Open
        /\ UNCHANGED <<notes, report, dev>> /\ SameSession
  BY SendIs
<1>2. UNCHANGED <<notes, report, dev>> /\ session'.up = session.up /\ session'.runs = session.runs
      /\ session'.active = session.active /\ session'.phase = session.phase
  BY <1>1 DEF SameSession
<1>0. op \in {"stage", "install", "confirm", "abort"}
  BY DEF Asks
<1>3. /\ Len(wire) \in Nat /\ Len(wire') = Len(wire) + 1
      /\ \A i \in 1..Len(wire) : wire'[i] = wire[i]
      /\ wire'[Len(wire) + 1] = [op |-> op, job |-> j, live |-> TRUE]
  BY <1>1, WireSend
<1>4. \A o, i : Asked(o, i)' => Asked(o, i) \/ (o = op /\ i = j)
  BY <1>3 DEF Asked, Is
<1>5. Told' = Told
  BY <1>2 DEF Told, NotesOf
<1>6. Quiet'
  BY <1>1, <1>2, <1>4 DEF Quiet
<1>7. LiveCalls'
  <2>0. \A i \in 1..Len(wire) : wire[i].op \in Asks
    BY WireTyped
  <2>1. \A i \in 1..Len(wire) : wire[i].live => wire[i].op # op
    <3>1. op \in {"stage", "install"} => tick.op \in Ops
      BY <1>1 DEF Ops
    <3>2. tick.op # op /\ confirm.op # op /\ abort.op # op
      BY <1>0, <1>1, <3>1 DEF LiveCalls, NoCall, Ops
    <3> QED BY <3>2 DEF LiveCalls, Awaited
  <2>2. \A i \in 1..Len(wire') : i \in 1..Len(wire) \/ i = Len(wire) + 1
    BY <1>3
  <2>3. \A i \in 1..Len(wire) :
          wire[i].live => Awaited(tick, i)' \/ Awaited(confirm, i)' \/ Awaited(abort, i)'
    <3>1. CASE op \in {"stage", "install"}
      BY <1>1, <1>3, <2>0, <3>1 DEF LiveCalls, Awaited, Asks
    <3>2. CASE op = "confirm"
      BY <1>1, <1>3, <2>0, <3>2 DEF LiveCalls, Awaited, NoCall, Asks
    <3>3. CASE op = "abort"
      BY <1>1, <1>3, <2>0, <3>3 DEF LiveCalls, Awaited, NoCall, Asks
    <3> QED BY <1>0, <3>1, <3>2, <3>3
  <2>8. \/ tick'.op = op /\ tick'.job = j /\ tick'.answer = "none"
        \/ confirm'.op = op /\ confirm'.job = j /\ confirm'.answer = "none"
        \/ abort'.op = op /\ abort'.job = j /\ abort'.answer = "none"
    BY <1>0, <1>1 DEF Sent
  <2>4. ASSUME NEW i, i = Len(wire) + 1
        PROVE  Awaited(tick, i)' \/ Awaited(confirm, i)' \/ Awaited(abort, i)'
    <3>1. wire'[i].op = op /\ wire'[i].job = j
      BY <1>3, <2>4
    <3> QED BY <2>8, <3>1 DEF Awaited
  <2>5. tick'.op \in {"none", "stage", "install"} \cup Ops /\ confirm'.op \in {"none", "confirm"}
        /\ abort'.op \in {"none", "abort"} /\ (tick'.op \in Ops => tick'.answer = "none")
    BY <1>0, <1>1 DEF LiveCalls, Sent
  <2>6. \A i \in 1..Len(wire') :
          wire'[i].live => Awaited(tick, i)' \/ Awaited(confirm, i)' \/ Awaited(abort, i)'
    BY <1>3, <2>2, <2>3, <2>4
  <2>7. ASSUME NEW i \in 1..Len(wire'), NEW k \in 1..Len(wire'),
               wire'[i].live /\ wire'[k].live /\ wire'[i].op = wire'[k].op
        PROVE  i = k
    <3>1. wire'[Len(wire) + 1].op = op
      BY <1>3
    <3> QED BY <1>3, <2>1, <2>2, <2>7, <3>1 DEF LiveCalls
  <2> QED BY <2>5, <2>6, <2>7 DEF LiveCalls
<1>8. Copies'
  BY <1>0, <1>1 DEF Copies, Sent, Ops
<1>9. DevRuns' /\ SessionRuns'
  BY <1>2 DEF DevRuns, SessionRuns
<1>10. NotKept'
  BY <1>1, <1>2, <1>4 DEF NotKept, PassApart
<1>11. ResultsTrue' /\ TestedOK'
  BY <1>2, <1>5 DEF ResultsTrue, TestedOK, Tested
<1>12. Confirmed'
  BY <1>0, <1>1, <1>2 DEF Confirmed, Sent
<1> QED BY <1>6, <1>7, <1>8, <1>9, <1>10, <1>11, <1>12

LEMMA ConnectAgrees == ASSUME TInv, DeviceAgrees, Connect PROVE DeviceAgrees'
<1> USE DEF DeviceAgrees, TInv, calls
<1>1. /\ UNCHANGED <<row, calls, wire, notes, dev>> /\ Len(wire) = 0 /\ Len(notes) = 0
      /\ report' = [busy |-> TRUE, todo |-> dev.results, sent |-> dev.results]
      /\ session'.up /\ session'.runs = dev.runs /\ session'.active = dev.active
      /\ session'.phase = dev.phase
  BY DEF Connect, Quiet
<1>2. Told' \subseteq Told
  BY <1>1 DEF Told, NotesOf
<1>3. \A op, j : ~Asked(op, j)'
  BY <1>1 DEF Asked
<1>4. NotesOf' = {} /\ report'.todo = dev.results
  BY <1>1 DEF NotesOf
<1>5. Quiet' /\ LiveCalls' /\ Copies' /\ DevRuns'
  BY <1>1, <1>3 DEF Quiet, LiveCalls, Copies, DevRuns
<1>6. SessionRuns' /\ NotKept'
  BY <1>1, <1>3 DEF SessionRuns, DevRuns, NotKept, AtWork
<1>7. ResultsTrue'
  BY <1>1, <1>2, <1>4 DEF ResultsTrue, Told
<1>8. TestedOK'
  BY <1>1, <1>4 DEF TestedOK, Tested, ResultsTrue, Told, Swapping
<1>9. Confirmed'
  BY <1>1 DEF Confirmed
<1> QED BY <1>5, <1>6, <1>7, <1>8, <1>9

LEMMA TimeOutAgrees == ASSUME TInv, DeviceAgrees, TimeOut PROVE DeviceAgrees'
<1> USE DEF DeviceAgrees, TInv, calls
<1>1. /\ UNCHANGED <<row, notes, report, session, dev>>
  BY DEF TimeOut, Late
<1>2. PICK c \in {tick, confirm, abort} :
        /\ Late(c) /\ tick' = (IF c = tick THEN Failed(tick) ELSE tick)
        /\ confirm' = (IF c = confirm THEN Failed(confirm) ELSE confirm)
        /\ abort' = (IF c = abort THEN Failed(abort) ELSE abort)
  BY DEF TimeOut, Late, LiveCalls, Asks, Ops
<1>3. /\ Len(wire) \in Nat /\ Len(wire') = Len(wire)
      /\ \A i \in 1..Len(wire) : /\ wire'[i].op = wire[i].op /\ wire'[i].job = wire[i].job
                                 /\ wire'[i].live <=> wire[i].live /\ wire[i].op # c.op
  BY <1>2, WireLate
<1>4. \A op, j : Asked(op, j)' <=> Asked(op, j)
  BY <1>3 DEF Asked, Is
<1>5. Told' = Told
  BY <1>1 DEF Told, NotesOf
<1>6. Quiet'
  BY <1>1, <1>3, <1>4 DEF Quiet
<1>7. tick \in Call /\ confirm \in Call /\ abort \in Call
  BY DEF StateOK
<1>8. /\ tick'.op = tick.op /\ tick'.job = tick.job /\ tick'.copy = tick.copy
      /\ confirm'.op = confirm.op /\ confirm'.job = confirm.job /\ confirm'.answer \in {confirm.answer, "lost"}
      /\ abort'.op = abort.op /\ abort'.job = abort.job /\ abort'.copy = abort.copy
      /\ abort = NoCall => abort' = NoCall
      /\ tick.op \notin Asks => tick' = tick
  BY <1>2, <1>7, FailedCall DEF Failed, Call
<1>9. LiveCalls'
  <2>1. \A i \in 1..Len(wire) : wire'[i].live =>
          Awaited(tick, i)' \/ Awaited(confirm, i)' \/ Awaited(abort, i)'
    <3> SUFFICES ASSUME NEW i \in 1..Len(wire), wire'[i].live
                 PROVE  Awaited(tick, i)' \/ Awaited(confirm, i)' \/ Awaited(abort, i)'
      OBVIOUS
    <3>1. wire[i].live /\ wire[i].op # c.op /\ wire'[i].op = wire[i].op /\ wire'[i].job = wire[i].job
      BY <1>3
    <3>2. PICK d \in {tick, confirm, abort} : Awaited(d, i)
      BY <3>1 DEF LiveCalls
    <3>3. d # c
      BY <3>1, <3>2 DEF Awaited
    <3> QED BY <1>2, <3>1, <3>2, <3>3 DEF Awaited
  <2> QED BY <1>3, <1>8, <2>1 DEF LiveCalls, Asks, Ops
<1>10. Copies' /\ Confirmed'
  BY <1>1, <1>8 DEF Copies, Confirmed
<1>11. DevRuns' /\ SessionRuns' /\ NotKept'
  BY <1>1, <1>4 DEF DevRuns, SessionRuns, NotKept
<1>12. ResultsTrue' /\ TestedOK'
  BY <1>1, <1>5 DEF ResultsTrue, TestedOK, Tested
<1> QED BY <1>6, <1>9, <1>10, <1>11, <1>12

\* The session ends: nothing is on its way, and the calls fail.
LEMMA DownAgrees ==
  ASSUME TInv, DeviceAgrees, DevRuns', NotKept', ResultsTrue', dev'.kept = dev.kept,
         Down \/ Crash
  PROVE  DeviceAgrees'
<1> USE DEF DeviceAgrees, TInv
<1>1. /\ wire' = <<>> /\ notes' = <<>> /\ ~session'.up /\ session'.active = session.active
      /\ session'.runs = session.runs
  BY DEF Down, Crash, StateOK
<1>2. \A op, j : ~Asked(op, j)'
  BY <1>1 DEF Asked
<1>3. report' = report \/ report' = NoReport
  BY DEF Down, Crash
<1>4. Quiet'
  BY <1>1, <1>2, <1>3 DEF Quiet, NoReport
<1>5. tick \in Call /\ confirm \in Call /\ abort \in Call
  BY DEF StateOK
<1>6. /\ \/ tick' = NoCall
         \/ tick'.op = tick.op /\ tick'.copy = tick.copy
            /\ (tick.op \notin Asks => tick' = tick)
      /\ \/ confirm' = NoCall
         \/ confirm'.op = confirm.op /\ confirm'.job = confirm.job
            /\ confirm'.answer \in {confirm.answer, "lost"}
      /\ \/ abort' = NoCall
         \/ abort # NoCall /\ abort'.op = abort.op /\ abort'.copy = abort.copy
  BY <1>5, FailedCall DEF Down, Crash, Failed, Call
<1>7. LiveCalls' /\ Copies' /\ Confirmed'
  BY <1>1, <1>6 DEF LiveCalls, Copies, Confirmed, NoCall, Asks, Ops
<1>8. SessionRuns' /\ TestedOK'
  BY <1>1 DEF SessionRuns, TestedOK, Tested
<1> QED BY <1>4, <1>7, <1>8

LEMMA WithJob ==
  ASSUME StateOK, NEW j, NEW o, NEW r \in With(j, o)
  PROVE  r \in dev.results \/ (r.job = j /\ r.outcome = o)
BY DEF With, Others

\* A step of the device, or one that ends the session, tells no lie about jobs
\* that it does not keep.
LEMMA ToldOf ==
  ASSUME TInv, DeviceAgrees, NEW o, o # "confirmed", Down, dev'.kept = dev.kept,
         dev'.active = 0, dev'.results = With(dev.active, o), dev'.phase = "none"
  PROVE  ResultsTrue'
<1> USE DEF DeviceAgrees, TInv
<1>1. NotesOf' = {} /\ report' = report
  BY DEF Down, NotesOf
<1>2. \A r \in Told' : r \in Told \/ (r.job = dev.active /\ r.outcome = o)
  BY <1>1, WithJob DEF Told
<1> QED BY <1>2 DEF ResultsTrue, NotKept, Swapping

LEMMA DownStepsAgree ==
  ASSUME TInv, DeviceAgrees, Drop \/ Crash \/ Swap \/ RollBack \/ LoseFiles
  PROVE  DeviceAgrees'
<1> USE DEF DeviceAgrees, TInv
<1>0. dev \in [runs : 0..MaxJobs, old : 0..MaxJobs, active : 0..MaxJobs, phase : Phases,
              results : SUBSET Result, kept : SUBSET Jobs] /\ 0 \notin dev.kept
  BY DEF StateOK, Jobs
<1>1. wire' = <<>> /\ notes' = <<>>
  BY DEF Drop, Crash, Swap, RollBack, LoseFiles, Down
<1>2. (\A op, j : ~Asked(op, j)') /\ NotesOf' = {}
  BY <1>1 DEF Asked, NotesOf
<1>3. report'.todo \subseteq report.todo
  BY DEF Drop, Crash, Swap, RollBack, LoseFiles, Down, NoReport
<1>4. CASE Drop \/ Crash
  <2>1. dev' = dev
    BY <1>4 DEF Drop, Crash
  <2>2. Told' \subseteq Told
    BY <1>2, <1>3, <2>1 DEF Told
  <2>3. DevRuns' /\ NotKept' /\ ResultsTrue'
    BY <1>2, <1>3, <2>1, <2>2 DEF DevRuns, NotKept, ResultsTrue
  <2> QED BY <1>4, <2>1, <2>3, DownAgrees DEF Drop
<1>5. CASE Swap
  <2>1. CASE dev' = [dev EXCEPT !.phase = "probation", !.runs = dev.active, !.old = dev.runs]
    <3>1. /\ dev'.phase = "probation" /\ dev'.runs = dev.active /\ dev'.old = dev.runs
          /\ dev'.active = dev.active /\ dev'.kept = dev.kept /\ dev'.results = dev.results
          /\ dev.phase = "installing"
      BY <1>0, <1>5, <2>1 DEF Swap
    <3>2. Told' \subseteq Told
      BY <1>2, <1>3, <3>1 DEF Told
    <3>3. DevRuns' /\ NotKept' /\ ResultsTrue'
      BY <1>2, <1>3, <3>1, <3>2 DEF DevRuns, NotKept, ResultsTrue, Swapping, AtWork
    <3> QED BY <1>5, <3>1, <3>3, DownAgrees DEF Swap
  <2>2. CASE dev' = [dev EXCEPT !.phase = "none", !.active = 0,
                               !.results = With(dev.active, "failed")]
    <3>1. /\ dev'.phase = "none" /\ dev'.runs = dev.runs /\ dev'.old = dev.old
          /\ dev'.active = 0 /\ dev'.kept = dev.kept /\ dev'.results = With(dev.active, "failed")
          /\ dev.phase = "installing"
      BY <1>0, <1>5, <2>2 DEF Swap
    <3>2. ResultsTrue'
      BY <1>5, <3>1, ToldOf DEF Swap
    <3>3. DevRuns' /\ NotKept'
      BY <1>0, <1>2, <3>1 DEF DevRuns, NotKept
    <3> QED BY <1>5, <3>1, <3>2, <3>3, DownAgrees DEF Swap
  <2> QED BY <1>5, <2>1, <2>2 DEF Swap
<1>6. CASE RollBack
  <2>1. /\ dev'.phase = "none" /\ dev'.old = dev.old
        /\ dev'.runs = (IF dev.active = dev.runs THEN dev.old ELSE dev.runs)
        /\ dev'.active = 0 /\ dev'.kept = dev.kept
        /\ dev'.results = With(dev.active, "rolled_back")
    BY <1>0, <1>6 DEF RollBack
  <2>2. ResultsTrue'
    BY <1>6, <2>1, ToldOf DEF RollBack
  <2>3. DevRuns' /\ NotKept'
    BY <1>0, <1>2, <2>1 DEF DevRuns, NotKept
  <2> QED BY <1>6, <2>1, <2>2, <2>3, DownAgrees DEF RollBack
<1>7. CASE LoseFiles
  <2>1. /\ dev'.phase = "none" /\ dev'.runs = dev.runs /\ dev'.old = dev.old
        /\ dev'.active = 0 /\ dev'.kept = dev.kept /\ dev'.results = dev.results
        /\ dev.phase \in {"downloading", "staged"}
    BY <1>0, <1>7 DEF LoseFiles
  <2>2. Told' \subseteq Told
    BY <1>2, <1>3, <2>1 DEF Told
  <2>3. DevRuns' /\ NotKept' /\ ResultsTrue'
    BY <1>0, <1>2, <2>1, <2>2 DEF DevRuns, NotKept, ResultsTrue, Swapping
  <2> QED BY <1>7, <2>1, <2>3, DownAgrees DEF LoseFiles
<1> QED BY <1>4, <1>5, <1>6, <1>7

LEMMA DownloadAgrees == ASSUME TInv, DeviceAgrees, DownloadEnds PROVE DeviceAgrees'
<1> USE DEF DeviceAgrees, TInv, calls
<1>0. dev \in [runs : 0..MaxJobs, old : 0..MaxJobs, active : 0..MaxJobs, phase : Phases,
              results : SUBSET Result, kept : SUBSET Jobs] /\ 0 \notin dev.kept
  BY DEF StateOK, Jobs
<1>1. PICK o \in {"staged", "failed", "url_expired"} :
         /\ dev' = [dev EXCEPT !.results = With(dev.active, o),
                               !.active = IF o = "staged" THEN @ ELSE 0,
                               !.phase = IF o = "staged" THEN "staged" ELSE "none"]
         /\ notes' = IF session.up THEN Append(notes, [job |-> dev.active, outcome |-> o])
                    ELSE notes
  BY DEF DownloadEnds
<1>2. /\ dev'.results = With(dev.active, o) /\ dev'.runs = dev.runs /\ dev'.old = dev.old
      /\ dev'.kept = dev.kept /\ dev.phase = "downloading"
      /\ \/ dev'.active = dev.active /\ dev'.phase = "staged"
         \/ dev'.active = 0 /\ dev'.phase = "none"
  BY <1>0, <1>1 DEF DownloadEnds
<1>3. UNCHANGED <<row, tick, confirm, abort, wire, report, session>>
  BY DEF DownloadEnds
<1>4. dev.active \in Jobs
  BY <1>0, <1>2, Constants DEF AtWork, Jobs
<1>5. \A r \in Told' : r \in Told \/ (r.job = dev.active /\ r.outcome # "confirmed")
  <2>1. [job |-> dev.active, outcome |-> o] \in Result
    BY <1>4 DEF Result
  <2>2. NotesOf' \subseteq NotesOf \cup {[job |-> dev.active, outcome |-> o]}
    BY <1>1, <2>1, NotesAppend DEF NotesOf
  <2> QED BY <1>2, <1>3, <2>2, WithJob DEF Told
<1>6. \A op, j : Asked(op, j)' <=> Asked(op, j)
  BY <1>3 DEF Asked, Is
<1>7. Quiet' /\ LiveCalls' /\ Copies'
  <2>1. ~session.up => Len(notes') = 0
    BY <1>1 DEF Quiet
  <2>2. Quiet'
    BY <1>3, <1>6, <2>1 DEF Quiet
  <2> QED BY <1>3, <2>2 DEF LiveCalls, Copies, Awaited
<1>8. DevRuns' /\ SessionRuns' /\ NotKept' /\ Confirmed'
  BY <1>0, <1>2, <1>3, <1>6 DEF DevRuns, SessionRuns, NotKept, Confirmed
<1>9. ResultsTrue'
  BY <1>2, <1>5 DEF ResultsTrue, NotKept, Swapping
<1>10. TestedOK'
  BY <1>2, <1>3, <1>5 DEF TestedOK, Tested, NotKept
<1> QED BY <1>7, <1>8, <1>9, <1>10

\* What a request does to the device, and its answer.
SameRuns == dev'.runs = dev.runs /\ dev'.old = dev.old
AtPhase(m, phase) ==
  /\ dev'.active = m.job /\ dev'.phase = phase /\ dev'.results = Others(m.job)
  /\ dev'.kept = dev.kept /\ SameRuns
Clears == dev'.active = 0 /\ dev'.phase = "none" /\ SameRuns

StageStarts(m, a) ==
  m.op = "stage" /\ dev.active = 0 /\ a \in {"downloading", "staged"} /\ AtPhase(m, a)
InstallStarts(m, a) ==
  /\ m.op = "install" /\ dev.active = m.job /\ dev.phase = "staged" /\ apply = "none"
  /\ a = "installing" /\ AtPhase(m, a)
InstallFails(m, a) ==
  /\ m.op = "install" /\ dev.active = m.job /\ dev.phase = "staged" /\ a = "refused"
  /\ Clears /\ dev'.results = dev.results /\ dev'.kept = dev.kept
ConfirmTaken(m, a) ==
  /\ m.op = "confirm" /\ dev.active = m.job /\ dev.phase = "probation" /\ a = "confirmed"
  /\ Clears /\ dev'.kept = dev.kept \cup {m.job}
  /\ dev'.results \in {dev.results, With(m.job, "confirmed")}
AbortRolls(m, a) ==
  /\ m.op = "abort" /\ dev.active = m.job /\ dev.phase \notin {"downloading", "staged"}
  /\ a = "rolling" /\ AtPhase(m, a)
AbortTaken(m, a) ==
  /\ m.op = "abort" /\ dev.active = m.job /\ dev.phase \in {"downloading", "staged"}
  /\ a = "cancelled" /\ Clears /\ dev'.results = With(m.job, "cancelled")
  /\ dev'.kept = dev.kept
Nothing(m, a) ==
  /\ dev' = dev
  /\ \/ m.op = "stage" /\ a \in {"refused", "busy"}
     \/ /\ m.op = "stage" /\ dev.active = m.job /\ dev.phase \in {"downloading", "staged"}
        /\ a = dev.phase
     \/ /\ m.op = "install" /\ a = "not_staged"
        /\ dev.active = m.job => dev.phase = "downloading"
     \/ m.op = "install" /\ a \in {"installing", "busy"} /\ dev.active = m.job
     \/ m.op = "confirm" /\ a = "refused"
     \/ m.op = "abort" /\ a = "unknown_update" /\ dev.active # m.job

HandleCases(m, a) ==
  \/ StageStarts(m, a) \/ InstallStarts(m, a) \/ InstallFails(m, a) \/ ConfirmTaken(m, a)
  \/ AbortRolls(m, a) \/ AbortTaken(m, a) \/ Nothing(m, a)

LEMMA HandleIs ==
  ASSUME StateOK, Handle
  PROVE  \E m \in Request, a \in Answers :
           /\ m = Head(wire)
           /\ HandleCases(m, a)
           /\ tick' = Answered(tick, m, a) /\ confirm' = Answered(confirm, m, a)
           /\ abort' = Answered(abort, m, a)
           /\ notes' = IF a = "cancelled"
                       THEN Append(notes, [job |-> m.job, outcome |-> "cancelled"]) ELSE notes
<1> DEFINE m == Head(wire)
<1>1. m \in Request
  BY DEF Handle, StateOK
<1>2. PICK reply \in Replies(m) :
        /\ dev' = reply.dev
        /\ tick' = Answered(tick, m, reply.answer) /\ confirm' = Answered(confirm, m, reply.answer)
        /\ abort' = Answered(abort, m, reply.answer)
        /\ notes' = IF reply.answer = "cancelled"
                    THEN Append(notes, [job |-> m.job, outcome |-> "cancelled"]) ELSE notes
  BY DEF Handle
<1> DEFINE a == reply.answer
<1>3. dev \in [runs : 0..MaxJobs, old : 0..MaxJobs, active : 0..MaxJobs, phase : Phases,
              results : SUBSET Result, kept : SUBSET Jobs]
  BY DEF StateOK
<1> HIDE DEF m
<1> DEFINE mine == dev.active = m.job
           At(phase) == [dev EXCEPT !.active = m.job, !.phase = phase, !.results = Others(m.job)]
           Cleared == [dev EXCEPT !.active = 0, !.phase = "none"]
           Kept == [Cleared EXCEPT !.kept = @ \cup {m.job}]
           KeptTold == [Kept EXCEPT !.results = With(m.job, "confirmed")]
           Gone == [Cleared EXCEPT !.results = With(m.job, "cancelled")]
<1>4. /\ Cleared.active = 0 /\ Cleared.phase = "none" /\ Cleared.runs = dev.runs
      /\ Cleared.old = dev.old /\ Cleared.kept = dev.kept /\ Cleared.results = dev.results
  BY <1>3
<1>5. /\ Kept.active = 0 /\ Kept.phase = "none" /\ Kept.runs = dev.runs
      /\ Kept.old = dev.old /\ Kept.kept = dev.kept \cup {m.job} /\ Kept.results = dev.results
  BY <1>3
<1>6. /\ KeptTold.active = 0 /\ KeptTold.phase = "none" /\ KeptTold.runs = dev.runs
      /\ KeptTold.old = dev.old /\ KeptTold.kept = dev.kept \cup {m.job}
      /\ KeptTold.results = With(m.job, "confirmed")
  BY <1>3
<1>7. /\ Gone.active = 0 /\ Gone.phase = "none" /\ Gone.runs = dev.runs
      /\ Gone.old = dev.old /\ Gone.kept = dev.kept
      /\ Gone.results = With(m.job, "cancelled")
  BY <1>3
<1>8. \A p : /\ At(p).active = m.job /\ At(p).phase = p /\ At(p).runs = dev.runs
             /\ At(p).old = dev.old /\ At(p).kept = dev.kept /\ At(p).results = Others(m.job)
  BY <1>3
<1> DEFINE Is1(d, s) == reply.dev = d /\ reply.answer = s
           R(d, s) == [dev |-> d, answer |-> s]
<1>0. \A d, s : R(d, s).dev = d /\ R(d, s).answer = s
  OBVIOUS
<1> DEFINE stage == IF dev.active = 0
                    THEN {R(At("downloading"), "downloading"), R(At("staged"), "staged"),
                          R(dev, "refused")}
                    ELSE IF mine /\ dev.phase \in {"downloading", "staged"} THEN {R(dev, dev.phase)}
                    ELSE {R(dev, "busy")}
           install == IF ~mine \/ dev.phase = "downloading" THEN {R(dev, "not_staged")}
                      ELSE IF dev.phase # "staged" THEN {R(dev, "installing")}
                      ELSE IF apply # "none" THEN {R(dev, "busy")}
                      ELSE {R(At("installing"), "installing"), R(Cleared, "refused")}
           conf == IF mine /\ dev.phase = "probation"
                   THEN {R(Kept, "confirmed"), R(KeptTold, "confirmed")}
                   ELSE {R(dev, "refused")}
           abo == IF ~mine THEN {R(dev, "unknown_update")}
                  ELSE IF dev.phase \notin {"downloading", "staged"} THEN {R(At("rolling"), "rolling")}
                  ELSE {R(Gone, "cancelled")}
<1>16. reply \in CASE m.op = "stage" -> stage [] m.op = "install" -> install
                   [] m.op = "confirm" -> conf [] m.op = "abort" -> abo
  BY <1>2 DEF Replies
<1>9. ASSUME m.op = "stage" PROVE HandleCases(m, a)
  <2>1. \/ dev.active = 0 /\ (Is1(At("downloading"), "downloading") \/ Is1(At("staged"), "staged"))
        \/ Is1(dev, "refused") \/ Is1(dev, "busy")
        \/ mine /\ dev.phase \in {"downloading", "staged"} /\ Is1(dev, dev.phase)
    <3>1. reply \in stage
      <4> HIDE DEF stage, install, conf, abo
      <4> QED BY <1>16, <1>9
    <3> HIDE DEF R, At, Cleared, Kept, KeptTold, Gone
    <3> QED BY <1>0, <3>1
  <2> HIDE DEF At, Cleared
  <2>2. StageStarts(m, a) \/ Nothing(m, a)
    BY <1>2, <1>8, <1>9, <2>1 DEF StageStarts, Nothing, AtPhase, SameRuns
  <2> QED BY <2>2 DEF HandleCases
<1>10. ASSUME m.op = "install" PROVE HandleCases(m, a)
  <2>1. \/ (~mine \/ dev.phase = "downloading") /\ Is1(dev, "not_staged")
        \/ mine /\ dev.phase # "staged" /\ Is1(dev, "installing")
        \/ mine /\ Is1(dev, "busy")
        \/ /\ mine /\ dev.phase = "staged" /\ apply = "none"
           /\ Is1(At("installing"), "installing") \/ Is1(Cleared, "refused")
    <3>1. reply \in install
      <4> HIDE DEF stage, install, conf, abo
      <4> QED BY <1>16, <1>10
    <3> HIDE DEF R, At, Cleared, Kept, KeptTold, Gone
    <3> QED BY <1>0, <3>1
  <2> HIDE DEF At, Cleared
  <2>2. InstallStarts(m, a) \/ InstallFails(m, a) \/ Nothing(m, a)
    BY <1>2, <1>4, <1>8, <1>10, <2>1 DEF InstallStarts, InstallFails, Nothing, AtPhase, Clears, SameRuns
  <2> QED BY <2>2 DEF HandleCases
<1>11. ASSUME m.op = "confirm" PROVE HandleCases(m, a)
  <2>1. \/ Is1(dev, "refused")
        \/ mine /\ dev.phase = "probation" /\ (Is1(Kept, "confirmed") \/ Is1(KeptTold, "confirmed"))
    <3>1. reply \in conf
      <4> HIDE DEF stage, install, conf, abo
      <4> QED BY <1>16, <1>11
    <3> HIDE DEF R, At, Cleared, Kept, KeptTold, Gone
    <3> QED BY <1>0, <3>1
  <2> HIDE DEF Kept, KeptTold
  <2>2. ConfirmTaken(m, a) \/ Nothing(m, a)
    BY <1>2, <1>5, <1>6, <1>11, <2>1 DEF ConfirmTaken, Nothing, Clears, SameRuns
  <2> QED BY <2>2 DEF HandleCases
<1>12. ASSUME m.op = "abort" PROVE HandleCases(m, a)
  <2>1. \/ ~mine /\ Is1(dev, "unknown_update")
        \/ mine /\ dev.phase \notin {"downloading", "staged"} /\ Is1(At("rolling"), "rolling")
        \/ mine /\ dev.phase \in {"downloading", "staged"} /\ Is1(Gone, "cancelled")
    <3>1. reply \in abo
      <4> HIDE DEF stage, install, conf, abo
      <4> QED BY <1>16, <1>12
    <3> HIDE DEF R, At, Cleared, Kept, KeptTold, Gone
    <3> QED BY <1>0, <3>1
  <2> HIDE DEF At, Gone
  <2>2. AbortRolls(m, a) \/ AbortTaken(m, a) \/ Nothing(m, a)
    BY <1>2, <1>7, <1>8, <1>12, <2>1 DEF AbortRolls, AbortTaken, Nothing, AtPhase, Clears, SameRuns
  <2> QED BY <2>2 DEF HandleCases
<1>13. HandleCases(m, a)
  BY <1>1, <1>9, <1>10, <1>11, <1>12 DEF Request, Asks
<1>14. a \in Answers
  BY <1>13, <1>1 DEF HandleCases, StageStarts, InstallStarts, InstallFails, ConfirmTaken,
     AbortRolls, AbortTaken, Nothing, Answers
<1>15. m = Head(wire)
  BY DEF m
<1> QED BY <1>1, <1>2, <1>13, <1>14, <1>15

\* The calls and the wire after a request was handled.
LEMMA HandleCalls ==
  ASSUME StateOK, LiveCalls, wire # <<>>, wire' = Tail(wire), NEW m \in Request, NEW a,
         m = Head(wire), a \in Answers,
         tick' = Answered(tick, m, a), confirm' = Answered(confirm, m, a),
         abort' = Answered(abort, m, a)
  PROVE  /\ LiveCalls'
         /\ \A op, j : Asked(op, j)' => Asked(op, j)
         /\ Asked(m.op, m.job) /\ m.job \in Jobs /\ m.op \in Asks
         /\ tick'.op = tick.op /\ tick'.job = tick.job /\ tick'.copy = tick.copy
         /\ confirm'.op = confirm.op /\ confirm'.job = confirm.job
         /\ abort'.copy = abort.copy /\ (abort = NoCall => abort' = NoCall)
         /\ tick'.answer # tick.answer =>
              m.live /\ tick'.answer = a /\ tick.op = m.op /\ tick.job = m.job
                /\ m.op \in {"stage", "install"} /\ tick.answer = "none"
         /\ confirm'.answer # confirm.answer =>
              m.live /\ confirm'.answer = a /\ m.op = "confirm" /\ confirm.job = m.job
                /\ confirm.answer = "none"
         /\ abort'.answer # abort.answer =>
              m.live /\ abort'.answer = a /\ m.op = "abort" /\ abort.job = m.job
                /\ abort.answer = "none"
<1>1. /\ Len(wire) \in Nat \ {0} /\ Len(wire') = Len(wire) - 1 /\ m = wire[1]
      /\ \A i \in 1..Len(wire') : wire'[i] = wire[i + 1]
  BY WireTail
<1>2. \A i \in 1..Len(wire') : i + 1 \in 1..Len(wire) /\ i + 1 # 1
  BY <1>1
<1>3. 1 \in 1..Len(wire)
  BY <1>1
<1>4. \A op, j : Asked(op, j)' => Asked(op, j)
  BY <1>1, <1>2 DEF Asked, Is
<1>5. Asked(m.op, m.job) /\ m.job \in Jobs /\ m.op \in Asks
  BY <1>1, <1>3 DEF Asked, Is, Request
<1>6. tick \in Call /\ confirm \in Call /\ abort \in Call
  BY DEF StateOK
<1>7. \A c \in Call : /\ Answered(c, m, a).op = c.op /\ Answered(c, m, a).job = c.job
                      /\ Answered(c, m, a).copy = c.copy
                      /\ ~(m.live /\ c.op = m.op) => Answered(c, m, a) = c
                      /\ Answered(c, m, a).answer # c.answer =>
                           m.live /\ c.op = m.op /\ Answered(c, m, a).answer = a
  BY DEF Answered, Call
<1>8. m.live => Awaited(tick, 1) \/ Awaited(confirm, 1) \/ Awaited(abort, 1)
  BY <1>1, <1>3 DEF LiveCalls
<1>9. LiveCalls'
  <2>1. ASSUME NEW i \in 1..Len(wire'), wire'[i].live
        PROVE  Awaited(tick, i)' \/ Awaited(confirm, i)' \/ Awaited(abort, i)'
    <3>1. wire'[i] = wire[i + 1] /\ i + 1 \in 1..Len(wire) /\ i + 1 # 1
      BY <1>1, <1>2
    <3>2. m.live => wire[i + 1].op # m.op
      BY <1>1, <1>3, <2>1, <3>1 DEF LiveCalls
    <3>3. ASSUME NEW c \in Call, c.op = wire[i + 1].op PROVE Answered(c, m, a) = c
      BY <1>7, <3>2, <3>3
    <3>4. Awaited(tick, i + 1) \/ Awaited(confirm, i + 1) \/ Awaited(abort, i + 1)
      BY <2>1, <3>1 DEF LiveCalls
    <3> QED BY <1>6, <3>1, <3>3, <3>4 DEF Awaited
  <2>2. ASSUME NEW i \in 1..Len(wire'), NEW k \in 1..Len(wire'),
               wire'[i].live /\ wire'[k].live /\ wire'[i].op = wire'[k].op
        PROVE  i = k
    <3>1. i + 1 = k + 1
      BY <1>1, <1>2, <2>2 DEF LiveCalls
    <3> QED BY <3>1, <1>1
  <2>3. tick.op \in Ops => tick'.answer = tick.answer
    BY <1>5, <1>6, <1>7 DEF Asks, Ops
  <2> QED BY <1>6, <1>7, <2>1, <2>2, <2>3 DEF LiveCalls
<1>10. \A c \in {tick, confirm, abort} : Answered(c, m, a).answer # c.answer => m.live /\ c.op = m.op
  BY <1>6, <1>7
<1>11. /\ m.live /\ tick.op = m.op => Awaited(tick, 1)
       /\ m.live /\ confirm.op = m.op => Awaited(confirm, 1)
       /\ m.live /\ abort.op = m.op => Awaited(abort, 1)
  BY <1>1, <1>5, <1>8 DEF LiveCalls, Awaited, Asks, Ops
<1>12. /\ m.op = tick.op => m.op \in {"stage", "install"}
       /\ m.op = confirm.op => m.op = "confirm"
       /\ m.op = abort.op => m.op = "abort"
  BY <1>5 DEF LiveCalls, Asks, Ops
<1>13. /\ tick'.answer # tick.answer => m.live /\ tick.op = m.op /\ tick'.answer = a
       /\ confirm'.answer # confirm.answer => m.live /\ confirm.op = m.op /\ confirm'.answer = a
       /\ abort'.answer # abort.answer => m.live /\ abort.op = m.op /\ abort'.answer = a
  BY <1>6, <1>7
<1>14. Awaited(tick, 1) => tick.job = m.job /\ tick.answer = "none"
  BY <1>1 DEF Awaited
<1>15. Awaited(confirm, 1) => confirm.job = m.job /\ confirm.answer = "none"
  BY <1>1 DEF Awaited
<1>16. Awaited(abort, 1) => abort.job = m.job /\ abort.answer = "none"
  BY <1>1 DEF Awaited
<1>17. abort = NoCall => abort' = NoCall
  BY <1>5, <1>6, <1>7 DEF NoCall, Asks
<1> QED BY <1>4, <1>5, <1>6, <1>7, <1>9, <1>11, <1>12, <1>13, <1>14, <1>15, <1>16, <1>17

LEMMA HandleAgrees == ASSUME VInv, Handle PROVE DeviceAgrees'
<1> USE DEF VInv, DeviceAgrees, TInv
<1>0. dev \in [runs : 0..MaxJobs, old : 0..MaxJobs, active : 0..MaxJobs, phase : Phases,
              results : SUBSET Result, kept : SUBSET Jobs] /\ 0 \notin dev.kept /\ 0 \notin Jobs
  BY DEF StateOK, Jobs
<1>1. PICK m \in Request, a \in Answers :
        /\ m = Head(wire)
        /\ HandleCases(m, a)
        /\ tick' = Answered(tick, m, a) /\ confirm' = Answered(confirm, m, a)
        /\ abort' = Answered(abort, m, a)
        /\ notes' = IF a = "cancelled"
                    THEN Append(notes, [job |-> m.job, outcome |-> "cancelled"]) ELSE notes
  BY HandleIs
<1>2. wire # <<>> /\ wire' = Tail(wire) /\ session.up /\ UNCHANGED <<row, report, session>>
  BY DEF Handle
<1>3. /\ LiveCalls'
      /\ \A op, j : Asked(op, j)' => Asked(op, j)
      /\ Asked(m.op, m.job) /\ m.job \in Jobs /\ m.op \in Asks
      /\ tick'.op = tick.op /\ tick'.job = tick.job /\ tick'.copy = tick.copy
      /\ confirm'.op = confirm.op /\ confirm'.job = confirm.job
      /\ abort'.copy = abort.copy /\ (abort = NoCall => abort' = NoCall)
      /\ confirm'.answer # confirm.answer =>
           m.live /\ confirm'.answer = a /\ m.op = "confirm" /\ confirm.job = m.job
  BY <1>1, <1>2, HandleCalls
<1>4. Quiet'
  BY <1>2, <1>3 DEF Quiet
<1>5. Copies'
  BY <1>3 DEF Copies
<1>6. [job |-> m.job, outcome |-> "cancelled"] \in Result
  BY <1>3 DEF Result
<1>7. NotesOf' = IF a = "cancelled" THEN NotesOf \cup {[job |-> m.job, outcome |-> "cancelled"]}
                 ELSE NotesOf
  BY <1>1, <1>6, NotesAppend DEF NotesOf
<1>8. Others(m.job) \subseteq dev.results
  BY DEF Others
<1>9. dev.kept \subseteq dev'.kept
  BY <1>1 DEF HandleCases, StageStarts, InstallStarts, InstallFails, ConfirmTaken, AbortRolls,
     AbortTaken, Nothing, AtPhase
<1>10. SessionRuns'
  BY <1>2, <1>9 DEF SessionRuns
<1>11. Confirmed'
  <2>1. a = "confirmed" => m.job \in dev'.kept
    BY <1>1 DEF HandleCases, StageStarts, InstallStarts, InstallFails, ConfirmTaken, AbortRolls,
       AbortTaken, Nothing, AtPhase
  <2> QED BY <1>3, <1>9, <2>1 DEF Confirmed
<1>12. CASE Nothing(m, a)
  <2>1. dev' = dev /\ a # "cancelled"
    BY <1>12 DEF Nothing
  <2>2. Told' = Told
    BY <1>2, <1>7, <2>1 DEF Told
  <2> QED BY <1>2, <1>3, <1>4, <1>5, <1>10, <1>11, <2>1, <2>2
      DEF DevRuns, NotKept, ResultsTrue, TestedOK, Tested
<1>13. CASE StageStarts(m, a)
  <2>1. /\ a # "cancelled" /\ m.op = "stage" /\ dev.active = 0 /\ dev'.active = m.job
        /\ dev'.phase \in {"downloading", "staged"} /\ dev'.results = Others(m.job)
        /\ dev'.kept = dev.kept /\ dev'.runs = dev.runs /\ dev'.old = dev.old
    BY <1>13 DEF StageStarts, AtPhase, SameRuns
  <2>2. Told' \subseteq Told
    BY <1>2, <1>7, <1>8, <2>1 DEF Told
  <2>3. m.job \notin dev.kept
    BY <1>3, <2>1 DEF NotKept
  <2>4. DevRuns' /\ NotKept'
    BY <1>0, <1>3, <2>1, <2>3 DEF DevRuns, NotKept, AtWork
  <2>5. ResultsTrue'
    BY <2>1, <2>2 DEF ResultsTrue, Swapping
  <2>6. TestedOK'
    BY <1>0, <1>2, <2>1, <2>2 DEF TestedOK, Tested
  <2> QED BY <1>3, <1>4, <1>5, <1>10, <1>11, <2>4, <2>5, <2>6
<1>14. CASE InstallStarts(m, a) \/ AbortRolls(m, a)
  <2>1. /\ a # "cancelled" /\ dev.active = m.job /\ dev'.active = m.job
        /\ dev'.phase \in {"installing", "rolling"} /\ dev'.results = Others(m.job)
        /\ dev'.kept = dev.kept /\ dev'.runs = dev.runs /\ dev'.old = dev.old
        /\ \/ m.op = "install" /\ dev.phase = "staged"
           \/ dev.phase \notin {"downloading", "staged"} /\ dev'.phase = "rolling"
    BY <1>14 DEF InstallStarts, AbortRolls, AtPhase, SameRuns
  <2>2. Told' \subseteq Told
    BY <1>2, <1>7, <1>8, <2>1 DEF Told
  <2>3. dev.phase # "none"
    BY <1>0, <1>3, <2>1 DEF DevRuns
  <2>4. DevRuns' /\ NotKept'
    BY <1>0, <1>3, <2>1, <2>3 DEF DevRuns, NotKept
  <2>5. ResultsTrue'
    <3>1. \A r \in dev'.results : r.job # m.job
      BY <2>1 DEF Others
    <3> QED BY <2>1, <2>2, <3>1 DEF ResultsTrue
  <2>6. TestedOK'
    BY <1>0, <1>2, <2>1, <2>2 DEF TestedOK, Tested, NotKept
  <2> QED BY <1>3, <1>4, <1>5, <1>10, <1>11, <2>4, <2>5, <2>6
<1>15. CASE InstallFails(m, a)
  <2>1. /\ a # "cancelled" /\ dev.active = m.job /\ dev.phase = "staged" /\ dev'.active = 0
        /\ dev'.phase = "none" /\ dev'.results = dev.results
        /\ dev'.kept = dev.kept /\ dev'.runs = dev.runs /\ dev'.old = dev.old
    BY <1>15 DEF InstallFails, Clears, SameRuns
  <2>2. Told' = Told
    BY <1>2, <1>7, <2>1 DEF Told
  <2>3. DevRuns' /\ NotKept' /\ ResultsTrue'
    BY <1>0, <1>3, <2>1, <2>2 DEF DevRuns, NotKept, ResultsTrue, Swapping
  <2>4. TestedOK'
    BY <1>2, <2>1, <2>2 DEF TestedOK, Tested
  <2> QED BY <1>3, <1>4, <1>5, <1>10, <1>11, <2>3, <2>4
<1>16. CASE AbortTaken(m, a)
  <2>1. /\ dev.active = m.job /\ dev.phase \in {"downloading", "staged"} /\ dev'.active = 0
        /\ dev'.phase = "none" /\ dev'.results = With(m.job, "cancelled")
        /\ dev'.kept = dev.kept /\ dev'.runs = dev.runs /\ dev'.old = dev.old
    BY <1>16 DEF AbortTaken, Clears, SameRuns
  <2>2. \A r \in Told' : r \in Told \/ (r.job = m.job /\ r.outcome # "confirmed")
    BY <1>2, <1>7, <2>1, WithJob DEF Told
  <2>3. DevRuns' /\ NotKept' /\ ResultsTrue'
    BY <1>0, <1>3, <2>1, <2>2 DEF DevRuns, NotKept, ResultsTrue, Swapping
  <2>4. TestedOK'
    BY <1>2, <2>1, <2>2 DEF TestedOK, Tested, NotKept
  <2> QED BY <1>3, <1>4, <1>5, <1>10, <1>11, <2>3, <2>4
<1>17. CASE ConfirmTaken(m, a)
  <2>1. /\ a # "cancelled" /\ m.op = "confirm" /\ dev.active = m.job /\ dev.phase = "probation"
        /\ dev'.active = 0 /\ dev'.phase = "none" /\ dev'.kept = dev.kept \cup {m.job}
        /\ dev'.results \in {dev.results, With(m.job, "confirmed")}
        /\ dev'.runs = dev.runs /\ dev'.old = dev.old
    BY <1>17 DEF ConfirmTaken, Clears, SameRuns
  <2>2. \A r \in Told' : r \in Told \/ (r.job = m.job /\ r.outcome = "confirmed")
    BY <1>2, <1>7, <2>1, WithJob DEF Told
  <2>3. Tested(m.job) /\ \A k \in 1..Len(wire) : Is(k, "stage", m.job) => k < 1
    BY <1>1, <1>2, <1>3, <2>1, WireTail DEF Sure, Is
  <2>8. ~Asked("stage", m.job)'
    BY <1>2, <2>3, WireTail DEF Asked, Is
  <2>4. \A r \in Told : r.job = m.job => r.outcome = "confirmed"
    BY <1>3, <2>3 DEF TestedOK
  <2>5. DevRuns' /\ NotKept'
    BY <1>0, <1>3, <2>1, <2>8 DEF DevRuns, NotKept
  <2>6. ResultsTrue'
    BY <2>1, <2>2, <2>4 DEF ResultsTrue, Swapping
  <2>7. TestedOK'
    BY <1>2, <1>3, <2>1, <2>2, <2>4 DEF TestedOK, Tested
  <2> QED BY <1>3, <1>4, <1>5, <1>10, <1>11, <2>5, <2>6, <2>7
<1> QED BY <1>1, <1>12, <1>13, <1>14, <1>15, <1>16, <1>17 DEF HandleCases

\* What a step does to the states of the rows.
StateTo(j, s) == \A i \in Jobs : row'[i].state = IF i = j THEN s ELSE row[i].state
SameStates == \A i \in Jobs : row'[i].state = row[i].state

LEMMA KeepStates == ASSUME Keep \/ row' = row PROVE SameStates
BY DEF Keep, SameStates

\* ... and what it does to the in-flight set when it saves a row.
Goes(j, s) == StateTo(j, s) /\ (hold' <=> s \in InFlight)

LEMMA SaveStates ==
  ASSUME StateOK, NEW j \in Jobs, NEW new \in Row, Save(j, row[j], new)
  PROVE  Goes(j, new.state)
<1>1. row[j] \in Row
  BY DEF StateOK
<1>2. row' = [row EXCEPT ![j] = new]
  BY <1>1, SavedRow DEF Save
<1> QED BY <1>2 DEF Goes, StateTo, Save, StateOK

LEMMA MoveStates ==
  ASSUME StateOK, NEW j \in Jobs, NEW s \in Open \cup Final, Move(j, s)
  PROVE  Goes(j, s)
<1>1. row[j] \in Row
  BY DEF StateOK
<1>2. To(row[j], s) \in Row /\ To(row[j], s).state = s
  BY <1>1, ToRow
<1> QED BY <1>2, SaveStates DEF Move

LEMMA States ==
  /\ {"queued", "staging", "staged", "installing", "probation", "unknown"} = Open
  /\ Final = {"confirmed", "failed", "rolled_back", "cancelled", "expired"}
BY DEF Open, Final, InFlight

\* The same for any copy: what the pass does not keep, it writes.
LEMMA CopyStates ==
  ASSUME StateOK, NEW j \in Jobs, NEW copy \in Row, NEW new \in Row, Save(j, copy, new),
         new.state # copy.state
  PROVE  StateTo(j, new.state)
<1>1. row[j] \in Row
  BY DEF StateOK
<1>2. Saved(row[j], copy, new).state = new.state
  BY <1>1 DEF Saved, Row
<1> QED BY <1>1, <1>2 DEF Save, StateTo, StateOK

LEMMA StageStates ==
  ASSUME TInv, Copies, StageAnswered
  PROVE  /\ tick.job \in Jobs /\ tick # NoCall
         /\ \/ SameStates
            \/ StateTo(tick.job, "staging") /\ tick.answer = "downloading"
            \/ StateTo(tick.job, "staged") /\ tick.answer = "staged"
            \/ StateTo(tick.job, "failed")
<1> DEFINE j == tick.job  copy == tick.copy
<1>1. j \in Jobs /\ copy \in Row /\ copy.state = "queued" /\ tick # NoCall
  BY DEF TInv, StateOK, Call, StageAnswered, Copies, NoCall
<1>2. \A s \in Open \cup Final : To(copy, s) \in Row /\ To(copy, s).state = s
  BY <1>1, ToRow
<1>3. \A s \in {"staging", "staged", "failed"} : Save(j, copy, To(copy, s)) => StateTo(j, s)
  <2> HIDE DEF copy, j
  <2> QED BY <1>1, <1>2, CopyStates, States DEF TInv
<1>4. \/ Keep
      \/ Save(j, copy, To(copy, "staging")) /\ tick.answer = "downloading"
      \/ Save(j, copy, To(copy, "staged")) /\ tick.answer = "staged"
      \/ Save(j, copy, To(copy, "failed"))
  BY DEF StageAnswered
<1> QED BY <1>1, <1>3, <1>4, KeepStates

LEMMA InstallStates ==
  ASSUME TInv, Copies, InstallAnswered
  PROVE  /\ tick.job \in Jobs /\ tick # NoCall /\ tick.op = "install"
         /\ \/ SameStates
            \/ \E s \in {"installing", "queued", "failed"} : StateTo(tick.job, s)
<1> DEFINE j == tick.job  copy == tick.copy
           sent == [To(copy, "installing") EXCEPT !.sent = TRUE]
           again == [To(copy, "queued") EXCEPT !.restages = @ + 1]
<1>1. j \in Jobs /\ copy \in Row /\ copy.state = "staged" /\ tick # NoCall
  BY DEF TInv, StateOK, Call, InstallAnswered, Copies, NoCall
<1>2. \A s \in Open \cup Final : /\ To(copy, s) \in Row /\ To(copy, s).state = s
                                 /\ To(copy, s).restages = copy.restages
  BY <1>1, ToRow
<1>3. sent \in Row /\ sent.state = "installing"
  <2>1. \A q \in Row : [q EXCEPT !.sent = TRUE] \in Row /\ [q EXCEPT !.sent = TRUE].state = q.state
    BY DEF Row
  <2>2. To(copy, "installing") \in Row /\ To(copy, "installing").state = "installing"
    BY <1>2, States
  <2> QED BY <2>1, <2>2
<1>4. copy.restages < MaxRestages => again \in Row /\ again.state = "queued"
  BY <1>1, <1>2, States, Constants DEF Row
<1>5. To(copy, "failed") \in Row /\ To(copy, "failed").state = "failed"
  BY <1>2, States
<1>6. \/ Keep
      \/ Save(j, copy, sent)
      \/ Save(j, copy, again) /\ copy.restages < MaxRestages
      \/ Save(j, copy, To(copy, "failed"))
  BY DEF InstallAnswered
<1> HIDE DEF copy, j, sent, again
<1>7. \A new \in Row : Save(j, copy, new) /\ new.state # "staged" => StateTo(j, new.state)
  BY <1>1, CopyStates DEF TInv
<1>8. SameStates \/ \E s \in {"installing", "queued", "failed"} : StateTo(j, s)
  BY <1>3, <1>4, <1>5, <1>6, <1>7, KeepStates
<1> QED BY <1>1, <1>8 DEF InstallAnswered, j

\* What the pass saves without asking the device.
LEMMA ClockStates ==
  ASSUME TInv, Copies, CannotStart \/ MarkOverdue \/ ExpireQueued
  PROVE  /\ tick.job \in Jobs /\ tick.copy \in Row /\ tick' = NoCall
         /\ \E op \in {"start", "overdue", "expire"}, s \in {"failed", "unknown", "expired"} :
              /\ tick.op = op /\ (s = "unknown" <=> op = "overdue")
              /\ Save(tick.job, tick.copy, To(tick.copy, s)) /\ StateTo(tick.job, s)
<1> DEFINE j == tick.job  copy == tick.copy
<1>1. j \in Jobs /\ copy \in Row
  BY DEF TInv, StateOK, Call
<1>2. \A s \in Open \cup Final : To(copy, s) \in Row /\ To(copy, s).state = s
  BY <1>1, ToRow
<1>3. \A s \in {"failed", "unknown", "expired"} :
        Save(j, copy, To(copy, s)) /\ copy.state # s => StateTo(j, s)
  <2> HIDE DEF copy, j
  <2> QED BY <1>1, <1>2, CopyStates, States DEF TInv
<1>4. \/ tick.op = "start" /\ Save(j, copy, To(copy, "failed")) /\ copy.state # "failed"
      \/ tick.op = "overdue" /\ Save(j, copy, To(copy, "unknown")) /\ copy.state # "unknown"
      \/ tick.op = "expire" /\ Save(j, copy, To(copy, "expired")) /\ copy.state # "expired"
  BY DEF CannotStart, MarkOverdue, ExpireQueued, Expires, Copies
<1>5. tick' = NoCall
  BY DEF CannotStart, MarkOverdue, ExpireQueued, Expires
<1> HIDE DEF copy, j
<1>6. \E op \in {"start", "overdue", "expire"}, s \in {"failed", "unknown", "expired"} :
        /\ tick.op = op /\ (s = "unknown" <=> op = "overdue")
        /\ Save(j, copy, To(copy, s)) /\ StateTo(j, s)
  BY <1>3, <1>4
<1> QED BY <1>1, <1>5, <1>6 DEF j, copy

LEMMA ConfirmMoves ==
  ASSUME TInv, ConfirmAnswered
  PROVE  /\ confirm.job \in Jobs
         /\ \/ Keep
            \/ /\ Goes(confirm.job, "confirmed") /\ confirm.answer = "confirmed"
               /\ row[confirm.job].state \in Open
<1>1. confirm.job \in Jobs
  BY DEF TInv, StateOK, Call
<1> QED BY <1>1, MoveStates, States DEF TInv, ConfirmAnswered

LEMMA CandidateMoves ==
  ASSUME TInv, NEW j \in Jobs, SeeCandidate(j) \/ SendConfirm(j)
  PROVE  /\ row[j].state \in {"installing", "probation", "unknown"} /\ Tested(j)
         /\ Goes(j, "probation")
BY MoveStates, States DEF TInv, SeeCandidate, SendConfirm, Candidate, Tested

LEMMA CreateMoves ==
  ASSUME TInv, NEW j \in Jobs, CreateJob(j)
  PROVE  row[j].state = "none" /\ StateTo(j, "queued")
<1>1. \A i \in Jobs : row'[i] = IF i = j THEN [NoRow EXCEPT !.state = "queued", !.key = TRUE]
                                ELSE row[i]
  BY DEF CreateJob, TInv, StateOK
<1>2. [NoRow EXCEPT !.state = "queued", !.key = TRUE].state = "queued"
  BY DEF NoRow
<1>3. StateTo(j, "queued")
  BY <1>1, <1>2 DEF StateTo
<1> QED BY <1>3 DEF CreateJob

LEMMA AbortMoves ==
  ASSUME TInv, NEW j \in Jobs, Abort(j)
  PROVE  \/ Keep /\ abort' = Sent("abort", j) /\ Send("abort", j) /\ session.up
         \/ /\ Goes(j, "cancelled") /\ UNCHANGED <<abort, wire>>
            /\ \/ row[j].state = "queued"
               \/ row[j].state \in {"staging", "staged", "unknown"} /\ ~session.up
BY MoveStates, States DEF TInv, Abort, ClosedAlone

LEMMA AbortAnsweredMoves ==
  ASSUME TInv, DeviceAgrees, AbortAnswered
  PROVE  /\ abort.job \in Jobs
         /\ \/ Keep
            \/ /\ Goes(abort.job, "cancelled") /\ abort # NoCall
               /\ \/ abort.answer = "cancelled"
                  \/ abort.answer = "unknown_update" /\ abort.copy.state \in {"staging", "staged"}
<1> USE DEF TInv
<1> DEFINE copy == abort.copy  j == abort.job  new == To(copy, "cancelled")
<1>1. j \in Jobs /\ copy \in Row /\ row[j] \in Row
  BY DEF StateOK, Call
<1>2. abort # NoCall
  BY DEF AbortAnswered, NoCall
<1>3. copy.state # "cancelled"
  BY <1>2, States DEF DeviceAgrees, Copies
<1>4. new \in Row /\ new.state = "cancelled"
  BY <1>1, States, ToRow
<1>5. Saved(row[j], copy, new).state = "cancelled"
  <2> HIDE DEF new, copy, j
  <2> QED BY <1>1, <1>3, <1>4 DEF Saved, Row
<1>6. Save(j, copy, new) => Goes(j, "cancelled")
  <2> HIDE DEF new, copy, j
  <2> QED BY <1>1, <1>4, <1>5 DEF Goes, Save, StateTo, StateOK
<1> QED BY <1>1, <1>2, <1>6 DEF AbortAnswered

LEMMA SettleMoves ==
  ASSUME TInv, NEW r \in Result, Settle(r)
  PROVE  /\ r.job \in Jobs
         /\ \/ Keep
            \/ /\ r.outcome = "staged" /\ row[r.job].state \in {"queued", "staging"}
               /\ Goes(r.job, "staged")
            \/ /\ r.outcome = "url_expired" /\ row[r.job].state \in Open
               /\ Goes(r.job, "queued") \/ Goes(r.job, "failed")
            \/ /\ r.outcome \in Final /\ row[r.job].state \in Open /\ Goes(r.job, r.outcome)
<1> USE DEF TInv
<1> DEFINE j == r.job  now == row[r.job]  again == [To(now, "queued") EXCEPT !.restages = @ + 1]
<1>1. j \in Jobs /\ now \in Row /\ Settled(r) \in Row
  BY SettledRow DEF StateOK, Result
<1>2. Settled(r) = now \/ Goes(j, Settled(r).state)
  BY <1>1, SaveStates DEF Settle
<1>3. Settled(r) = now => Keep
  BY DEF Settle
<1>4. \A s \in Open \cup Final : /\ To(now, s) \in Row /\ To(now, s).state = s
                                 /\ To(now, s).restages = now.restages
  BY <1>1, ToRow
<1>5. now.restages < MaxRestages => again.state = "queued"
  BY <1>1, <1>4, States DEF Row
<1>6. r.outcome \in {"staged", "url_expired"} \cup Final
  BY States DEF Result
<1>7. \/ Settled(r) = now
      \/ r.outcome = "staged" /\ now.state \in {"queued", "staging"} /\ Settled(r) = To(now, "staged")
      \/ /\ r.outcome = "url_expired" /\ now.state \in Open
         /\ Settled(r) = To(now, "failed") \/ (Settled(r) = again /\ now.restages < MaxRestages)
      \/ r.outcome \in Final /\ now.state \in Open /\ Settled(r) = To(now, r.outcome)
  <2> HIDE DEF now
  <2> QED BY <1>6, States DEF Settled, now
<1> HIDE DEF now, again
<1>8. CASE r.outcome = "staged" /\ now.state \in {"queued", "staging"} /\ Settled(r) = To(now, "staged")
  BY <1>1, <1>2, <1>3, <1>4, <1>8, States DEF now
<1>9. CASE /\ r.outcome = "url_expired" /\ now.state \in Open
           /\ Settled(r) = To(now, "failed") \/ (Settled(r) = again /\ now.restages < MaxRestages)
  BY <1>1, <1>2, <1>3, <1>4, <1>5, <1>9, States DEF now
<1>10. CASE r.outcome \in Final /\ now.state \in Open /\ Settled(r) = To(now, r.outcome)
  BY <1>1, <1>2, <1>3, <1>4, <1>10, States DEF now
<1> QED BY <1>1, <1>3, <1>7, <1>8, <1>9, <1>10 DEF now

LEMMA ResyncMoves ==
  ASSUME TInv, Resync
  PROVE  \/ Keep
         \/ \E j \in Jobs :
              \/ /\ row[j].state \in {"staging", "staged"} /\ session.active # j
                 /\ Goes(j, "failed")
              \/ /\ row[j].state \in {"staging", "installing"} /\ session.active = j
                 /\ session.phase = "staged" /\ Goes(j, "staged")
              \/ /\ row[j].state \in {"installing", "probation", "unknown"} /\ session.active = 0
                 /\ session.runs = j /\ Goes(j, "confirmed")
<1> USE DEF TInv
<1>1. CASE \E j \in Jobs : row[j].key
  <2> DEFINE j == CHOOSE j \in Jobs : row[j].key
  <2>1. j \in Jobs
    BY <1>1
  <2>2. IF Resynced(j) = row[j] THEN Keep ELSE Save(j, row[j], Resynced(j))
    BY <1>1 DEF Resync
  <2> HIDE DEF j
  <2>3. row[j] \in Row /\ Resynced(j) \in Row
    BY <2>1, ResyncedRow DEF StateOK
  <2>4. \A s \in Open \cup Final : To(row[j], s).state = s
    BY <2>3, ToRow
  <2>5. \/ Resynced(j) = row[j]
        \/ row[j].state \in {"staging", "staged"} /\ session.active # j /\ Resynced(j).state = "failed"
        \/ row[j].state \in {"staging", "installing"} /\ session.active = j
           /\ session.phase = "staged" /\ Resynced(j).state = "staged"
        \/ row[j].state \in {"installing", "probation", "unknown"} /\ session.active = 0
           /\ session.runs = j /\ Resynced(j).state = "confirmed"
    BY <2>4, States DEF Resynced
  <2>6. Resynced(j) = row[j] \/ Goes(j, Resynced(j).state)
    BY <2>1, <2>2, <2>3, SaveStates
  <2> QED BY <2>1, <2>2, <2>5, <2>6
<1> QED BY <1>1 DEF Resync

\* The rows may change so.
MovesOK ==
  \A j \in Jobs :
    /\ (Asked("confirm", j) \/ j \in dev.kept) /\ row[j].state \in KeptStates
         => row'[j].state \in KeptStates
    /\ row'[j].state = "confirmed" => row[j].state = "confirmed" \/ j \in dev.kept

LEMMA CalmsRows ==
  ASSUME VInv, Calms, MovesOK
  PROVE  Sure'
<1> USE DEF VInv, DeviceAgrees, Sure
<1>1. \A op, j : Asked(op, j)' <=> Asked(op, j)
  BY DEF Calms, Asked, Is
<1>2. \A j : Tested(j)' <=> Tested(j)
  BY DEF Calms, Tested, SameSession
<1>3. wire' = wire /\ dev'.kept = dev.kept
  BY DEF Calms
<1> QED BY <1>1, <1>2, <1>3 DEF Sure, MovesOK, Is

LEMMA SameMovesOK == ASSUME VInv, SameStates PROVE MovesOK
BY DEF VInv, SameStates, MovesOK, Sure

\* A result of a job about to be kept says so.
LEMMA SettleOK == ASSUME VInv, NEW r \in Told, Settle(r) PROVE MovesOK
<1> USE DEF VInv, DeviceAgrees, TInv
<1>1. r \in Result
  BY ToldTyped
<1>2. r.outcome = "confirmed" <=> r.job \in dev.kept
  BY DEF ResultsTrue
<1>3. Tested(r.job) => r.outcome = "confirmed"
  BY <1>1, SettleMoves, KeepStates DEF Goes, TestedOK
<1>4. Asked("confirm", r.job) => r.outcome = "confirmed"
  BY <1>1, <1>3, SettleMoves, KeepStates DEF Goes, Sure
<1>5. CASE SameStates
  BY <1>5, SameMovesOK
<1>6. ASSUME ~SameStates PROVE MovesOK
  <2>1. PICK s : /\ StateTo(r.job, s)
                 /\ s = "confirmed" <=> r.outcome = "confirmed"
                 /\ r.outcome = "confirmed" => s = "confirmed"
    BY <1>1, <1>6, SettleMoves, KeepStates DEF Goes, Final
  <2>2. ASSUME NEW j \in Jobs, j # r.job PROVE row'[j].state = row[j].state
    BY <2>1, <2>2 DEF StateTo
  <2>3. r.job \in Jobs => row'[r.job].state = s
    BY <2>1 DEF StateTo
  <2> QED BY <1>2, <1>3, <1>4, <2>1, <2>2, <2>3
      DEF MovesOK, Sure, KeptStates, Final
<1> QED BY <1>5, <1>6

LEMMA RowStepsMove == ASSUME VInv, RowSteps PROVE MovesOK
<1> USE DEF VInv, DeviceAgrees, Sure
<1>0. ASSUME NEW j \in Jobs, NEW s, StateTo(j, s),
             (Asked("confirm", j) \/ j \in dev.kept) /\ row[j].state \in KeptStates => s \in KeptStates,
             s = "confirmed" => j \in dev.kept
      PROVE  MovesOK
  BY <1>0 DEF MovesOK, StateTo, Sure
<1>1. CASE RefreshInFlight \/ StartApply \/ EndApply \/ UNCHANGED vars
  BY <1>1, KeepStates, SameMovesOK DEF RefreshInFlight, StartApply, EndApply, vars
<1>2. CASE StageAnswered
  <2>1. tick.op = "stage"
    BY <1>2 DEF StageAnswered
  <2> QED BY <1>0, <1>2, <2>1, StageStates, SameMovesOK, States DEF KeptStates, PassApart
<1>3. CASE InstallAnswered
  BY <1>0, <1>3, InstallStates, SameMovesOK, States DEF KeptStates, PassApart
<1>4. CASE Quits
  <2>1. CASE LetGo
    BY <2>1, KeepStates, SameMovesOK DEF LetGo
  <2>2. CASE CannotStart \/ MarkOverdue \/ ExpireQueued
    <3>1. PICK op \in {"start", "overdue", "expire"}, s \in {"failed", "unknown", "expired"} :
            /\ tick.op = op /\ (s = "unknown" <=> op = "overdue") /\ StateTo(tick.job, s)
      BY <2>2, ClockStates
    <3>2. tick.job \in Jobs
      BY DEF TInv, StateOK, Call
    <3> QED BY <1>0, <3>1, <3>2 DEF PassApart, KeptStates
  <2> QED BY <1>4, <2>1, <2>2 DEF Quits
<1>13. CASE Looks
  BY <1>13, KeepStates, SameMovesOK DEF Looks, ReadJob, InstallStaged
<1>5. CASE ConfirmAnswered
  BY <1>0, <1>5, ConfirmMoves, KeepStates, SameMovesOK, States DEF Goes, KeptStates, Confirmed
<1>6. ASSUME NEW j \in Jobs, SeeCandidate(j) PROVE MovesOK
  BY <1>0, <1>6, CandidateMoves, States DEF Goes, KeptStates
<1>7. CASE AbortAnswered
  BY <1>0, <1>7, AbortAnsweredMoves, KeepStates, SameMovesOK, States DEF Goes, KeptStates
<1>8. ASSUME NEW j \in Jobs, CreateJob(j) PROVE MovesOK
  BY <1>0, <1>8, CreateMoves, States DEF KeptStates
<1>9. ASSUME NEW j \in Jobs, Abort(j) PROVE MovesOK
  BY <1>0, <1>9, AbortMoves, KeepStates, SameMovesOK, States DEF Goes, KeptStates
<1>10. CASE HandleNote
  <2>1. Head(notes) \in NotesOf
    BY <1>10, NotesTail DEF HandleNote, TInv
  <2> QED BY <1>10, <2>1, SettleOK DEF HandleNote, Told
<1>11. CASE HandleResult
  BY <1>11, SettleOK DEF HandleResult, Told
<1>12. CASE Resync
  <2>1. 0 \notin Jobs
    BY DEF Jobs
  <2> QED BY <1>0, <1>12, <2>1, ResyncMoves, KeepStates, SameMovesOK, States
      DEF Goes, KeptStates, SessionRuns
<1> QED BY <1>1, <1>2, <1>3, <1>4, <1>5, <1>6, <1>7, <1>8, <1>9, <1>10, <1>11, <1>12, <1>13
    DEF RowSteps, Reports

\* The other steps.
LEMMA SendRows ==
  ASSUME VInv, NEW j \in Jobs, Sends(j)
  PROVE  Sure'
<1> USE DEF VInv, TInv
<1>1. PICK op \in Asks :
        /\ Send(op, j)
        /\ op \in {"stage", "install"} =>
             tick.op = (IF op = "stage" THEN "start" ELSE "put") /\ tick.job = j
        /\ op = "confirm" => SendConfirm(j)
        /\ op # "confirm" => row' = row
        /\ UNCHANGED dev /\ SameSession
  <2>1. Asks = {"stage", "install", "confirm", "abort"}
    BY DEF Asks
  <2> QED BY <2>1, SendIs
<1>2. /\ Len(wire) \in Nat /\ Len(wire') = Len(wire) + 1
      /\ \A i \in 1..Len(wire) : wire'[i] = wire[i]
      /\ wire'[Len(wire) + 1] = [op |-> op, job |-> j, live |-> TRUE]
  BY <1>1, WireSend
<1>3. \A o, i : Asked(o, i)' => Asked(o, i) \/ (o = op /\ i = j)
  BY <1>2 DEF Asked, Is
<1>4. \A i : Tested(i)' <=> Tested(i)
  BY <1>1 DEF Tested, SameSession
<1>5. op = "stage" => ~Asked("confirm", j)
  BY <1>1 DEF PassApart
<1>6. ASSUME NEW d \in Jobs, NEW i \in 1..Len(wire'), NEW k \in 1..Len(wire'),
             Is(i, "confirm", d)', Is(k, "stage", d)'
      PROVE  k < i
  <2>1. /\ i \in 1..Len(wire) \/ i = Len(wire) + 1
        /\ k \in 1..Len(wire) \/ k = Len(wire) + 1
    BY <1>2
  <2>2. CASE i \in 1..Len(wire) /\ k \in 1..Len(wire)
    BY <1>2, <1>6, <2>2 DEF Sure, Is
  <2>3. CASE i \in 1..Len(wire) /\ k = Len(wire) + 1
    <3>1. op = "stage" /\ d = j /\ Is(i, "confirm", j)
      BY <1>2, <1>6, <2>3 DEF Is
    <3> QED BY <1>5, <2>3, <3>1 DEF Asked
  <2>4. CASE i = Len(wire) + 1 /\ k \in 1..Len(wire)
    BY <1>2, <2>4
  <2>5. CASE i = Len(wire) + 1 /\ k = Len(wire) + 1
    BY <1>6, <2>5 DEF Is
  <2> QED BY <2>1, <2>2, <2>3, <2>4, <2>5
<1>7. CASE op = "confirm"
  <2>1. StateTo(j, "probation") /\ Tested(j)
    BY <1>1, <1>7, CandidateMoves DEF Goes
  <2> QED BY <1>1, <1>3, <1>4, <1>6, <1>7, <2>1 DEF Sure, StateTo, KeptStates
<1>8. CASE op # "confirm"
  BY <1>1, <1>3, <1>4, <1>6, <1>8 DEF Sure
<1> QED BY <1>7, <1>8

LEMMA LinkRows ==
  ASSUME VInv, Connect \/ TimeOut \/ Drop \/ Crash \/ Swap \/ RollBack \/ LoseFiles \/ DownloadEnds
  PROVE  Sure'
<1> USE DEF VInv, DeviceAgrees, Sure, TInv
<1>0. dev \in [runs : 0..MaxJobs, old : 0..MaxJobs, active : 0..MaxJobs, phase : Phases,
              results : SUBSET Result, kept : SUBSET Jobs]
  BY DEF StateOK
<1>1. row' = row /\ dev'.kept = dev.kept
  BY <1>0 DEF Connect, TimeOut, Late, Drop, Crash, Swap, RollBack, LoseFiles, DownloadEnds
<1>2. CASE Connect
  <2>1. Len(wire') = 0
    BY <1>2 DEF Connect, Quiet
  <2>2. \A op, j : ~Asked(op, j)'
    BY <2>1 DEF Asked
  <2> QED BY <1>1, <2>1, <2>2 DEF Sure
<1>3. CASE TimeOut
  <2>1. \E c \in {tick, confirm, abort} : Late(c)
    BY <1>3 DEF TimeOut
  <2>2. /\ Len(wire) \in Nat /\ Len(wire') = Len(wire)
        /\ \A i \in 1..Len(wire) : wire'[i].op = wire[i].op /\ wire'[i].job = wire[i].job
    BY <2>1, WireLate
  <2>3. \A op, j : Asked(op, j)' <=> Asked(op, j)
    BY <2>2 DEF Asked, Is
  <2>4. session' = session
    BY <2>1 DEF Late
  <2> QED BY <1>1, <2>2, <2>3, <2>4 DEF Sure, Tested, Is
<1>4. CASE Drop \/ Crash \/ Swap \/ RollBack \/ LoseFiles
  <2>1. wire' = <<>> /\ ~session'.up
    BY <1>4 DEF Drop, Crash, Swap, RollBack, LoseFiles, Down, StateOK
  <2>2. \A op, j : ~Asked(op, j)' /\ ~Tested(j)'
    BY <2>1 DEF Asked, Tested
  <2> QED BY <1>1, <2>1, <2>2 DEF Sure
<1>5. CASE DownloadEnds
  <2>1. UNCHANGED <<wire, session, tick>>
    BY <1>5 DEF DownloadEnds, calls
  <2>2. \A op, j : Asked(op, j)' <=> Asked(op, j)
    BY <2>1 DEF Asked, Is
  <2> QED BY <1>1, <2>1, <2>2 DEF Sure, Tested, Is
<1> QED BY <1>2, <1>3, <1>4, <1>5

LEMMA HandleRows == ASSUME VInv, Handle PROVE Sure'
<1> USE DEF VInv, DeviceAgrees, Sure, TInv
<1>1. PICK m \in Request, a \in Answers :
        /\ m = Head(wire)
        /\ HandleCases(m, a)
        /\ tick' = Answered(tick, m, a) /\ confirm' = Answered(confirm, m, a)
        /\ abort' = Answered(abort, m, a)
  BY HandleIs
<1>2. wire # <<>> /\ wire' = Tail(wire) /\ session.up /\ UNCHANGED <<row, report, session>>
  BY DEF Handle
<1>3. /\ \A op, j : Asked(op, j)' => Asked(op, j)
      /\ Asked(m.op, m.job) /\ m.job \in Jobs
      /\ tick'.op = tick.op /\ tick'.job = tick.job
      /\ tick'.answer # tick.answer =>
           tick'.answer = a /\ tick.op = m.op /\ tick.job = m.job
  BY <1>1, <1>2, HandleCalls
<1>4. dev'.kept = dev.kept \/ (m.op = "confirm" /\ dev'.kept = dev.kept \cup {m.job})
  BY <1>1 DEF HandleCases, StageStarts, InstallStarts, InstallFails, ConfirmTaken,
     AbortRolls, AbortTaken, Nothing, AtPhase
<1>5. ASSUME NEW j \in Jobs, NEW i \in 1..Len(wire'), NEW k \in 1..Len(wire'),
             Is(i, "confirm", j)', Is(k, "stage", j)'
      PROVE  k < i
  <2>1. /\ Len(wire) \in Nat \ {0} /\ Len(wire') = Len(wire) - 1
        /\ \A n \in 1..Len(wire') : wire'[n] = wire[n + 1]
    BY <1>2, WireTail
  <2>2. Is(i + 1, "confirm", j) /\ Is(k + 1, "stage", j)
        /\ i + 1 \in 1..Len(wire) /\ k + 1 \in 1..Len(wire)
    BY <1>5, <2>1 DEF Is
  <2>3. k + 1 < i + 1
    BY <2>2 DEF Sure
  <2> QED BY <2>1, <2>3
<1> QED BY <1>2, <1>3, <1>4, <1>5 DEF Sure, Tested

\* Every step is of one of these kinds.
LEMMA StepKinds ==
  ASSUME StateOK, [Next]_vars
  PROVE  \/ RowSteps
         \/ \E j \in Jobs : Sends(j)
         \/ Connect \/ TimeOut \/ Drop \/ Crash \/ Swap \/ RollBack \/ LoseFiles \/ DownloadEnds
         \/ Handle
<1>1. ASSUME NEW j \in Jobs, Abort(j) PROVE RowSteps \/ abort' # abort
  <2>1. CASE UNCHANGED <<abort, wire>>
    BY <1>1, <2>1 DEF RowSteps
  <2>2. CASE abort' = Sent("abort", j)
    <3>1. abort = NoCall
      BY <1>1 DEF Abort
    <3> QED BY <2>2, <3>1 DEF Sent, NoCall
  <2> QED BY <1>1, <2>1, <2>2 DEF Abort
<1>2. \/ RowSteps
      \/ StartQueued \/ InstallStaged
      \/ \E j \in Jobs : SendConfirm(j) \/ Abort(j)
      \/ Connect \/ TimeOut \/ Drop \/ Crash \/ Swap \/ RollBack \/ LoseFiles
      \/ DownloadEnds \/ Handle
  BY DEF Next, Step, Pass, Confirm, Admin, Link, Device, RowSteps, Quits, Looks
<1>3. tick.job \in Jobs
  BY DEF StateOK, Call
<1>4. StartQueued \/ InstallStaged => RowSteps \/ Sends(tick.job)
  BY DEF RowSteps, Looks, Sends
<1> QED BY <1>1, <1>2, <1>3, <1>4 DEF Sends

\* The row of the job whose device the pass awaits is not moved past the install
\* but by the pass, which is done then.
LEMMA RowStepsApart == ASSUME VInv, RowSteps PROVE PassApart'
<1> USE DEF VInv, DeviceAgrees, TInv
<1>1. Calms
  BY RowStepsCalm
<1>2. dev'.kept = dev.kept /\ \A op, j : Asked(op, j)' <=> Asked(op, j)
  BY <1>1 DEF Calms, Asked, Is
<1>19. CASE Looks
  <2>1. row' = row
    BY <1>19 DEF Looks, ReadJob, InstallStaged
  <2>2. ASSUME NEW op \in Ops, NEW j \in Jobs, ReadJob(op, j) PROVE PassApart'
    <3>1. tick'.op = op /\ tick'.job = j /\ row[j].state \in Wanted(op)
      BY <2>2 DEF ReadJob, Sent
    <3>2. op # "overdue" => row[j].state \in {"queued", "staged"}
      BY <3>1 DEF Wanted, Ops
    <3>3. op # "overdue" => j \notin dev.kept /\ ~Asked("confirm", j)
      BY <3>2 DEF Sure, KeptStates
    <3> QED BY <1>2, <2>1, <3>1, <3>2, <3>3 DEF PassApart, Far
  <2>3. CASE InstallStaged
    <3>1. tick.op = "put" /\ tick'.job = tick.job
      BY <2>3 DEF InstallStaged, StateOK, Call
    <3> QED BY <1>2, <2>1, <3>1 DEF PassApart
  <2> QED BY <1>19, <2>2, <2>3 DEF Looks
<1>20. CASE tick' = NoCall
  BY <1>20 DEF PassApart, NoCall
<1>3. SUFFICES ASSUME ~Looks, tick' = tick, tick.op \notin {"none", "overdue"}, tick # NoCall
               PROVE  row'[tick.job].state \notin Far
  <2>1. tick' = tick \/ tick' = NoCall \/ Looks
    BY DEF RowSteps, RefreshInFlight, StageAnswered, InstallAnswered, Quits, LetGo, CannotStart,
       MarkOverdue, ExpireQueued, Expires, ConfirmAnswered, SeeCandidate, AbortAnswered, CreateJob,
       Abort, Reports, HandleNote, HandleResult, Resync, StartApply, EndApply, vars, calls
  <2> QED BY <1>2, <1>19, <1>20, <2>1 DEF PassApart, NoCall
<1> USE DEF Far
<1>4. /\ tick.job \in Jobs /\ row[tick.job].state \notin Far /\ tick.job \notin dev.kept
  BY <1>3 DEF PassApart, StateOK, Call
<1>5. ASSUME NEW j \in Jobs, NEW s, StateTo(j, s), s \in Far => j # tick.job
      PROVE  row'[tick.job].state \notin Far
  BY <1>4, <1>5 DEF StateTo
<1>6. CASE SameStates
  BY <1>4, <1>6 DEF SameStates
<1>7. CASE RefreshInFlight \/ StartApply \/ EndApply \/ UNCHANGED vars
  BY <1>6, <1>7, KeepStates DEF RefreshInFlight, StartApply, EndApply, vars
<1>8. CASE StageAnswered \/ InstallAnswered
  BY <1>3, <1>8 DEF StageAnswered, InstallAnswered
<1>9. CASE Quits
  BY <1>3, <1>9 DEF Quits, LetGo, CannotStart, MarkOverdue, ExpireQueued, Expires
<1>10. CASE ConfirmAnswered
  BY <1>4, <1>5, <1>6, <1>10, ConfirmMoves, KeepStates DEF Goes, Confirmed
<1>11. ASSUME NEW j \in Jobs, SeeCandidate(j) PROVE row'[tick.job].state \notin Far
  BY <1>4, <1>5, <1>11, CandidateMoves DEF Goes
<1>12. CASE AbortAnswered
  BY <1>5, <1>6, <1>12, AbortAnsweredMoves, KeepStates DEF Goes
<1>13. ASSUME NEW j \in Jobs, CreateJob(j) PROVE row'[tick.job].state \notin Far
  BY <1>5, <1>13, CreateMoves
<1>14. ASSUME NEW j \in Jobs, Abort(j) PROVE row'[tick.job].state \notin Far
  BY <1>5, <1>6, <1>14, AbortMoves, KeepStates DEF Goes
<1>15. ASSUME NEW r \in Told, Settle(r) PROVE row'[tick.job].state \notin Far
  <2>1. r \in Result
    BY ToldTyped
  <2>2. r.outcome = "confirmed" => r.job # tick.job
    BY <1>4 DEF ResultsTrue
  <2>3. r.outcome \in {"staged", "failed", "url_expired", "confirmed", "rolled_back", "cancelled"}
    BY <2>1 DEF Result
  <2>4. r.outcome \in Final => r.outcome \notin Far \/ r.outcome = "confirmed"
    BY DEF Final
  <2>5. \/ Keep
        \/ Goes(r.job, "staged") \/ Goes(r.job, "queued") \/ Goes(r.job, "failed")
        \/ r.outcome \in Final /\ Goes(r.job, r.outcome)
    BY <1>15, <2>1, SettleMoves
  <2>6. r.job \in Jobs
    BY <2>1 DEF Result
  <2> HIDE DEF Far
  <2>7. "staged" \notin Far /\ "queued" \notin Far /\ "failed" \notin Far
    BY DEF Far
  <2>8. CASE Keep
    BY <1>6, <2>8, KeepStates
  <2>9. ASSUME NEW s, s \in Far => r.job # tick.job, Goes(r.job, s)
        PROVE  row'[tick.job].state \notin Far
    BY <1>5, <2>6, <2>9 DEF Goes
  <2>10. CASE Goes(r.job, "staged") \/ Goes(r.job, "queued") \/ Goes(r.job, "failed")
    BY <2>7, <2>9, <2>10
  <2>11. CASE r.outcome \in Final /\ Goes(r.job, r.outcome)
    BY <2>2, <2>4, <2>9, <2>11
  <2> QED BY <2>5, <2>8, <2>10, <2>11
<1>16. CASE HandleNote
  <2>1. Head(notes) \in NotesOf
    BY <1>16, NotesTail DEF HandleNote
  <2> QED BY <1>15, <1>16, <2>1 DEF HandleNote, Told
<1>17. CASE HandleResult
  BY <1>15, <1>17 DEF HandleResult, Told
<1>18. CASE Resync
  BY <1>4, <1>5, <1>6, <1>18, ResyncMoves, KeepStates DEF Goes
<1> QED BY <1>3, <1>7, <1>8, <1>9, <1>10, <1>11, <1>12, <1>13, <1>14, <1>16, <1>17, <1>18
    DEF RowSteps, Reports

\* The pass sends for a queued or staged row, which is of no kept job; a confirm
\* goes out for a row past the install.
LEMMA SendApart ==
  ASSUME VInv, NEW j \in Jobs, Sends(j)
  PROVE  PassApart'
<1> USE DEF VInv, DeviceAgrees, TInv
<1>1. PICK op \in Asks :
        /\ Send(op, j)
        /\ op \in {"stage", "install"} =>
             /\ tick.op = (IF op = "stage" THEN "start" ELSE "put") /\ tick.job = j
             /\ tick'.job = j
        /\ op \notin {"stage", "install"} => tick' = tick
        /\ op = "confirm" => SendConfirm(j)
        /\ op # "confirm" => row' = row
        /\ UNCHANGED dev
  <2>1. Asks = {"stage", "install", "confirm", "abort"}
    BY DEF Asks
  <2> QED BY <2>1, SendIs
<1>2. /\ Len(wire) \in Nat /\ Len(wire') = Len(wire) + 1
      /\ \A i \in 1..Len(wire) : wire'[i] = wire[i]
      /\ wire'[Len(wire) + 1] = [op |-> op, job |-> j, live |-> TRUE]
  BY <1>1, WireSend
<1>3. \A o, i : Asked(o, i)' => Asked(o, i) \/ (o = op /\ i = j)
  BY <1>2 DEF Asked, Is
<1>4. CASE op \in {"stage", "install"}
  BY <1>1, <1>3, <1>4 DEF PassApart
<1>5. CASE op = "confirm"
  <2>1. tick' = tick /\ tick.job \in Jobs
    BY <1>1, <1>5 DEF StateOK, Call
  <2>2. StateTo(j, "probation") /\ row[j].state \in Far
    BY <1>1, <1>5, CandidateMoves DEF Goes, Far
  <2> QED BY <1>1, <1>3, <1>5, <2>1, <2>2 DEF PassApart, StateTo
<1>6. CASE op \notin {"stage", "install", "confirm"}
  BY <1>1, <1>3, <1>6 DEF PassApart
<1> QED BY <1>4, <1>5, <1>6

LEMMA LinkApart ==
  ASSUME VInv, Connect \/ TimeOut \/ Drop \/ Crash \/ Swap \/ RollBack \/ LoseFiles \/ DownloadEnds
  PROVE  PassApart'
<1> USE DEF VInv, DeviceAgrees, TInv
<1>0. dev \in [runs : 0..MaxJobs, old : 0..MaxJobs, active : 0..MaxJobs, phase : Phases,
              results : SUBSET Result, kept : SUBSET Jobs] /\ tick \in Call
  BY DEF StateOK
<1>1. row' = row /\ dev'.kept = dev.kept
  BY <1>0 DEF Connect, TimeOut, Late, Drop, Crash, Swap, RollBack, LoseFiles, DownloadEnds
<1>2. CASE Connect
  <2>1. UNCHANGED <<wire, tick>>
    BY <1>2 DEF Connect, calls
  <2>2. \A op, j : Asked(op, j)' <=> Asked(op, j)
    BY <2>1 DEF Asked, Is
  <2> QED BY <1>1, <2>1, <2>2 DEF PassApart
<1>3. CASE TimeOut
  <2>1. \E c \in {tick, confirm, abort} : Late(c)
    BY <1>3 DEF TimeOut
  <2>2. /\ Len(wire) \in Nat /\ Len(wire') = Len(wire)
        /\ \A i \in 1..Len(wire) : wire'[i].op = wire[i].op /\ wire'[i].job = wire[i].job
    BY <2>1, WireLate
  <2>3. \A op, j : Asked(op, j)' <=> Asked(op, j)
    BY <2>2 DEF Asked, Is
  <2>5. tick'.op = tick.op /\ tick'.job = tick.job
    BY <1>0, <1>3, FailedCall DEF TimeOut
  <2> QED BY <1>1, <2>3, <2>5 DEF PassApart
<1>4. CASE Drop \/ Crash \/ Swap \/ RollBack \/ LoseFiles
  <2>1. wire' = <<>>
    BY <1>4 DEF Drop, Crash, Swap, RollBack, LoseFiles, Down
  <2>2. \A op, j : ~Asked(op, j)'
    BY <2>1 DEF Asked
  <2>3. tick' = NoCall \/ (tick'.op = tick.op /\ tick'.job = tick.job)
    BY <1>0, <1>4, FailedCall DEF Drop, Crash, Swap, RollBack, LoseFiles, Down
  <2> QED BY <1>1, <2>2, <2>3 DEF PassApart, NoCall
<1>5. CASE DownloadEnds
  <2>1. UNCHANGED <<wire, tick>>
    BY <1>5 DEF DownloadEnds, calls
  <2>2. \A op, j : Asked(op, j)' <=> Asked(op, j)
    BY <2>1 DEF Asked, Is
  <2> QED BY <1>1, <2>1, <2>2 DEF PassApart
<1> QED BY <1>2, <1>3, <1>4, <1>5

LEMMA HandleApart == ASSUME VInv, Handle PROVE PassApart'
<1> USE DEF VInv, DeviceAgrees, TInv
<1>1. PICK m \in Request, a \in Answers :
        /\ m = Head(wire)
        /\ HandleCases(m, a)
        /\ tick' = Answered(tick, m, a) /\ confirm' = Answered(confirm, m, a)
        /\ abort' = Answered(abort, m, a)
  BY HandleIs
<1>2. wire # <<>> /\ wire' = Tail(wire) /\ session.up /\ UNCHANGED <<row, report, session>>
  BY DEF Handle
<1>3. /\ \A op, j : Asked(op, j)' => Asked(op, j)
      /\ Asked(m.op, m.job) /\ m.job \in Jobs
      /\ tick'.op = tick.op /\ tick'.job = tick.job
  BY <1>1, <1>2, HandleCalls
<1>4. dev'.kept = dev.kept \/ (m.op = "confirm" /\ dev'.kept = dev.kept \cup {m.job})
  BY <1>1 DEF HandleCases, StageStarts, InstallStarts, InstallFails, ConfirmTaken,
     AbortRolls, AbortTaken, Nothing, AtPhase
<1> QED BY <1>2, <1>3, <1>4 DEF PassApart

LEMMA VInvStep == ASSUME VInv, [Next]_vars PROVE VInv'
<1>1. TInv'
  BY NextTyped DEF VInv
<1>2. CASE RowSteps
  BY <1>1, <1>2, RowStepsCalm, CalmsAgree, RowStepsMove, CalmsRows, RowStepsApart DEF VInv
<1>3. ASSUME NEW j \in Jobs, Sends(j) PROVE VInv'
  BY <1>1, <1>3, SendAgrees, SendRows, SendApart DEF VInv
<1>4. CASE Connect \/ TimeOut \/ Drop \/ Crash \/ Swap \/ RollBack \/ LoseFiles \/ DownloadEnds
  BY <1>1, <1>4, LinkRows, LinkApart, ConnectAgrees, TimeOutAgrees, DownStepsAgree, DownloadAgrees
     DEF VInv
<1>5. CASE Handle
  BY <1>1, <1>5, HandleAgrees, HandleRows, HandleApart DEF VInv
<1> QED BY <1>2, <1>3, <1>4, <1>5, StepKinds DEF VInv, TInv

LEMMA VInvInit == Init => VInv
<1> SUFFICES ASSUME Init PROVE VInv
  OBVIOUS
<1>1. TInv
  BY InitTyped
<1>2. \A op, j : ~Asked(op, j) /\ ~Tested(j)
  BY DEF Init, Asked, Tested
<1>3. Told = {}
  BY DEF Init, Told, NotesOf, NoReport
<1>4. DeviceAgrees
  <2>1. Quiet /\ LiveCalls /\ Copies
    BY <1>2 DEF Init, Quiet, LiveCalls, Copies, NoReport, NoCall
  <2>2. DevRuns /\ SessionRuns /\ NotKept /\ Confirmed
    BY <1>2 DEF Init, DevRuns, SessionRuns, NotKept, Confirmed, NoCall
  <2>3. ResultsTrue /\ TestedOK
    BY <1>2, <1>3 DEF Init, ResultsTrue, TestedOK, Swapping
  <2> QED BY <2>1, <2>2, <2>3 DEF DeviceAgrees
<1>5. Sure /\ PassApart
  BY <1>2 DEF Init, Sure, NoRow, NoCall, PassApart
<1> QED BY <1>1, <1>4, <1>5 DEF VInv

\* The record never contradicts the device: a confirmed job is one the device
\* kept, and no job it kept is recorded as failed, rolled back or expired,
\* whatever is lost, late or told twice, and however the pass, the reports and
\* the admin's aborts overlap.  A confirm goes out only for a job that the
\* session's own block said is tested (pickConfirmCandidate), the device keeps a
\* job only by one, and a pass that comes back with an old copy of a row has one
\* of a job that no confirm was sent for (agent_updates/jobs.ts).
THEOREM VerdictIsTrueAlways == Spec => []VerdictIsTrue
<1>1. Init => VInv
  BY VInvInit
<1>2. VInv /\ [Next]_vars => VInv'
  BY VInvStep
<1>3. VInv => VerdictIsTrue
  BY DEF VInv, Sure, VerdictIsTrue, KeptStates
<1> QED BY <1>1, <1>2, <1>3, PTL DEF Spec

----------------------------------------------------------------------------
(* What is left of "one open job" when handlers overlap: the unique key.   *)

\* Only an open job holds the key, and one job at most.
KeyHeldByOpen ==
  /\ \A j \in Jobs : row[j].key => row[j].state \in Open
  /\ \A i, j \in Jobs : row[i].key /\ row[j].key => i = j

\* An open job without it was closed before.
KeylessReopened == \A j \in Jobs \ reopened : row[j].state \in Open => row[j].key

\* A copy without the key is of a row that has none any more, one with it is of an
\* open row: who saves it can neither leave the key to a row that it closes nor
\* take it from one that it leaves open.
KeyOf(c) == c # NoCall => /\ row[c.job].key => c.copy.key
                          /\ c.copy.key => c.copy.state \in Open
                          /\ row[c.job].state # "none"
KInv == VInv /\ KeyHeldByOpen /\ KeylessReopened /\ KeyOf(tick) /\ KeyOf(abort)

\* No handler but the admin's request gives a key.
KeyStep ==
  \A j \in Jobs : /\ row'[j].key => row[j].key /\ row'[j].state \in Open
                  /\ row[j].state # "none" => row'[j].state # "none"
                  /\ row[j].key /\ row'[j].state \in Open => row'[j].key
                  /\ row[j].state = "none" => row'[j].state = "none"

\* Any copy may be saved that has the key if the row has.
LEMMA KeySave ==
  ASSUME StateOK, KeyHeldByOpen, NEW j \in Jobs, NEW copy \in Row, NEW new \in Row,
         Save(j, copy, new), row[j].key => copy.key, row[j].state # "none",
         copy.key => copy.state \in Open, new.key <=> copy.key /\ new.state \in Open,
         new.state # "none"
  PROVE  KeyStep
<1>1. row[j] \in Row
  BY DEF StateOK
<1> DEFINE now == Saved(row[j], copy, new)
<1>2. /\ now.key = IF new.key # copy.key THEN new.key ELSE row[j].key
      /\ now.state = IF new.state # copy.state THEN new.state ELSE row[j].state
  BY <1>1 DEF Saved, Row
<1>3. /\ new.key \in BOOLEAN /\ copy.key \in BOOLEAN /\ row[j].key \in BOOLEAN
      /\ row[j].key => row[j].state \in Open
  BY <1>1 DEF Row, KeyHeldByOpen
<1>4. \A i \in Jobs : row'[i] = IF i = j THEN now ELSE row[i]
  BY DEF Save, StateOK
<1> HIDE DEF now
<1>5. now.key => row[j].key /\ now.state \in Open
  BY <1>2, <1>3
<1>6. now.state # "none"
  BY <1>2
<1>7. row[j].key /\ now.state \in Open => now.key
  BY <1>2, <1>3
<1> QED BY <1>4, <1>5, <1>6, <1>7 DEF KeyStep, KeyHeldByOpen

\* What transition() makes of a copy.
LEMMA KeyTo ==
  ASSUME NEW copy \in Row, NEW s \in Open \cup Final
  PROVE  /\ To(copy, s) \in Row /\ To(copy, s).state = s /\ s # "none"
         /\ To(copy, s).restages = copy.restages
         /\ To(copy, s).key <=> copy.key /\ s \in Open
<1>1. To(copy, s) \in Row /\ To(copy, s).state = s /\ To(copy, s).restages = copy.restages
  BY ToRow
<1>2. To(copy, s).key = (copy.key /\ s \in Open)
  BY DEF To, Row
<1>3. s # "none"
  BY States
<1> QED BY <1>1, <1>2, <1>3

LEMMA KeySent ==
  ASSUME NEW new \in Row
  PROVE  LET sent == [new EXCEPT !.sent = TRUE] IN
         sent \in Row /\ sent.key = new.key /\ sent.state = new.state
BY DEF Row

LEMMA KeyAgain ==
  ASSUME NEW new \in Row
  PROVE  LET again == [new EXCEPT !.restages = @ + 1] IN
         /\ new.restages < MaxRestages => again \in Row
         /\ again.key = new.key /\ again.state = new.state
BY Constants DEF Row

LEMMA KeyMove ==
  ASSUME StateOK, KeyHeldByOpen, NEW j \in Jobs, NEW s \in Open \cup Final, Move(j, s),
         row[j].state # "none"
  PROVE  KeyStep
<1>1. row[j] \in Row
  BY DEF StateOK
<1> DEFINE new == To(row[j], s)
<1>2. new \in Row /\ new.state = s /\ s # "none" /\ (new.key <=> row[j].key /\ s \in Open)
  BY <1>1, KeyTo
<1>3. Save(j, row[j], new)
  BY DEF Move
<1>4. row[j].key => row[j].state \in Open
  BY DEF KeyHeldByOpen
<1> HIDE DEF new
<1> QED BY <1>1, <1>2, <1>3, <1>4, KeySave

LEMMA KeyStays == ASSUME KeyHeldByOpen, row' = row PROVE KeyStep
BY DEF KeyStep, KeyHeldByOpen

LEMMA KeySettle ==
  ASSUME StateOK, KeyHeldByOpen, NEW r \in Result, Settle(r)
  PROVE  KeyStep
<1> DEFINE now == row[r.job]
<1>1. r.job \in Jobs /\ now \in Row /\ Settled(r) \in Row
  BY SettledRow DEF StateOK, Result
<1>2. CASE Settled(r) = now
  BY <1>2, KeyStays DEF Settle, Keep
<1>3. CASE Settled(r) # now
  <2>1. r.outcome \in {"staged", "url_expired"} \cup Final
    BY States DEF Result
  <2>2. \/ \E s \in Open \cup Final : Settled(r) = To(now, s)
        \/ Settled(r) = [To(now, "queued") EXCEPT !.restages = @ + 1]
    <3> HIDE DEF now
    <3> QED BY <1>3, <2>1, States DEF Settled, now
  <2>3. (Settled(r).key <=> now.key /\ Settled(r).state \in Open) /\ Settled(r).state # "none"
    <3>1. CASE \E s \in Open \cup Final : Settled(r) = To(now, s)
      <4>1. PICK s \in Open \cup Final : Settled(r) = To(now, s)
        BY <3>1
      <4> HIDE DEF now
      <4> QED BY <1>1, <4>1, KeyTo
    <3>2. CASE Settled(r) = [To(now, "queued") EXCEPT !.restages = @ + 1]
      <4> HIDE DEF now
      <4>1. "queued" \in Open \cup Final /\ "queued" \in Open
        BY States
      <4>2. /\ To(now, "queued") \in Row /\ To(now, "queued").state = "queued"
            /\ To(now, "queued").key <=> now.key
        BY <1>1, <4>1, KeyTo
      <4> QED BY <3>2, <4>1, <4>2, KeyAgain
    <3> QED BY <2>2, <3>1, <3>2
  <2>4. Save(r.job, now, Settled(r))
    BY <1>3 DEF Settle
  <2>5. now.state # "none" /\ (now.key => now.state \in Open)
    BY <1>1, <1>3, States DEF Settled, KeyHeldByOpen
  <2> HIDE DEF now
  <2> QED BY <1>1, <2>3, <2>4, <2>5, KeySave DEF now
<1> QED BY <1>2, <1>3

LEMMA KeyResync == ASSUME StateOK, KeyHeldByOpen, Resync PROVE KeyStep
<1>1. CASE \E j \in Jobs : row[j].key
  <2> DEFINE j == CHOOSE j \in Jobs : row[j].key
  <2>1. j \in Jobs
    BY <1>1
  <2>2. IF Resynced(j) = row[j] THEN Keep ELSE Save(j, row[j], Resynced(j))
    BY <1>1 DEF Resync
  <2> HIDE DEF j
  <2>3. row[j] \in Row
    BY <2>1 DEF StateOK
  <2>4. Resynced(j) = row[j] \/ \E s \in Open \cup Final : Resynced(j) = To(row[j], s)
    BY States DEF Resynced
  <2>5. CASE Resynced(j) = row[j]
    BY <2>2, <2>5, KeyStays DEF Keep
  <2>6. CASE Resynced(j) # row[j]
    <3>1. PICK s \in Open \cup Final : Resynced(j) = To(row[j], s)
      BY <2>4, <2>6
    <3> DEFINE new == To(row[j], s)
    <3>2. new \in Row /\ new.state = s /\ s # "none" /\ (new.key <=> row[j].key /\ s \in Open)
      BY <2>3, KeyTo
    <3>3. Save(j, row[j], new)
      BY <2>2, <2>6, <3>1
    <3>4. row[j].state # "none" /\ (row[j].key => row[j].state \in Open)
      BY <2>1, <2>6 DEF Resynced, KeyHeldByOpen
    <3> HIDE DEF new
    <3> QED BY <2>1, <2>3, <3>2, <3>3, <3>4, KeySave
  <2> QED BY <2>5, <2>6
<1> QED BY <1>1, KeyStays DEF Resync, Keep

\* The pass and the abort save old copies.
LEMMA KeyPass ==
  ASSUME KInv, StageAnswered \/ InstallAnswered \/ CannotStart \/ MarkOverdue \/ ExpireQueued
  PROVE  KeyStep
<1> USE DEF KInv, VInv, TInv
<1> DEFINE j == tick.job  copy == tick.copy
<1>1. j \in Jobs /\ copy \in Row /\ tick # NoCall
  BY DEF StateOK, Call, StageAnswered, InstallAnswered, CannotStart, MarkOverdue, ExpireQueued,
     Expires, NoCall
<1>2. (row[j].key => copy.key) /\ row[j].state # "none" /\ (copy.key => copy.state \in Open)
  BY <1>1 DEF KeyOf
<1>3. CASE Keep
  BY <1>3, KeyStays DEF Keep
<1>4. ASSUME NEW new \in Row, Save(j, copy, new), new.key <=> copy.key /\ new.state \in Open,
             new.state # "none"
      PROVE  KeyStep
  <2> HIDE DEF j, copy
  <2> QED BY <1>1, <1>2, <1>4, KeySave
<1>5. CASE \E s \in Open \cup Final : Save(j, copy, To(copy, s))
  <2> HIDE DEF j, copy
  <2>1. PICK s \in Open \cup Final : Save(j, copy, To(copy, s))
    BY <1>5
  <2>2. /\ To(copy, s) \in Row /\ To(copy, s).state = s /\ s # "none"
        /\ To(copy, s).key <=> copy.key /\ s \in Open
    BY <1>1, KeyTo
  <2> QED BY <1>4, <2>1, <2>2
<1>6. CASE Save(j, copy, [To(copy, "installing") EXCEPT !.sent = TRUE])
  <2> HIDE DEF j, copy
  <2>1. "installing" \in Open
    BY States
  <2>2. /\ To(copy, "installing") \in Row /\ To(copy, "installing").state = "installing"
        /\ To(copy, "installing").key <=> copy.key
    BY <1>1, <2>1, KeyTo
  <2> QED BY <1>4, <1>6, <2>1, <2>2, KeySent
<1>7. CASE /\ Save(j, copy, [To(copy, "queued") EXCEPT !.restages = @ + 1])
           /\ copy.restages < MaxRestages
  <2> HIDE DEF j, copy
  <2>1. "queued" \in Open
    BY States
  <2>2. /\ To(copy, "queued") \in Row /\ To(copy, "queued").state = "queued"
        /\ To(copy, "queued").key <=> copy.key
        /\ To(copy, "queued").restages = copy.restages
    BY <1>1, <2>1, KeyTo
  <2> DEFINE new == To(copy, "queued")  again == [new EXCEPT !.restages = @ + 1]
  <2>3. again \in Row /\ again.key = new.key /\ again.state = new.state
    <3>1. new \in Row /\ new.restages < MaxRestages
      BY <1>7, <2>2
    <3> HIDE DEF new
    <3> QED BY <3>1, KeyAgain
  <2>4. Save(j, copy, again)
    BY <1>7
  <2> HIDE DEF again
  <2> QED BY <1>4, <2>1, <2>2, <2>3, <2>4
<1>8. {"staging", "staged", "failed", "unknown", "expired"} \subseteq Open \cup Final
  BY DEF Open, InFlight, Final
<1>9. CASE StageAnswered
  <2> HIDE DEF copy, j
  <2>1. Keep \/ \E s \in {"staging", "staged", "failed"} : Save(j, copy, To(copy, s))
    BY <1>9 DEF StageAnswered, j, copy
  <2> QED BY <1>3, <1>5, <1>8, <2>1
<1>10. CASE InstallAnswered
  <2> HIDE DEF copy, j
  <2>1. \/ Keep
        \/ Save(j, copy, [To(copy, "installing") EXCEPT !.sent = TRUE])
        \/ /\ Save(j, copy, [To(copy, "queued") EXCEPT !.restages = @ + 1])
           /\ copy.restages < MaxRestages
        \/ Save(j, copy, To(copy, "failed"))
    BY <1>10 DEF InstallAnswered, j, copy
  <2> QED BY <1>3, <1>5, <1>6, <1>7, <1>8, <2>1
<1>11. CASE CannotStart \/ MarkOverdue \/ ExpireQueued
  <2> HIDE DEF copy, j
  <2>1. \E s \in {"failed", "unknown", "expired"} : Save(j, copy, To(copy, s))
    BY <1>11 DEF CannotStart, MarkOverdue, ExpireQueued, Expires, j, copy
  <2> QED BY <1>5, <1>8, <2>1
<1> QED BY <1>9, <1>10, <1>11

LEMMA KeyAbort == ASSUME KInv, AbortAnswered PROVE KeyStep
<1> USE DEF KInv, VInv, TInv
<1>1. abort.job \in Jobs /\ abort.copy \in Row /\ abort # NoCall
  BY DEF StateOK, Call, AbortAnswered, NoCall
<1>2. /\ row[abort.job].key => abort.copy.key
      /\ row[abort.job].state # "none"
      /\ abort.copy.key => abort.copy.state \in Open
  BY <1>1 DEF KeyOf
<1> DEFINE j == abort.job  copy == abort.copy  new == To(copy, "cancelled")
<1>3. CASE Keep
  BY <1>3, KeyStays DEF Keep
<1>4. CASE Save(j, copy, new)
  <2>1. "cancelled" \in Open \cup Final
    BY DEF Final
  <2> HIDE DEF j, copy
  <2>2. new \in Row /\ new.state # "none" /\ (new.key <=> copy.key /\ new.state \in Open)
    BY <1>1, <2>1, KeyTo DEF j, copy
  <2>3. (row[j].key => copy.key) /\ row[j].state # "none" /\ (copy.key => copy.state \in Open)
    BY <1>2 DEF j, copy
  <2> HIDE DEF new
  <2> QED BY <1>1, <1>4, <2>2, <2>3, KeySave DEF j, copy
<1> QED BY <1>3, <1>4 DEF AbortAnswered

LEMMA KeyRowSteps ==
  ASSUME KInv, RowSteps, \A j \in Jobs : ~CreateJob(j)
  PROVE  KeyStep
<1> USE DEF KInv, VInv, TInv
<1>1. CASE RefreshInFlight \/ StartApply \/ EndApply \/ UNCHANGED vars
  BY <1>1, KeyStays DEF RefreshInFlight, StartApply, EndApply, vars
<1>2. ASSUME NEW j \in Jobs, SeeCandidate(j) PROVE KeyStep
  BY <1>2, KeyMove, States DEF SeeCandidate, Candidate
<1>7. CASE Quits \/ Looks
  BY <1>7, KeyPass, KeyStays DEF Quits, LetGo, Looks, ReadJob, InstallStaged
<1>3. ASSUME NEW j \in Jobs, Abort(j) PROVE KeyStep
  BY <1>3, KeyMove, KeyStays, States DEF Abort, Keep
<1>4. CASE ConfirmAnswered
  <2>1. confirm.job \in Jobs
    BY DEF StateOK, Call
  <2> QED BY <1>4, <2>1, KeyMove, KeyStays, States DEF ConfirmAnswered, Keep
<1>5. CASE HandleNote
  <2>1. Head(notes) \in Result
    BY <1>5, NotesTail DEF HandleNote
  <2> QED BY <1>5, <2>1, KeySettle DEF HandleNote
<1>6. CASE HandleResult
  BY <1>6, KeySettle DEF HandleResult, StateOK
<1> QED BY <1>1, <1>2, <1>3, <1>4, <1>5, <1>6, <1>7, KeyPass, KeyAbort, KeyResync
        DEF RowSteps, Reports

\* A call is the one that was there, or starts with the row as it is.
SameCall(c, new) == new.job = c.job /\ new.copy = c.copy /\ c # NoCall
KeptCalls ==
  /\ tick' = NoCall \/ SameCall(tick, tick')
     \/ (row' = row /\ tick'.job \in Jobs /\ tick'.copy = row[tick'.job]
                    /\ row[tick'.job].state # "none")
  /\ abort' = NoCall \/ SameCall(abort, abort')
     \/ (row' = row /\ abort'.job \in Jobs /\ abort'.copy = row[abort'.job]
                    /\ row[abort'.job].state # "none")

\* A row that is opened again is on record.
Records ==
  \A j \in Jobs \ reopened' : j \notin reopened /\ ~(row[j].state \in Final /\ row'[j].state \in Open)

LEMMA KeyHeldStep ==
  ASSUME KInv, KeyStep, KeptCalls, Records
  PROVE  KeyHeldByOpen' /\ KeylessReopened' /\ KeyOf(tick)' /\ KeyOf(abort)'
<1>1. tick.job \in Jobs /\ abort.job \in Jobs
  BY DEF KInv, VInv, TInv, StateOK, Call
<1>2. KeyHeldByOpen'
  BY DEF KInv, KeyHeldByOpen, KeyStep
<1>3. KeyOf(tick)'
  BY <1>1 DEF KInv, KeyHeldByOpen, KeyOf, KeyStep, KeptCalls, SameCall
<1>4. KeyOf(abort)'
  BY <1>1 DEF KInv, KeyHeldByOpen, KeyOf, KeyStep, KeptCalls, SameCall
<1>5. \A j \in Jobs : row[j].state = "none" \/ row[j].state \in Open \cup Final
  BY DEF KInv, VInv, TInv, StateOK, Row
<1>6. KeylessReopened'
  <2>1. "none" \notin Open
    BY States
  <2> QED BY <1>5, <2>1 DEF KInv, KeylessReopened, Records, KeyStep
<1> QED BY <1>2, <1>3, <1>4, <1>6

\* The calls that fail with their session, or at a timeout, or are answered.
LEMMA CallsStay ==
  ASSUME StateOK, NEW c \in Call,
         NEW d, \/ d = c \/ d = NoCall \/ d = Failed(c)
                \/ \E m \in Request, a \in Answers : d = Answered(c, m, a)
  PROVE  d = NoCall \/ SameCall(c, d)
<1>1. CASE d = c \/ d = NoCall \/ d = Failed(c)
  BY <1>1, FailedCall DEF SameCall
<1>2. ASSUME NEW m \in Request, NEW a \in Answers, d = Answered(c, m, a)
      PROVE  d = NoCall \/ SameCall(c, d)
  BY <1>2, NoCallStays DEF Answered, SameCall, Call
<1> QED BY <1>1, <1>2

\* The pass goes on with the row it read.
LEMMA AsksOn ==
  ASSUME tick \in Call, StartQueued \/ InstallStaged
  PROVE  tick'.job = tick.job /\ tick'.copy = tick.copy /\ tick # NoCall
<1>1. tick # NoCall
  BY DEF StartQueued, InstallStaged, NoCall
<1>2. \/ tick' = [tick EXCEPT !.op = "stage"]
      \/ tick' = [tick EXCEPT !.op = "install"]
      \/ tick' = [tick EXCEPT !.op = "install", !.answer = "lost"]
  BY DEF StartQueued, InstallStaged
<1> QED BY <1>1, <1>2 DEF Call

LEMMA KInvStep == ASSUME KInv, [Next]_vars PROVE KInv'
<1> USE DEF KInv, VInv, TInv
<1>1. VInv'
  BY VInvStep
<1>2. tick \in Call /\ abort \in Call
  BY DEF StateOK
<1>8. Records
  <2>1. CASE Noted
    BY <2>1 DEF Noted, Records
  <2>2. CASE UNCHANGED vars
    BY <2>2, StatesApart DEF vars, history, Records
  <2> QED BY <2>1, <2>2 DEF Next
<1>3. CASE RowSteps /\ \A j \in Jobs : ~CreateJob(j)
  <2>1. KeyStep
    BY <1>3, KeyRowSteps
  <2>3. abort' = abort \/ abort' = NoCall
    BY <1>3, RowStepsCalm DEF Calms
  <2>4. ASSUME ~Looks PROVE KeptCalls
    <3>1. tick' = tick \/ tick' = NoCall
      BY <1>3, <2>4 DEF RowSteps, RefreshInFlight, StageAnswered, InstallAnswered, Quits, LetGo,
         CannotStart, MarkOverdue, ExpireQueued, Expires, ConfirmAnswered, SeeCandidate,
         AbortAnswered, CreateJob, Abort, Reports, HandleNote, HandleResult, Resync, StartApply,
         EndApply, vars, calls
    <3> QED BY <1>2, <2>3, <3>1 DEF KeptCalls, SameCall
  <2>5. ASSUME NEW op \in Ops, NEW j \in Jobs, ReadJob(op, j) PROVE KeptCalls
    <3>1. row' = row /\ tick'.job = j /\ tick'.copy = row[j] /\ row[j].state # "none"
      BY <2>5 DEF ReadJob, Sent, Wanted, Ops
    <3> QED BY <1>2, <2>3, <3>1 DEF KeptCalls, SameCall
  <2>6. ASSUME InstallStaged PROVE KeptCalls
    <3>1. tick'.job = tick.job /\ tick'.copy = tick.copy /\ tick # NoCall
      BY <1>2, <2>6, AsksOn
    <3> QED BY <1>2, <2>3, <3>1 DEF KeptCalls, SameCall
  <2>2. KeptCalls
    BY <2>4, <2>5, <2>6 DEF Looks
  <2> QED BY <1>1, <1>8, <2>1, <2>2, KeyHeldStep
<1>4. ASSUME NEW j \in Jobs, CreateJob(j) PROVE KInv'
  <2>1. \A i \in Jobs : row'[i] = IF i = j THEN [NoRow EXCEPT !.state = "queued", !.key = TRUE]
                                  ELSE row[i]
    BY <1>4 DEF CreateJob, StateOK
  <2>2. LET new == [NoRow EXCEPT !.state = "queued", !.key = TRUE] IN
        new.state = "queued" /\ new.key
    BY DEF NoRow
  <2>3. UNCHANGED <<tick, abort>> /\ row[j].state = "none" /\ \A i \in Jobs : ~row[i].key
    BY <1>4 DEF CreateJob, calls
  <2>4. KeyHeldByOpen'
    BY <2>1, <2>2, <2>3, States DEF KeyHeldByOpen
  <2>5. tick.job \in Jobs /\ abort.job \in Jobs
    BY <1>2 DEF Call
  <2>6. KeyOf(tick)' /\ KeyOf(abort)'
    BY <2>1, <2>3, <2>5 DEF KeyOf
  <2>7. KeylessReopened'
    BY <1>8, <2>1, <2>2 DEF KeylessReopened, Records
  <2> QED BY <1>1, <2>4, <2>6, <2>7
<1>5. ASSUME NEW j \in Jobs, Sends(j) PROVE KInv'
  <2>1. CASE SendConfirm(j)
    <3>1. KeyStep
      BY <2>1, KeyMove, States DEF SendConfirm, Candidate
    <3>2. KeptCalls
      BY <1>2, <2>1 DEF SendConfirm, KeptCalls, SameCall
    <3> QED BY <1>1, <1>8, <3>1, <3>2, KeyHeldStep
  <2>2. CASE StartQueued \/ InstallStaged
    <3>1. row' = row /\ abort' = abort
      BY <2>2 DEF StartQueued, InstallStaged
    <3>3. tick'.job = tick.job /\ tick'.copy = tick.copy /\ tick # NoCall
      BY <1>2, <2>2, AsksOn
    <3>2. KeptCalls
      BY <1>2, <3>1, <3>3 DEF KeptCalls, SameCall
    <3> QED BY <1>1, <1>8, <3>1, <3>2, KeyStays, KeyHeldStep
  <2>3. CASE Abort(j) /\ abort' # abort
    <3>1. row' = row /\ tick' = tick /\ abort'.job = j /\ abort'.copy = row[j]
          /\ row[j].state # "none"
      BY <2>3, States DEF Abort, Sent, Keep
    <3>2. KeptCalls
      BY <3>1 DEF KeptCalls, SameCall
    <3> QED BY <1>1, <1>8, <3>1, <3>2, KeyStays, KeyHeldStep
  <2> QED BY <1>5, <2>1, <2>2, <2>3 DEF Sends
<1>6. CASE Connect \/ TimeOut \/ Drop \/ Crash \/ Swap \/ RollBack \/ LoseFiles \/ DownloadEnds
  <2>1. row' = row
    BY <1>6 DEF Connect, TimeOut, Late, Drop, Crash, Swap, RollBack, LoseFiles, DownloadEnds
  <2>2. /\ tick' = tick \/ tick' = NoCall \/ tick' = Failed(tick)
        /\ abort' = abort \/ abort' = NoCall \/ abort' = Failed(abort)
    BY <1>6 DEF Connect, TimeOut, Drop, Crash, Swap, RollBack, LoseFiles, DownloadEnds, Down, calls
  <2>3. KeptCalls
    BY <1>2, <2>2, CallsStay DEF KeptCalls
  <2> QED BY <1>1, <1>8, <2>1, <2>3, KeyStays, KeyHeldStep
<1>7. CASE Handle
  <2>1. row' = row
    BY <1>7 DEF Handle
  <2>2. PICK m \in Request, a \in Answers :
          tick' = Answered(tick, m, a) /\ abort' = Answered(abort, m, a)
    BY <1>7, HandleIs
  <2>3. KeptCalls
    BY <1>2, <2>2, CallsStay DEF KeptCalls
  <2> QED BY <1>1, <1>8, <2>1, <2>3, KeyStays, KeyHeldStep
<1> QED BY <1>3, <1>4, <1>5, <1>6, <1>7, StepKinds

\* However the handlers overlap, and however old the copies are that they save,
\* a job that is closed holds no key and no two jobs hold one: the unique index
\* refuses no new job for the sake of an old one.  An open job has its key, but for
\* one that was closed and that an old copy opened again (transition clears the
\* key with the state, and save writes both as columns; models/agent_update_job.ts).
THEOREM OneOpenUnlessReopenedAlways == Spec => []OneOpenUnlessReopened
<1>1. Init => KInv
  <2> SUFFICES ASSUME Init PROVE KInv
    OBVIOUS
  <2>1. VInv
    BY VInvInit
  <2>2. "none" \notin Open
    BY States
  <2>3. KeyHeldByOpen /\ KeylessReopened /\ KeyOf(tick) /\ KeyOf(abort)
    BY <2>2 DEF Init, KeyHeldByOpen, KeylessReopened, KeyOf, NoRow
  <2> QED BY <2>1, <2>3 DEF KInv
<1>2. KInv /\ [Next]_vars => KInv'
  BY KInvStep
<1>3. KInv => OneOpenUnlessReopened
  BY DEF KInv, KeyHeldByOpen, KeylessReopened, OneOpenUnlessReopened
<1> QED BY <1>1, <1>2, <1>3, PTL DEF Spec

=============================================================================
