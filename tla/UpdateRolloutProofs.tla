------------------------ MODULE UpdateRolloutProofs ------------------------
(***************************************************************************)
(* For any number of devices, any batch, and any events between two saves  *)
(* of a step: the canary alone first, then never more than a batch, and    *)
(* nothing more after a failure until the admin resumes.                   *)
(***************************************************************************)
EXTENDS UpdateRollout, FiniteSetTheorems, WellFoundedInduction, TLAPS

LEMMA Constants ==
  /\ NumDevices \in Nat \ {0} /\ BatchSize \in Nat \ {0} /\ MaxEvents \in Nat
  /\ 1 \in Devices /\ Devices \subseteq Nat /\ IsFiniteSet(Devices)
<1>1. NumDevices \in Nat \ {0} /\ BatchSize \in Nat \ {0} /\ MaxEvents \in Nat
  BY RolloutAssumption
<1>2. IsFiniteSet(1..NumDevices)
  BY <1>1, FS_Interval
<1> QED BY <1>1, <1>2 DEF Devices

\* The first of some devices is one of them.
LEMMA MinIn == ASSUME NEW S \in SUBSET Devices, S # {} PROVE Min(S) \in S
<1>1. S \subseteq Nat
  BY Constants
<1>2. PICK x \in S : \A y \in S : ~(<<y, x>> \in OpToRel(<, Nat))
  BY <1>1, NatLessThanWellFounded, WFMin
<1>3. \A y \in S : x =< y
  <2>1. ASSUME NEW y \in S PROVE x =< y
    <3>1. x \in Nat /\ y \in Nat /\ ~(y < x)
      BY <1>1, <1>2 DEF OpToRel
    <3> QED BY <3>1
  <2> QED BY <2>1
<1> QED BY <1>3 DEF Min

----------------------------------------------------------------------------
\* The inductive invariant.

Busy == step.at # "idle"
StartingNow == step.at \in {"start", "record"}
RunRows == {d \in Devices : device[d].state = "running"}

\* What only a step changes, its copy has as it is in the database; and a row
\* that runs does so in the copy, until the step starts some itself.
CopyOK ==
  Busy => /\ rollout.state # "none" /\ step.rollout.confirmed = rollout.confirmed
          /\ \A d \in Devices : step.device[d].canary = device[d].canary
          /\ ~StartingNow => \A d \in RunRows : step.device[d].state = "running"
          /\ step.at = "settle" => \A d \in step.todo : step.device[d].state = "running"

\* The states before the canary's confirmation, and after it.
PhaseOK(r) ==
  /\ r.state \in {"none", "canary"} => ~r.confirmed
  /\ r.state \in {"observing", "rolling"} => r.confirmed
PhasesOK == PhaseOK(rollout) /\ (Busy => PhaseOK(step.rollout))

\* One canary at most; only it runs until its update is confirmed.
OneCanary ==
  /\ \A d, e \in Devices : device[d].canary /\ device[e].canary => d = e
  /\ rollout.state = "none" => \A d \in Devices : ~device[d].canary
  /\ step.at = "promote" => \A d \in Devices : ~device[d].canary
CanaryFirst ==
  ~rollout.confirmed =>
    /\ \A d \in RunRows : device[d].canary
    /\ StartingNow => \A d \in step.todo : device[d].canary

\* Then a step that starts a batch has found nothing running, and counts.
Batches ==
  /\ rollout.confirmed => Cardinality(RunRows) <= BatchSize
  /\ rollout.confirmed /\ StartingNow => Cardinality(RunRows) <= step.started
  /\ step.at = "record" => step.started < BatchSize /\ step.todo # {}

RInv == TypeOK /\ CopyOK /\ PhasesOK /\ OneCanary /\ CanaryFirst /\ Batches

----------------------------------------------------------------------------
\* Types.

States == OpenStates \cup {"none", "completed", "cancelled"}
DeviceStates == {"pending", "running", "confirmed", "failed", "skipped"}
StepRec == [at : {"idle", "settle", "decide", "promote", "observe", "roll", "start", "record"},
            rollout : Rollout, device : [Devices -> DeviceRow], todo : SUBSET Devices,
            settled : BOOLEAN, stop : BOOLEAN, started : 0..BatchSize]

\* A save changes what the step has changed.
LEMMA SavedDevice ==
  ASSUME NEW now \in DeviceRow, NEW copy \in DeviceRow, NEW new \in DeviceRow,
         NEW row, row = Saved(now, copy, new)
  PROVE  /\ row \in DeviceRow
         /\ row.state = IF new.state # copy.state THEN new.state ELSE now.state
         /\ row.canary = IF new.canary # copy.canary THEN new.canary ELSE now.canary
BY DEF Saved, DeviceRow

LEMMA SavedRollout ==
  ASSUME NEW now \in Rollout, NEW copy \in Rollout, NEW new \in Rollout,
         NEW row, row = Saved(now, copy, new)
  PROVE  /\ row \in Rollout
         /\ row.state = IF new.state # copy.state THEN new.state ELSE now.state
         /\ row.confirmed = IF new.confirmed # copy.confirmed THEN new.confirmed
                            ELSE now.confirmed
BY DEF Saved, Rollout

LEMMA WithState ==
  /\ \A r \in DeviceRow, s \in DeviceStates :
       /\ [r EXCEPT !.state = s] \in DeviceRow
       /\ [r EXCEPT !.state = s].state = s /\ [r EXCEPT !.state = s].canary = r.canary
  /\ \A r \in DeviceRow, b \in BOOLEAN :
       /\ [r EXCEPT !.canary = b] \in DeviceRow
       /\ [r EXCEPT !.canary = b].state = r.state /\ [r EXCEPT !.canary = b].canary = b
  /\ \A r \in Rollout, s \in States :
       /\ [r EXCEPT !.state = s] \in Rollout
       /\ [r EXCEPT !.state = s].state = s /\ [r EXCEPT !.state = s].confirmed = r.confirmed
<1>1. ASSUME NEW r \in DeviceRow, NEW s \in DeviceStates, NEW c, c = [r EXCEPT !.state = s]
      PROVE  c \in DeviceRow /\ c.state = s /\ c.canary = r.canary
  BY <1>1 DEF DeviceRow, DeviceStates
<1>2. ASSUME NEW r \in DeviceRow, NEW b \in BOOLEAN, NEW c, c = [r EXCEPT !.canary = b]
      PROVE  c \in DeviceRow /\ c.state = r.state /\ c.canary = b
  BY <1>2 DEF DeviceRow
<1>3. ASSUME NEW r \in Rollout, NEW s \in States, NEW c, c = [r EXCEPT !.state = s]
      PROVE  c \in Rollout /\ c.state = s /\ c.confirmed = r.confirmed
  BY <1>3 DEF Rollout, States
<1> QED BY <1>1, <1>2, <1>3

LEMMA StepTyped ==
  ASSUME TypeOK
  PROVE  step \in StepRec /\ device \in [Devices -> DeviceRow] /\ rollout \in Rollout
BY DEF TypeOK, StepRec

LEMMA IdleTyped ==
  /\ Idle \in StepRec /\ Idle.at = "idle"
<1>1. [state |-> "none", confirmed |-> FALSE, due |-> FALSE] \in Rollout
  BY DEF Rollout
<1>2. [d \in Devices |-> [state |-> "pending", canary |-> FALSE]] \in [Devices -> DeviceRow]
  BY DEF DeviceRow
<1>3. 0 \in 0..BatchSize
  BY Constants
<1> QED BY <1>1, <1>2, <1>3 DEF Idle, StepRec

\* A device saved by a step.
LEMMA DeviceSaved ==
  ASSUME TypeOK, NEW d \in Devices, NEW new \in DeviceRow, SetDevice(d, new)
  PROVE  /\ device' \in [Devices -> DeviceRow]
         /\ \A e \in Devices \ {d} : device'[e] = device[e]
         /\ device'[d].state = IF new.state # step.device[d].state THEN new.state
                               ELSE device[d].state
         /\ device'[d].canary = IF new.canary # step.device[d].canary THEN new.canary
                                ELSE device[d].canary
<1> DEFINE row == Saved(device[d], step.device[d], new)
<1>1. device[d] \in DeviceRow /\ step.device[d] \in DeviceRow
  BY StepTyped DEF StepRec
<1>2. device' = [device EXCEPT ![d] = row]
  BY DEF SetDevice
<1>3. /\ row \in DeviceRow
      /\ row.state = IF new.state # step.device[d].state THEN new.state ELSE device[d].state
      /\ row.canary = IF new.canary # step.device[d].canary THEN new.canary
                      ELSE device[d].canary
  BY <1>1, SavedDevice
<1> HIDE DEF row
<1> QED BY <1>2, <1>3, StepTyped

LEMMA RolloutSaved ==
  ASSUME TypeOK, NEW new \in Rollout, SaveRollout(new)
  PROVE  /\ rollout' \in Rollout
         /\ rollout'.state = IF new.state # step.rollout.state THEN new.state
                             ELSE rollout.state
         /\ rollout'.confirmed = IF new.confirmed # step.rollout.confirmed THEN new.confirmed
                                 ELSE rollout.confirmed
BY SavedRollout, StepTyped DEF SaveRollout, StepRec

\* The copy goes on with what the step has saved.
LEMMA NowTyped ==
  ASSUME TypeOK, NEW d \in Devices, NEW new \in DeviceRow
  PROVE  /\ Now(d, new) \in [Devices -> DeviceRow] /\ Now(d, new)[d] = new
         /\ \A e \in Devices \ {d} : Now(d, new)[e] = step.device[e]
BY StepTyped DEF Now, StepRec

Others ==
  /\ job' \in [Devices -> Job] /\ other' \in [Devices -> {"none", "open", "done"}]
  /\ offerable' \in BOOLEAN /\ torn' \subseteq Devices /\ events' \in 0..MaxEvents

LEMMA TypesNow ==
  ASSUME Others, rollout' \in Rollout, device' \in [Devices -> DeviceRow], step' \in StepRec
  PROVE  TypeOK'
BY DEF TypeOK, Others, StepRec

LEMMA OthersSame == ASSUME TypeOK, UNCHANGED <<jobs, offerable, torn, events>> PROVE Others
BY DEF TypeOK, Others, jobs

LEMMA Happening ==
  ASSUME TypeOK, Happens, UNCHANGED <<jobs, offerable>>, torn' \subseteq Devices PROVE Others
BY Constants DEF TypeOK, Others, Happens, jobs

----------------------------------------------------------------------------
\* Counting.

LEMMA RunFinite ==
  /\ IsFiniteSet(RunRows) /\ Cardinality(RunRows) \in Nat
  /\ \A S \in SUBSET RunRows :
       IsFiniteSet(S) /\ Cardinality(S) \in Nat /\ Cardinality(S) <= Cardinality(RunRows)
<1>1. IsFiniteSet(RunRows)
  BY Constants, FS_Subset DEF RunRows
<1> QED BY <1>1, FS_Subset, FS_CardinalityType

LEMMA OneMore ==
  ASSUME NEW d, RunRows' \subseteq RunRows \cup {d}
  PROVE  /\ Cardinality(RunRows') <= Cardinality(RunRows) + 1
         /\ Cardinality(RunRows') \in Nat
<1>1. /\ IsFiniteSet(RunRows \cup {d}) /\ Cardinality(RunRows \cup {d}) \in Nat
      /\ Cardinality(RunRows \cup {d}) <= Cardinality(RunRows) + 1
  <2>1. Cardinality(RunRows) \in Nat
    BY RunFinite
  <2> QED BY <2>1, RunFinite, FS_AddElement
<1>2. IsFiniteSet(RunRows') /\ Cardinality(RunRows') <= Cardinality(RunRows \cup {d})
  BY <1>1, FS_Subset
<1>3. Cardinality(RunRows') \in Nat /\ Cardinality(RunRows) \in Nat
  BY <1>2, RunFinite, FS_CardinalityType
<1> QED BY <1>1, <1>2, <1>3

LEMMA Fewer ==
  ASSUME RunRows' \subseteq RunRows
  PROVE  Cardinality(RunRows') <= Cardinality(RunRows) /\ Cardinality(RunRows') \in Nat
BY RunFinite

\* Until the confirmation there is the canary, and nobody else.
LEMMA Alone == ASSUME RInv, ~rollout.confirmed PROVE Cardinality(RunRows) <= 1
<1>1. CASE RunRows = {}
  BY <1>1, FS_EmptySet
<1>2. ASSUME NEW c \in RunRows PROVE Cardinality(RunRows) <= 1
  <2>1. RunRows \subseteq {c}
    BY DEF RInv, OneCanary, CanaryFirst, RunRows
  <2>2. IsFiniteSet({c}) /\ Cardinality({c}) = 1
    BY FS_Singleton
  <2> QED BY <2>1, <2>2, FS_Subset
<1> QED BY <1>1, <1>2

----------------------------------------------------------------------------
\* What the kinds of steps have in common.

\* The step of the engine is over, or breaks off.
LEMMA Ended ==
  ASSUME RInv, Others, step' = Idle, device' = device, rollout' \in Rollout,
         PhaseOK(rollout)', rollout.confirmed => rollout'.confirmed,
         rollout'.state = "none" => rollout.state = "none"
  PROVE  RInv'
<1> USE DEF RInv
<1>1. TypeOK' /\ ~Busy' /\ ~StartingNow' /\ step'.at = "idle"
  BY IdleTyped, StepTyped, TypesNow DEF Busy, StartingNow
<1>2. RunRows' = RunRows
  BY DEF RunRows
<1>3. CopyOK' /\ PhasesOK'
  BY <1>1 DEF CopyOK, PhasesOK
<1>4. OneCanary'
  BY <1>1 DEF OneCanary
<1>5. CanaryFirst'
  BY <1>1, <1>2 DEF CanaryFirst
<1>6. Batches'
  <2>1. ~rollout.confirmed => Cardinality(RunRows) <= BatchSize
    <3>1. Cardinality(RunRows) \in Nat
      BY RunFinite
    <3> QED BY <3>1, Alone, Constants
  <2> QED BY <1>1, <1>2, <2>1 DEF Batches
<1> QED BY <1>1, <1>3, <1>4, <1>5, <1>6

\* Something happens beside a step, or while there is none.
LEMMA Beside ==
  ASSUME RInv, Others, step' = step, rollout' \in Rollout, device' \in [Devices -> DeviceRow],
         RunRows' \subseteq RunRows, \A d \in Devices : device'[d].canary = device[d].canary,
         PhaseOK(rollout)', rollout'.confirmed = rollout.confirmed,
         rollout'.state = "none" => rollout.state = "none"
  PROVE  RInv'
<1> USE DEF RInv
<1>1. TypeOK' /\ Busy' = Busy /\ StartingNow' = StartingNow
  BY StepTyped, TypesNow DEF Busy, StartingNow
<1>2. CopyOK'
  BY <1>1 DEF CopyOK
<1>3. PhasesOK' /\ OneCanary'
  BY <1>1 DEF PhasesOK, PhaseOK, OneCanary
<1>4. CanaryFirst'
  <2>1. RunRows \subseteq Devices /\ (StartingNow => step.todo \subseteq Devices)
    BY StepTyped DEF RunRows, StepRec
  <2> QED BY <1>1, <2>1 DEF CanaryFirst
<1>5. Batches'
  <2>1. /\ Cardinality(RunRows') <= Cardinality(RunRows) /\ Cardinality(RunRows') \in Nat
        /\ Cardinality(RunRows) \in Nat /\ step.started \in Nat
    BY Fewer, RunFinite, StepTyped, Constants DEF StepRec
  <2> QED BY <1>1, <2>1, Constants DEF Batches
<1> QED BY <1>1, <1>2, <1>3, <1>4, <1>5

----------------------------------------------------------------------------
\* Steps of the engine that end it, and what happens beside it.

LEMMA EndKeeps ==
  ASSUME RInv, Busy, NEW s \in {"paused", "completed"}, End(s) PROVE RInv'
<1> DEFINE new == [step.rollout EXCEPT !.state = s]
<1> USE DEF RInv
<1>1. step.rollout \in Rollout /\ rollout \in Rollout
  BY StepTyped DEF StepRec
<1>2. new \in Rollout /\ new.state = s /\ new.confirmed = step.rollout.confirmed
  BY <1>1, WithState DEF States, OpenStates
<1>3. SaveRollout(new) /\ step' = Idle /\ device' = device /\ Others
  BY OthersSame DEF End
<1> HIDE DEF new
<1>4. /\ rollout' \in Rollout /\ rollout'.confirmed = rollout.confirmed
      /\ rollout'.state \in {s, rollout.state}
  BY <1>2, <1>3, RolloutSaved
<1>5. PhaseOK(rollout)' /\ (rollout'.state = "none" => rollout.state = "none")
  BY <1>4 DEF PhasesOK, PhaseOK
<1> QED BY <1>3, <1>4, <1>5, Ended

LEMMA WaitKeeps == ASSUME RInv, Wait PROVE RInv'
<1>1. Others /\ device' = device /\ rollout' = rollout /\ step' = Idle
  BY OthersSame DEF Wait, RInv
<1> QED BY <1>1, StepTyped, Ended DEF RInv, PhasesOK, PhaseOK

LEMMA CanaryConfirmedKeeps == ASSUME RInv, CanaryConfirmed PROVE RInv'
<1> USE DEF RInv
<1>1. PICK observe \in BOOLEAN :
        LET new == [state |-> "observing", confirmed |-> TRUE, due |-> ~observe] IN
        SaveRollout(new) /\ step' = IF observe THEN Idle ELSE [step EXCEPT !.rollout = new]
  BY DEF CanaryConfirmed
<1> DEFINE new == [state |-> "observing", confirmed |-> TRUE, due |-> ~observe]
<1>2. /\ SaveRollout(new) /\ device' = device /\ Others
      /\ step' = IF observe THEN Idle ELSE [step EXCEPT !.rollout = new]
      /\ step.rollout.state = "canary" /\ step.at = "decide" /\ Busy /\ ~StartingNow
  BY <1>1, OthersSame DEF CanaryConfirmed, Deciding, At, Busy, StartingNow
<1>3. new \in Rollout /\ new.state = "observing" /\ new.confirmed = TRUE
  BY DEF Rollout, OpenStates, Running
<1>4. ~step.rollout.confirmed /\ step \in StepRec
  BY <1>2, StepTyped DEF PhasesOK, PhaseOK
<1> HIDE DEF new
<1>5. rollout' \in Rollout /\ rollout'.confirmed /\ rollout'.state = "observing"
  <2>1. step.rollout.confirmed # TRUE
    BY <1>4
  <2> QED BY <1>2, <1>3, <2>1, RolloutSaved
<1>6. PhaseOK(rollout)'
  BY <1>5 DEF PhaseOK
<1>7. CASE observe
  BY <1>2, <1>5, <1>6, <1>7, Ended
<1>8. CASE ~observe
  <2>1. /\ step' \in StepRec /\ step'.at = "decide" /\ step'.rollout = new
        /\ step'.device = step.device
    BY <1>2, <1>3, <1>4, <1>8 DEF StepRec
  <2>2. TypeOK' /\ Busy' /\ ~StartingNow' /\ RunRows' = RunRows
    BY <1>2, <1>5, <2>1, StepTyped, TypesNow DEF Busy, StartingNow, RunRows
  <2>3. CopyOK' /\ PhasesOK'
    BY <1>2, <1>3, <1>5, <1>6, <2>1, <2>2 DEF CopyOK, PhasesOK, PhaseOK
  <2>4. OneCanary' /\ CanaryFirst'
    BY <1>2, <1>5, <2>1, <2>2 DEF OneCanary, CanaryFirst
  <2>5. Batches'
    <3>1. ~rollout.confirmed
      BY <1>2, <1>4 DEF CopyOK
    <3>2. Cardinality(RunRows) <= 1 /\ Cardinality(RunRows) \in Nat
      BY <3>1, Alone, RunFinite
    <3> QED BY <2>1, <2>2, <3>2, Constants DEF Batches
  <2> QED BY <2>2, <2>3, <2>4, <2>5
<1> QED BY <1>7, <1>8

\* Only the rollout's state changes, to one that asks nothing of it.
LEMMA StateBeside ==
  ASSUME RInv, Others, step' = step, device' = device,
         NEW s \in {"paused", "cancelled"}, rollout' = [rollout EXCEPT !.state = s]
  PROVE  RInv'
<1> USE DEF RInv
<1>1. rollout' \in Rollout /\ rollout'.state = s /\ rollout'.confirmed = rollout.confirmed
  BY StepTyped, WithState DEF States, OpenStates
<1>2. PhaseOK(rollout)' /\ RunRows' = RunRows
  BY <1>1 DEF PhaseOK, RunRows
<1> QED BY <1>1, <1>2, StepTyped, Beside

LEMMA JobBeside ==
  ASSUME RInv, Others, UNCHANGED <<step, device, rollout>> PROVE RInv'
<1>1. RunRows' = RunRows /\ PhaseOK(rollout)'
  BY DEF RunRows, RInv, PhasesOK, PhaseOK
<1> QED BY <1>1, StepTyped, Beside DEF RInv

----------------------------------------------------------------------------
\* Steps that save nothing.

LEMMA BeginKeeps == ASSUME RInv, Begin PROVE RInv'
<1> DEFINE todo == {d \in Devices : device[d].state = "running"}
<1> USE DEF RInv
<1>1. /\ step' = [Idle EXCEPT !.at = "settle", !.rollout = rollout, !.device = device,
                               !.todo = todo]
      /\ device' = device /\ rollout' = rollout /\ Others /\ ~Busy
      /\ todo \in SUBSET Devices /\ \A d \in todo : device[d].state = "running"
  BY OthersSame DEF Begin, Busy, At
<1> HIDE DEF todo
<1>2. /\ step' \in StepRec /\ step'.at = "settle" /\ step'.rollout = rollout
      /\ step'.device = device /\ step'.todo = todo
  BY <1>1, StepTyped, IdleTyped DEF StepRec
<1>3. TypeOK' /\ RunRows' = RunRows /\ ~StartingNow'
  BY <1>1, <1>2, StepTyped, TypesNow DEF RunRows, StartingNow
<1>4. CopyOK' /\ PhasesOK'
  <2>1. rollout.state # "none"
    BY DEF Begin, Running
  <2> QED BY <1>1, <1>2, <1>3, <2>1 DEF CopyOK, PhasesOK, PhaseOK, RunRows
<1>5. OneCanary' /\ CanaryFirst'
  BY <1>1, <1>2, <1>3 DEF OneCanary, CanaryFirst
<1>6. Batches'
  BY <1>1, <1>2, <1>3 DEF Batches
<1> QED BY <1>3, <1>4, <1>5, <1>6

LEMMA SettledAllKeeps == ASSUME RInv, SettledAll PROVE RInv'
<1> USE DEF RInv
<1>1. /\ step' = [step EXCEPT !.at = "decide"] /\ step.at = "settle"
      /\ device' = device /\ rollout' = rollout /\ Others
  BY OthersSame DEF SettledAll, At
<1>2. /\ step' \in StepRec /\ step'.at = "decide" /\ step'.rollout = step.rollout
      /\ step'.device = step.device
  BY <1>1, StepTyped DEF StepRec
<1>3. TypeOK' /\ RunRows' = RunRows /\ ~StartingNow' /\ Busy /\ ~StartingNow
  BY <1>1, <1>2, StepTyped, TypesNow DEF RunRows, StartingNow, Busy
<1>4. CopyOK' /\ PhasesOK'
  BY <1>1, <1>2, <1>3 DEF CopyOK, PhasesOK, PhaseOK
<1>5. OneCanary' /\ CanaryFirst'
  BY <1>1, <1>2, <1>3 DEF OneCanary, CanaryFirst
<1>6. Batches'
  BY <1>1, <1>2, <1>3 DEF Batches
<1> QED BY <1>3, <1>4, <1>5, <1>6

\* The canary starts, or a batch.
LEMMA StartKeeps ==
  ASSUME RInv, step.at = "decide", NEW todo \in SUBSET Devices,
         step' = [step EXCEPT !.at = "start", !.todo = todo],
         UNCHANGED <<rollout, device, jobs, offerable, torn, events>>,
         \/ ~rollout.confirmed /\ \A d \in todo : device[d].canary
         \/ rollout.confirmed /\ RunRows = {}
  PROVE  RInv'
<1> USE DEF RInv
<1>1. device' = device /\ rollout' = rollout /\ Others
  BY OthersSame
<1>2. /\ step' \in StepRec /\ step'.at = "start" /\ step'.rollout = step.rollout
      /\ step'.device = step.device /\ step'.todo = todo /\ step'.started = step.started
  BY <1>1, StepTyped DEF StepRec
<1> step.started \in Nat
  BY StepTyped, Constants DEF StepRec
<1>3. TypeOK' /\ RunRows' = RunRows /\ StartingNow' /\ Busy /\ ~StartingNow
  BY <1>1, <1>2, StepTyped, TypesNow DEF RunRows, StartingNow, Busy
<1>4. CopyOK' /\ PhasesOK'
  BY <1>1, <1>2, <1>3 DEF CopyOK, PhasesOK, PhaseOK
<1>5. OneCanary' /\ CanaryFirst'
  BY <1>1, <1>2, <1>3 DEF OneCanary, CanaryFirst
<1>6. Batches'
  <2>1. CASE ~rollout.confirmed
    BY <1>1, <1>2, <2>1 DEF Batches
  <2>2. CASE rollout.confirmed /\ RunRows = {}
    BY <1>1, <1>2, <1>3, <2>2, FS_EmptySet, Constants DEF Batches
  <2> QED BY <2>1, <2>2
<1> QED BY <1>3, <1>4, <1>5, <1>6

LEMMA StartCanaryKeeps == ASSUME RInv, StartCanary PROVE RInv'
<1>1. /\ step.at = "decide" /\ step' = [step EXCEPT !.at = "start", !.todo = Canaries]
      /\ UNCHANGED <<rollout, device, jobs, offerable, torn, events>>
      /\ step.rollout.state = "canary"
  BY DEF StartCanary, Deciding, At
<1>2. ~rollout.confirmed /\ Canaries \in SUBSET Devices /\ \A d \in Canaries : device[d].canary
  BY <1>1 DEF RInv, CopyOK, PhasesOK, PhaseOK, Busy, Canaries
<1> QED BY <1>1, <1>2, StartKeeps

LEMMA StartBatchKeeps == ASSUME RInv, StartBatch PROVE RInv'
<1>1. /\ step.at = "decide" /\ step' = [step EXCEPT !.at = "start", !.todo = Among("pending")]
      /\ UNCHANGED <<rollout, device, jobs, offerable, torn, events>>
      /\ step.rollout.state = "rolling" /\ Among("running") = {}
  BY DEF StartBatch, Rolling, Deciding, At
<1>2. rollout.confirmed /\ RunRows = {} /\ Among("pending") \in SUBSET Devices
  BY <1>1 DEF RInv, CopyOK, PhasesOK, PhaseOK, Busy, StartingNow, Among, RunRows
<1> QED BY <1>1, <1>2, StartKeeps

----------------------------------------------------------------------------
\* One device after the other is started.

\* What a step that starts devices has, wherever it is.
LEMMA StartingTyped ==
  ASSUME RInv, StartingNow
  PROVE  /\ step.started \in Nat /\ step.started =< BatchSize /\ BatchSize \in Nat
         /\ step.todo \in SUBSET Devices /\ Busy
BY StepTyped, Constants DEF RInv, StepRec, StartingNow, Busy

LEMMA LeftTyped ==
  ASSUME RInv, StartingNow, step.todo # {}, NEW n \in 0..BatchSize,
         step' = [step EXCEPT !.at = "start", !.todo = @ \ {Min(step.todo)}, !.started = n]
  PROVE  /\ step' \in StepRec /\ step'.at = "start" /\ step'.rollout = step.rollout
         /\ step'.device = step.device /\ step'.todo = step.todo \ {Min(step.todo)}
         /\ step'.started = n
<1> DEFINE todo == step.todo \ {Min(step.todo)}
<1>1. todo \in SUBSET Devices /\ step' = [step EXCEPT !.at = "start", !.todo = todo, !.started = n]
  BY StartingTyped
<1> HIDE DEF todo
<1>2. /\ step' \in StepRec /\ step'.at = "start" /\ step'.rollout = step.rollout
      /\ step'.device = step.device /\ step'.todo = todo /\ step'.started = n
  BY <1>1, StepTyped DEF RInv, StepRec
<1> QED BY <1>2 DEF todo

\* Nothing more runs than before.
LEMMA NotStarted ==
  ASSUME RInv, StartingNow, step' \in StepRec, StartingNow', rollout' = rollout, Others,
         step'.rollout = step.rollout, step'.device = step.device,
         step'.todo \subseteq step.todo, step'.started = step.started,
         step'.at = "record" => step.started < BatchSize /\ step'.todo # {},
         device' \in [Devices -> DeviceRow], RunRows' \subseteq RunRows,
         \A d \in Devices : device'[d].canary = device[d].canary
  PROVE  RInv'
<1> USE DEF RInv
<1>1. TypeOK' /\ Busy' /\ Busy /\ step'.at # "promote" /\ step'.at # "settle"
  BY StepTyped, TypesNow DEF Busy, StartingNow
<1>2. CopyOK' /\ PhasesOK'
  BY <1>1 DEF CopyOK, PhasesOK, PhaseOK
<1>3. OneCanary'
  BY <1>1 DEF OneCanary
<1>4. CanaryFirst'
  <2>1. RunRows \subseteq Devices /\ step.todo \subseteq Devices
    BY StartingTyped DEF RunRows
  <2> QED BY <1>1, <2>1 DEF CanaryFirst
<1>5. Batches'
  <2>1. /\ Cardinality(RunRows') <= Cardinality(RunRows) /\ Cardinality(RunRows') \in Nat
        /\ Cardinality(RunRows) \in Nat /\ step.started \in Nat /\ BatchSize \in Nat
    BY Fewer, RunFinite, StartingTyped
  <2> QED BY <1>1, <2>1 DEF Batches
<1> QED BY <1>1, <1>2, <1>3, <1>4, <1>5

\* One more runs, and is counted.
LEMMA OneStartedKeeps ==
  ASSUME RInv, StartingNow, step.todo # {}, step.started < BatchSize,
         SetDevice(Min(step.todo), [step.device[Min(step.todo)] EXCEPT !.state = "running"]),
         step' = [step EXCEPT !.at = "start", !.todo = @ \ {Min(step.todo)},
                              !.started = step.started + 1],
         UNCHANGED <<rollout, jobs, offerable, torn, events>>
  PROVE  RInv'
<1> DEFINE d == Min(step.todo)  new == [step.device[d] EXCEPT !.state = "running"]
<1> USE DEF RInv
<1>1. /\ step.started \in Nat /\ BatchSize \in Nat /\ step.todo \in SUBSET Devices /\ Busy
      /\ step.started + 1 \in 0..BatchSize
  BY StartingTyped
<1>2. d \in step.todo /\ d \in Devices
  BY <1>1, MinIn
<1>3. SetDevice(d, new) /\ step.device[d] \in DeviceRow
  BY <1>2, StepTyped DEF StepRec
<1>4. new \in DeviceRow /\ new.state = "running" /\ new.canary = step.device[d].canary
  BY <1>3, WithState DEF DeviceStates
<1>5. /\ step' \in StepRec /\ step'.at = "start" /\ step'.rollout = step.rollout
      /\ step'.device = step.device /\ step'.todo = step.todo \ {d}
      /\ step'.started = step.started + 1
  BY <1>1, LeftTyped
<1> HIDE DEF d, new
<1>6. /\ device' \in [Devices -> DeviceRow] /\ \A e \in Devices \ {d} : device'[e] = device[e]
      /\ device'[d].canary = device[d].canary
  BY <1>2, <1>3, <1>4, DeviceSaved
<1>7. /\ \A e \in Devices : device'[e].canary = device[e].canary
      /\ RunRows' \subseteq RunRows \cup {d} /\ RunRows \subseteq Devices
  BY <1>6 DEF RunRows
<1>8. TypeOK' /\ Busy' /\ StartingNow' /\ rollout' = rollout
  BY <1>5, <1>6, StepTyped, TypesNow, OthersSame DEF Busy, StartingNow
<1>9. CopyOK' /\ PhasesOK' /\ OneCanary'
  BY <1>1, <1>5, <1>7, <1>8 DEF CopyOK, PhasesOK, PhaseOK, OneCanary
<1>10. CanaryFirst'
  BY <1>1, <1>2, <1>5, <1>7, <1>8 DEF CanaryFirst
<1>11. Batches'
  <2>1. /\ Cardinality(RunRows') <= Cardinality(RunRows) + 1 /\ Cardinality(RunRows') \in Nat
        /\ Cardinality(RunRows) \in Nat
    BY <1>7, OneMore, RunFinite
  <2> QED BY <1>1, <1>5, <1>8, <2>1 DEF Batches
<1> QED BY <1>8, <1>9, <1>10, <1>11

LEMMA StartDeviceKeeps ==
  ASSUME RInv, NEW d \in Devices, StartDevice(d) PROVE RInv'
<1> USE DEF RInv
<1>1. /\ StartingNow /\ step.at = "start" /\ step.started < BatchSize /\ step.todo # {}
      /\ d = Min(step.todo) /\ step.todo \in SUBSET Devices
      /\ step.started \in 0..BatchSize /\ step \in StepRec
  BY StepTyped DEF StartDevice, SkipDevice, PassOver, Adopt, StartJob, Starting, At, StartingNow,
                   StepRec
<1>2. CASE SkipDevice(d)
  <2> DEFINE new == [step.device[d] EXCEPT !.state = "skipped"]
  <2>1. SetDevice(d, new) /\ step' = Left /\ rollout' = rollout /\ Others
    BY <1>2, OthersSame DEF SkipDevice
  <2>2. new \in DeviceRow /\ new.state = "skipped" /\ new.canary = step.device[d].canary
    <3>1. step.device[d] \in DeviceRow
      BY <1>1 DEF StepRec
    <3> QED BY <3>1, WithState DEF DeviceStates
  <2> HIDE DEF new
  <2>3. /\ device' \in [Devices -> DeviceRow] /\ \A e \in Devices \ {d} : device'[e] = device[e]
        /\ device'[d].canary = device[d].canary
        /\ device'[d].state \in {"skipped", device[d].state}
    BY <2>1, <2>2, DeviceSaved
  <2>4. RunRows' \subseteq RunRows /\ \A e \in Devices : device'[e].canary = device[e].canary
    BY <2>3 DEF RunRows
  <2>5. step' = [step EXCEPT !.at = "start", !.todo = @ \ {Min(step.todo)}, !.started = step.started]
    BY <1>1, <2>1 DEF Left, StepRec
  <2>6. step' \in StepRec /\ step'.at = "start" /\ step'.rollout = step.rollout
        /\ step'.device = step.device /\ step'.todo = step.todo \ {Min(step.todo)}
        /\ step'.started = step.started
    BY <1>1, <2>5, LeftTyped
  <2> QED BY <1>1, <2>1, <2>3, <2>4, <2>6, NotStarted DEF StartingNow
<1>3. CASE PassOver(d)
  <2>1. device' = device /\ step' = Left /\ rollout' = rollout /\ Others
    BY <1>3, OthersSame DEF PassOver
  <2>2. step' = [step EXCEPT !.at = "start", !.todo = @ \ {Min(step.todo)}, !.started = step.started]
    BY <1>1, <2>1 DEF Left, StepRec
  <2>3. step' \in StepRec /\ step'.at = "start" /\ step'.rollout = step.rollout
        /\ step'.device = step.device /\ step'.todo = step.todo \ {Min(step.todo)}
        /\ step'.started = step.started
    BY <1>1, <2>2, LeftTyped
  <2>4. RunRows' = RunRows
    BY <2>1 DEF RunRows
  <2> QED BY <1>1, <2>1, <2>3, <2>4, NotStarted, StepTyped DEF StartingNow
<1>4. CASE Adopt(d)
  <2>1. step' = [Left EXCEPT !.started = @ + 1]
    BY <1>4 DEF Adopt
  <2>2. step' = [step EXCEPT !.at = "start", !.todo = @ \ {Min(step.todo)},
                             !.started = step.started + 1]
    BY <1>1, <2>1 DEF Left, StepRec
  <2> QED BY <1>1, <1>4, <2>2, OneStartedKeeps DEF Adopt
<1>5. CASE StartJob(d)
  <2>1. /\ step' = [step EXCEPT !.at = "record"] /\ device' = device /\ rollout' = rollout
        /\ job' = [job EXCEPT ![d] = "queued"] /\ other' = [other EXCEPT ![d] = "none"]
        /\ UNCHANGED <<offerable, torn, events>>
    BY <1>5 DEF StartJob
  <2>2. Others
    BY <2>1 DEF TypeOK, Others, Job
  <2>3. step' \in StepRec /\ step'.at = "record" /\ step'.rollout = step.rollout
        /\ step'.device = step.device /\ step'.todo = step.todo /\ step'.started = step.started
    BY <1>1, <2>1 DEF StepRec
  <2>4. RunRows' = RunRows
    BY <2>1 DEF RunRows
  <2> QED BY <1>1, <2>1, <2>2, <2>3, <2>4, NotStarted, StepTyped DEF StartingNow
<1> QED BY <1>2, <1>3, <1>4, <1>5 DEF StartDevice

LEMMA RecordKeeps == ASSUME RInv, Record PROVE RInv'
<1>1. step.at = "record" /\ StartingNow /\ step.todo # {} /\ step.started < BatchSize
  BY DEF Record, At, RInv, Batches, StartingNow
<1>2. step' = [Left EXCEPT !.at = "start", !.started = @ + 1]
  BY DEF Record
<1>3. step' = [step EXCEPT !.at = "start", !.todo = @ \ {Min(step.todo)},
                           !.started = step.started + 1]
  BY <1>2, StepTyped DEF Left, StepRec, RInv
<1> QED BY <1>1, <1>3, OneStartedKeeps DEF Record

----------------------------------------------------------------------------
\* Jobs that have ended are settled; the canary is replaced.

\* A step goes on, at a place where it starts nothing, with a device it saved.
LEMMA GoesOn ==
  ASSUME RInv, Busy, ~StartingNow, Others, rollout' = rollout, NEW d \in Devices,
         step' \in StepRec, step'.at \in {"settle", "promote"}, step'.rollout = step.rollout,
         device' \in [Devices -> DeviceRow], step'.device \in [Devices -> DeviceRow],
         \A e \in Devices \ {d} : device'[e] = device[e] /\ step'.device[e] = step.device[e],
         device'[d].state = "running" =>
           device[d].state = "running" /\ step'.device[d].state = "running",
         device'[d].canary = step'.device[d].canary,
         device'[d].canary => device[d].canary,
         ~rollout.confirmed => (device'[d].state = "running" => device'[d].canary),
         step'.at = "promote" => \A e \in Devices : ~device'[e].canary,
         step'.at = "settle" => step.at = "settle" /\ step'.todo \subseteq step.todo \ {d}
  PROVE  RInv'
<1> USE DEF RInv
<1>1. TypeOK' /\ Busy' /\ ~StartingNow'
  BY TypesNow, StepTyped DEF Busy, StartingNow
<1>2. RunRows' \subseteq RunRows /\ RunRows' \subseteq Devices /\ RunRows \subseteq Devices
  BY DEF RunRows
<1>3. CopyOK'
  <2>1. \A e \in Devices : step'.device[e].canary = device'[e].canary
    BY DEF CopyOK
  <2>2. \A e \in RunRows' : step'.device[e].state = "running"
    BY <1>2 DEF CopyOK, RunRows
  <2>3. step'.at = "settle" => \A e \in step'.todo : step'.device[e].state = "running"
    BY StepTyped DEF CopyOK, StepRec
  <2> QED BY <1>1, <2>1, <2>2, <2>3 DEF CopyOK
<1>4. PhasesOK'
  BY <1>1 DEF PhasesOK, PhaseOK
<1>5. OneCanary'
  <2>1. \A e \in Devices : device'[e].canary => device[e].canary
    OBVIOUS
  <2> QED BY <2>1 DEF OneCanary
<1>6. CanaryFirst'
  <2>1. ASSUME ~rollout.confirmed, NEW e \in RunRows' PROVE device'[e].canary
    BY <1>2, <2>1 DEF CanaryFirst, RunRows
  <2> QED BY <1>1, <2>1 DEF CanaryFirst
<1>7. Batches'
  <2>1. /\ Cardinality(RunRows') <= Cardinality(RunRows) /\ Cardinality(RunRows') \in Nat
        /\ Cardinality(RunRows) \in Nat /\ BatchSize \in Nat
    BY <1>2, Fewer, RunFinite, Constants
  <2> QED BY <1>1, <2>1 DEF Batches, StartingNow
<1> QED BY <1>1, <1>3, <1>4, <1>5, <1>6, <1>7

LEMMA SettleKeeps == ASSUME RInv, Settle PROVE RInv'
<1> DEFINE d == Min(step.todo)
           todo == step.todo \ {d}
           new == [step.device[d] EXCEPT !.state = Verdict(job[d])]
           stop == step.stop \/ Stops(new)
<1> USE DEF RInv
<1>1. /\ step.at = "settle" /\ step.todo # {} /\ step.todo \in SUBSET Devices /\ step \in StepRec
      /\ rollout' = rollout /\ Others /\ Busy /\ ~StartingNow
  BY StepTyped, OthersSame DEF Settle, At, StepRec, Busy, StartingNow
<1>2. d \in step.todo /\ d \in Devices /\ todo \in SUBSET Devices /\ todo \subseteq step.todo \ {d}
  BY <1>1, MinIn
<1>3. step.device[d] \in DeviceRow /\ device[d] \in DeviceRow /\ step.device[d].state = "running"
  BY <1>1, <1>2, StepTyped DEF StepRec, CopyOK
<1>4. \/ step' = [step EXCEPT !.todo = todo] /\ device' = device
      \/ /\ SetDevice(d, new)
         /\ step' = [step EXCEPT !.todo = todo, !.settled = TRUE, !.device = Now(d, new),
                                 !.stop = stop]
  BY DEF Settle
<1>5. Verdict(job[d]) \in DeviceStates \ {"running"}
  BY DEF Verdict, DeviceStates
<1>6. new \in DeviceRow /\ new.state # "running" /\ new.canary = step.device[d].canary
  BY <1>3, <1>5, WithState
<1>7. Now(d, new) \in [Devices -> DeviceRow] /\ Now(d, new)[d] = new
      /\ \A e \in Devices \ {d} : Now(d, new)[e] = step.device[e]
  BY <1>2, <1>6, NowTyped
<1>8. stop \in BOOLEAN
  BY <1>1 DEF Stops, StepRec
<1>9. SetDevice(d, new) =>
        /\ device' \in [Devices -> DeviceRow]
        /\ \A e \in Devices \ {d} : device'[e] = device[e]
        /\ device'[d].state # "running" /\ device'[d].canary = device[d].canary
  BY <1>2, <1>3, <1>6, DeviceSaved
<1> HIDE DEF d, todo, new, stop
<1>10. CASE step' = [step EXCEPT !.todo = todo] /\ device' = device
  <2>1. /\ step' \in StepRec /\ step'.at = "settle" /\ step'.rollout = step.rollout
        /\ step'.device = step.device /\ step'.todo = todo
    BY <1>1, <1>2, <1>10 DEF StepRec
  <2>2. /\ device' \in [Devices -> DeviceRow] /\ step'.device \in [Devices -> DeviceRow]
        /\ device[d].canary = step.device[d].canary
    BY <1>1, <1>2, <1>10, <2>1, StepTyped DEF CopyOK, StepRec
  <2>3. ~rollout.confirmed => (device[d].state = "running" => device[d].canary)
    BY <1>2 DEF CanaryFirst, RunRows
  <2> QED BY <1>1, <1>2, <1>3, <1>10, <2>1, <2>2, <2>3, GoesOn
<1>11. CASE /\ SetDevice(d, new)
            /\ step' = [step EXCEPT !.todo = todo, !.settled = TRUE, !.device = Now(d, new),
                                    !.stop = stop]
  <2>1. /\ step' \in StepRec /\ step'.at = "settle" /\ step'.rollout = step.rollout
        /\ step'.device = Now(d, new) /\ step'.todo = todo
    BY <1>1, <1>2, <1>7, <1>8, <1>11 DEF StepRec
  <2>2. device[d].canary = step.device[d].canary
    BY <1>1, <1>2 DEF CopyOK
  <2> QED BY <1>1, <1>2, <1>6, <1>7, <1>9, <1>11, <2>1, <2>2, GoesOn
<1> QED BY <1>4, <1>10, <1>11

LEMMA DemoteKeeps == ASSUME RInv, Demote PROVE RInv'
<1> DEFINE d == Min(Canaries)  new == [step.device[d] EXCEPT !.canary = FALSE]
<1> USE DEF RInv
<1>1. /\ step.at = "decide" /\ step \in StepRec /\ rollout' = rollout /\ Others
      /\ Busy /\ ~StartingNow /\ CanaryGone /\ Canaries # {} /\ Canaries \in SUBSET Devices
  BY StepTyped, OthersSame DEF Demote, Deciding, At, Busy, StartingNow, Canaries
<1>2. d \in Canaries /\ d \in Devices
  BY <1>1, MinIn
<1>3. /\ step.device[d] \in DeviceRow /\ step.device[d].state = "skipped" /\ step.device[d].canary
      /\ device[d].canary
  BY <1>1, <1>2 DEF StepRec, CanaryGone, Canaries, CopyOK
<1>4. new \in DeviceRow /\ new.state = "skipped" /\ new.canary = FALSE
  BY <1>3, WithState
<1>5. SetDevice(d, new) /\ step' = [step EXCEPT !.at = "promote", !.device = Now(d, new)]
  BY DEF Demote
<1>6. /\ Now(d, new) \in [Devices -> DeviceRow] /\ Now(d, new)[d] = new
      /\ \A e \in Devices \ {d} : Now(d, new)[e] = step.device[e]
  BY <1>2, <1>4, NowTyped
<1> HIDE DEF d, new
<1>7. /\ device' \in [Devices -> DeviceRow] /\ \A e \in Devices \ {d} : device'[e] = device[e]
      /\ device'[d].state = device[d].state /\ device'[d].canary = FALSE
  <2>1. new.canary # step.device[d].canary
    BY <1>3, <1>4
  <2> QED BY <1>2, <1>3, <1>4, <1>5, <2>1, DeviceSaved
<1>8. /\ step' \in StepRec /\ step'.at = "promote" /\ step'.rollout = step.rollout
      /\ step'.device = Now(d, new)
  BY <1>1, <1>5, <1>6 DEF StepRec
<1>9. device[d].state # "running"
  <2>1. ~StartingNow => \A e \in RunRows : step.device[e].state = "running"
    BY <1>1 DEF CopyOK
  <2> QED BY <1>1, <1>2, <1>3, <2>1 DEF RunRows
<1>10. \A e \in Devices : ~device'[e].canary
  BY <1>2, <1>3, <1>7 DEF OneCanary
<1>11. /\ step'.device[d].canary = FALSE
       /\ \A e \in Devices \ {d} : step'.device[e] = step.device[e]
       /\ step'.device \in [Devices -> DeviceRow]
  BY <1>4, <1>6, <1>8
<1>12. /\ device'[d].canary = step'.device[d].canary /\ ~device'[d].canary
       /\ device'[d].state # "running" /\ step'.at # "settle"
  BY <1>7, <1>8, <1>9, <1>11
<1> QED BY <1>1, <1>2, <1>7, <1>8, <1>10, <1>11, <1>12, GoesOn

LEMMA PromoteKeeps == ASSUME RInv, Promote PROVE RInv'
<1> DEFINE d == Min(Among("pending"))  new == [step.device[d] EXCEPT !.canary = TRUE]
<1> USE DEF RInv
<1>1. /\ step' = Idle /\ step \in StepRec /\ rollout' = rollout /\ Others /\ SetDevice(d, new)
      /\ Busy /\ ~StartingNow /\ Among("pending") # {} /\ Among("pending") \in SUBSET Devices
      /\ (step.at = "promote" \/ (step.at = "decide" /\ Canaries = {}))
  BY StepTyped, OthersSame DEF Promote, Deciding, At, Busy, StartingNow, Among
<1>2. d \in Devices /\ step.device[d].state = "pending"
  BY <1>1, MinIn DEF Among
<1>3. step.device[d] \in DeviceRow /\ \A e \in Devices : ~device[e].canary
  BY <1>1, <1>2 DEF StepRec, OneCanary, CopyOK, Canaries
<1>4. new \in DeviceRow /\ new.state = "pending" /\ new.canary = TRUE
  BY <1>2, <1>3, WithState
<1> HIDE DEF d, new
<1>5. /\ device' \in [Devices -> DeviceRow] /\ \A e \in Devices \ {d} : device'[e] = device[e]
      /\ device'[d].state = device[d].state
  BY <1>1, <1>2, <1>4, DeviceSaved
<1>6. device[d].state # "running"
  <2>1. ~StartingNow => \A e \in RunRows : step.device[e].state = "running"
    BY <1>1 DEF CopyOK
  <2> QED BY <1>1, <1>2, <2>1 DEF RunRows
<1>7. /\ TypeOK' /\ ~Busy' /\ ~StartingNow' /\ step'.at = "idle" /\ RunRows' = RunRows
  BY <1>1, <1>5, IdleTyped, StepTyped, TypesNow DEF Busy, StartingNow, RunRows
<1>8. CopyOK' /\ PhasesOK'
  BY <1>1, <1>7 DEF CopyOK, PhasesOK, PhaseOK
<1>9. OneCanary'
  <2>1. \A e \in Devices \ {d} : ~device'[e].canary
    BY <1>3, <1>5
  <2>2. rollout.state # "none"
    BY <1>1 DEF CopyOK
  <2> QED BY <1>1, <1>7, <2>1, <2>2 DEF OneCanary
<1>10. CanaryFirst'
  <2>1. ASSUME ~rollout.confirmed, NEW e \in RunRows PROVE FALSE
    BY <1>3, <2>1 DEF CanaryFirst, RunRows
  <2> QED BY <1>1, <1>7, <2>1 DEF CanaryFirst
<1>11. Batches'
  BY <1>1, <1>7 DEF Batches
<1> QED BY <1>7, <1>8, <1>9, <1>10, <1>11

\* The observation is over; the gap between two batches begins.
LEMMA RolloutGoesOn ==
  ASSUME RInv, step.at = "decide", NEW new \in Rollout, SaveRollout(new), NEW b \in BOOLEAN,
         step' = [step EXCEPT !.settled = b, !.rollout = new],
         UNCHANGED <<device, jobs, offerable, torn, events>>,
         new.confirmed = step.rollout.confirmed,
         \/ new.state = step.rollout.state
         \/ new.state = "rolling" /\ step.rollout.state = "observing"
  PROVE  RInv'
<1> USE DEF RInv
<1>1. Others /\ Busy /\ ~StartingNow /\ step \in StepRec /\ device' = device
  BY OthersSame, StepTyped DEF Busy, StartingNow
<1>2. /\ step' \in StepRec /\ step'.at = "decide" /\ step'.rollout = new
      /\ step'.device = step.device
  BY <1>1 DEF StepRec
<1>3. /\ rollout' \in Rollout /\ rollout'.confirmed = rollout.confirmed
      /\ \/ rollout'.state = rollout.state
         \/ rollout'.state = "rolling" /\ step.rollout.state = "observing"
  BY RolloutSaved
<1>4. TypeOK' /\ Busy' /\ ~StartingNow' /\ RunRows' = RunRows
  BY <1>1, <1>2, <1>3, StepTyped, TypesNow DEF Busy, StartingNow, RunRows
<1>5. step.rollout.confirmed = rollout.confirmed /\ rollout.state # "none"
  BY <1>1 DEF CopyOK
<1>6. PhaseOK(rollout) /\ PhaseOK(step.rollout)
  BY <1>1 DEF PhasesOK
<1>7. CopyOK'
  BY <1>1, <1>2, <1>3, <1>4, <1>5 DEF CopyOK
<1>8. PhasesOK'
  BY <1>2, <1>3, <1>4, <1>5, <1>6 DEF PhasesOK, PhaseOK
<1>9. OneCanary' /\ CanaryFirst'
  BY <1>1, <1>2, <1>3, <1>4, <1>5 DEF OneCanary, CanaryFirst
<1>10. Batches'
  BY <1>1, <1>2, <1>3, <1>4 DEF Batches
<1> QED BY <1>4, <1>7, <1>8, <1>9, <1>10

LEMMA ObservedKeeps == ASSUME RInv, Observed PROVE RInv'
<1> DEFINE new == [step.rollout EXCEPT !.state = "rolling", !.due = TRUE]
<1>1. /\ step.at = "decide" /\ step.rollout.state = "observing" /\ SaveRollout(new)
      /\ step' = [step EXCEPT !.rollout = new]
      /\ UNCHANGED <<device, jobs, offerable, torn, events>>
  BY DEF Observed, Deciding, At
<1>2. step \in StepRec
  BY StepTyped DEF RInv
<1>3. new \in Rollout /\ new.state = "rolling" /\ new.confirmed = step.rollout.confirmed
  BY <1>2 DEF StepRec, Rollout, OpenStates, Running
<1> HIDE DEF new
<1>4. step' = [step EXCEPT !.settled = step.settled, !.rollout = new] /\ step.settled \in BOOLEAN
  BY <1>1, <1>2 DEF StepRec
<1> QED BY <1>1, <1>3, <1>4, RolloutGoesOn

LEMMA GapKeeps == ASSUME RInv, Gap PROVE RInv'
<1> DEFINE new == [step.rollout EXCEPT !.due = FALSE]
<1>1. /\ step.at = "decide" /\ SaveRollout(new)
      /\ step' = [step EXCEPT !.settled = FALSE, !.rollout = new]
      /\ UNCHANGED <<device, jobs, offerable, torn, events>>
  BY DEF Gap, Rolling, Deciding, At
<1>2. step.rollout \in Rollout
  BY StepTyped DEF RInv, StepRec
<1>3. /\ new \in Rollout /\ new.state = step.rollout.state
      /\ new.confirmed = step.rollout.confirmed
  BY <1>2 DEF Rollout
<1> HIDE DEF new
<1> QED BY <1>1, <1>3, RolloutGoesOn

----------------------------------------------------------------------------
\* The admin, the jobs, time and restarts.

LEMMA CreateKeeps == ASSUME RInv, Create PROVE RInv'
<1> USE DEF RInv
<1>1. /\ rollout.state = "none" /\ ~Busy /\ step' = step /\ Others
      /\ rollout' = [state |-> "canary", confirmed |-> FALSE, due |-> TRUE]
      /\ device' = [device EXCEPT ![1].canary = TRUE]
  BY OthersSame DEF Create, At, Busy
<1>2. rollout' \in Rollout /\ rollout'.state = "canary" /\ ~rollout'.confirmed
  BY <1>1 DEF Rollout, OpenStates, Running
<1>3. 1 \in Devices /\ device \in [Devices -> DeviceRow] /\ step \in StepRec
  BY Constants, StepTyped
<1>4. /\ device' \in [Devices -> DeviceRow] /\ device'[1].state = device[1].state
      /\ \A e \in Devices \ {1} : device'[e] = device[e]
  BY <1>1, <1>3, WithState
<1>5. \A e \in Devices : ~device[e].canary
  BY <1>1 DEF OneCanary
<1>6. RunRows = {} /\ RunRows' = {}
  <2>1. ~rollout.confirmed
    BY <1>1 DEF PhasesOK, PhaseOK
  <2>2. RunRows = {}
    BY <1>5, <2>1 DEF CanaryFirst, RunRows
  <2> QED BY <1>3, <1>4, <2>2 DEF RunRows
<1>7. TypeOK' /\ ~Busy' /\ ~StartingNow' /\ step'.at = "idle"
  BY <1>1, <1>2, <1>3, <1>4, TypesNow DEF Busy, StartingNow
<1>8. CopyOK' /\ PhasesOK' /\ CanaryFirst'
  BY <1>2, <1>6, <1>7 DEF CopyOK, PhasesOK, PhaseOK, CanaryFirst
<1>9. OneCanary'
  <2>1. \A e \in Devices \ {1} : ~device'[e].canary
    BY <1>4, <1>5
  <2> QED BY <1>2, <1>7, <2>1 DEF OneCanary
<1>10. Batches'
  BY <1>2, <1>7 DEF Batches
<1> QED BY <1>7, <1>8, <1>9, <1>10

LEMMA Requested ==
  ASSUME RInv, Happens, UNCHANGED <<jobs, offerable>>, torn' \in {torn, {}} PROVE Others
BY Happening DEF RInv, TypeOK

LEMMA ResumeKeeps ==
  ASSUME RInv, NEW skipFailed \in BOOLEAN, Resume(skipFailed) PROVE RInv'
<1> DEFINE to == IF skipFailed THEN "skipped" ELSE "pending"
           s == IF CanaryPassed THEN "rolling" ELSE "canary"
<1> USE DEF RInv
<1>1. /\ step' = step /\ Others
      /\ device' = [d \in Devices |-> IF device[d].state = "failed"
                                    THEN [device[d] EXCEPT !.state = to] ELSE device[d]]
      /\ rollout' = [rollout EXCEPT !.state = s, !.due = TRUE]
  BY Requested DEF Resume
<1>2. to \in DeviceStates \ {"running"}
  BY DEF DeviceStates
<1>3. ASSUME NEW d \in Devices
      PROVE  /\ device'[d] \in DeviceRow /\ device'[d].canary = device[d].canary
             /\ device'[d].state = "running" => device[d].state = "running"
  <2>1. device[d] \in DeviceRow
    BY StepTyped
  <2> HIDE DEF to
  <2>2. CASE device[d].state = "failed"
    BY <1>1, <1>2, <2>1, <2>2, WithState
  <2>3. CASE device[d].state # "failed"
    BY <1>1, <2>1, <2>3
  <2> QED BY <2>2, <2>3
<1>4. /\ rollout' \in Rollout /\ rollout'.confirmed = rollout.confirmed
      /\ rollout'.state = IF rollout.confirmed THEN "rolling" ELSE "canary"
  BY <1>1, StepTyped DEF Rollout, CanaryPassed, OpenStates, Running
<1>5. RunRows' \subseteq RunRows
  BY <1>3 DEF RunRows
<1>6. device' \in [Devices -> DeviceRow]
  <2> HIDE DEF to
  <2>1. DOMAIN device' = Devices /\ device' = [d \in Devices |-> device'[d]]
    BY <1>1
  <2> QED BY <1>3, <2>1
<1>7. PhaseOK(rollout)'
  BY <1>4 DEF PhaseOK
<1> QED BY <1>1, <1>3, <1>4, <1>5, <1>6, <1>7, Beside

LEMMA CancelKeeps == ASSUME RInv, Cancel PROVE RInv'
<1> DEFINE queued == {d \in Devices : device[d].state = "running" /\ job[d] = "queued"}
<1> USE DEF RInv
<1>1. /\ step' = step /\ offerable' = offerable /\ Happens
      /\ job' = [d \in Devices |-> IF d \in queued THEN "cancelled" ELSE job[d]]
      /\ UNCHANGED <<other, torn>>
      /\ device' = [d \in Devices |->
                      IF d \in queued \/ device[d].state = "pending"
                      THEN [device[d] EXCEPT !.state = "skipped"] ELSE device[d]]
      /\ rollout' = [rollout EXCEPT !.state = "cancelled"]
  BY DEF Cancel
<1> HIDE DEF queued
<1>2. job' \in [Devices -> Job]
  <2>1. "cancelled" \in Job /\ \A d \in Devices : job[d] \in Job
    BY DEF TypeOK, Job
  <2> QED BY <1>1, <2>1
<1>3. Others
  BY <1>1, <1>2, Constants DEF Others, TypeOK, Happens
<1>4. ASSUME NEW d \in Devices
      PROVE  /\ device'[d] \in DeviceRow /\ device'[d].canary = device[d].canary
             /\ device'[d].state = "running" => device[d].state = "running"
  <2>1. /\ [device[d] EXCEPT !.state = "skipped"] \in DeviceRow
        /\ [device[d] EXCEPT !.state = "skipped"].state = "skipped"
        /\ [device[d] EXCEPT !.state = "skipped"].canary = device[d].canary
        /\ device[d] \in DeviceRow
    BY StepTyped, WithState DEF DeviceStates
  <2>2. device'[d] \in {[device[d] EXCEPT !.state = "skipped"], device[d]}
    BY <1>1
  <2> QED BY <2>1, <2>2
<1>5. rollout' \in Rollout /\ rollout'.confirmed = rollout.confirmed /\ rollout'.state = "cancelled"
  <2>1. "cancelled" \in States /\ rollout \in Rollout
    BY StepTyped DEF States
  <2>2. rollout' = [rollout EXCEPT !.state = "cancelled"]
    BY <1>1
  <2> QED BY <2>1, <2>2, WithState
<1>6. RunRows' \subseteq RunRows
  BY <1>4 DEF RunRows
<1>7. device' \in [Devices -> DeviceRow]
  <2>1. DOMAIN device' = Devices /\ device' = [d \in Devices |-> device'[d]]
    BY <1>1
  <2> QED BY <1>4, <2>1
<1>8. PhaseOK(rollout)'
  BY <1>5 DEF PhaseOK
<1> QED BY <1>1, <1>3, <1>4, <1>5, <1>6, <1>7, <1>8, Beside

LEMMA WithdrawKeeps == ASSUME RInv, Withdraw PROVE RInv'
<1> USE DEF RInv
<1>1. Others /\ step' = step /\ device' = device
  <2>1. Happens /\ offerable' = FALSE /\ UNCHANGED <<device, jobs, step, torn>>
    BY DEF Withdraw
  <2>2. events' \in 0..MaxEvents
    BY <2>1, Constants DEF Happens, TypeOK
  <2>3. /\ job' \in [Devices -> Job] /\ other' \in [Devices -> {"none", "open", "done"}]
        /\ torn' \subseteq Devices
    BY <2>1 DEF TypeOK, jobs
  <2> QED BY <2>1, <2>2, <2>3 DEF Others
<1>2. CASE rollout.state \in Running
  BY <1>1, <1>2, StateBeside DEF Withdraw
<1>3. CASE rollout.state \notin Running
  <2>1. rollout' = rollout
    BY <1>3, StepTyped DEF Withdraw, Rollout
  <2> QED BY <1>1, <2>1, JobBeside
<1> QED BY <1>2, <1>3

LEMMA JobActs ==
  ASSUME RInv, UNCHANGED <<rollout, device, offerable, step, torn>>,
         events' = events \/ Happens, NEW d \in Devices,
         \/ other' = other /\ \E j \in Job : job' = [job EXCEPT ![d] = j]
         \/ job' = job /\ \E o \in {"open", "done"} : other' = [other EXCEPT ![d] = o]
  PROVE  RInv'
<1>1. Others
  <2>1. events' \in 0..MaxEvents
    BY Constants DEF TypeOK, RInv, Happens
  <2>2. job' \in [Devices -> Job] /\ other' \in [Devices -> {"none", "open", "done"}]
    BY DEF TypeOK, RInv
  <2> QED BY <2>1, <2>2 DEF Others, TypeOK, RInv
<1> QED BY <1>1, JobBeside

LEMMA DueKeeps == ASSUME RInv, Due PROVE RInv'
<1> USE DEF RInv
<1>1. Others /\ step' = step /\ device' = device /\ rollout' = [rollout EXCEPT !.due = TRUE]
  BY OthersSame DEF Due
<1>2. /\ rollout' \in Rollout /\ rollout'.state = rollout.state
      /\ rollout'.confirmed = rollout.confirmed
  BY <1>1, StepTyped DEF Rollout
<1>3. PhaseOK(rollout)' /\ RunRows' = RunRows
  BY <1>1, <1>2 DEF PhasesOK, PhaseOK, RunRows
<1> QED BY <1>1, <1>2, <1>3, StepTyped, Beside

LEMMA CrashKeeps == ASSUME RInv, Crash PROVE RInv'
<1>1. Others /\ device' = device /\ rollout' = rollout /\ step' = Idle
  BY Happening DEF Crash, RInv, TypeOK
<1> QED BY <1>1, StepTyped, Ended DEF RInv, PhasesOK, PhaseOK

----------------------------------------------------------------------------
\* The invariant.

LEMMA InitHolds == Init => RInv
<1> SUFFICES ASSUME Init PROVE RInv
  OBVIOUS
<1>1. /\ rollout = [state |-> "none", confirmed |-> FALSE, due |-> FALSE]
      /\ device = [d \in Devices |-> [state |-> "pending", canary |-> FALSE]]
      /\ job = [d \in Devices |-> "none"] /\ other = [d \in Devices |-> "none"]
      /\ offerable = TRUE /\ step = Idle /\ torn = {} /\ events = 0
  BY DEF Init, Idle
<1>2. rollout \in Rollout /\ device \in [Devices -> DeviceRow] /\ job \in [Devices -> Job]
      /\ other \in [Devices -> {"none", "open", "done"}]
  BY <1>1 DEF Rollout, DeviceRow, Job
<1>3. TypeOK /\ ~Busy /\ ~StartingNow /\ step.at = "idle"
  BY <1>1, <1>2, IdleTyped, Constants DEF TypeOK, StepRec, Busy, StartingNow
<1>4. RunRows = {}
  BY <1>1 DEF RunRows
<1>5. CopyOK /\ PhasesOK /\ OneCanary /\ CanaryFirst /\ Batches
  BY <1>1, <1>3, <1>4 DEF CopyOK, PhasesOK, PhaseOK, OneCanary, CanaryFirst, Batches
<1> QED BY <1>3, <1>5 DEF RInv

LEMMA EngineKeeps == ASSUME RInv, Engine PROVE RInv'
<1>1. CASE Begin
  BY <1>1, BeginKeeps
<1>2. CASE PauseUnofferable
  <2>1. Others
    BY <1>2, OthersSame DEF PauseUnofferable, RInv
  <2> QED BY <1>2, <2>1, StateBeside DEF PauseUnofferable
<1>3. CASE Settle
  BY <1>3, SettleKeeps
<1>4. CASE SettledAll
  BY <1>4, SettledAllKeeps
<1>5. CASE PauseOnFailure
  BY <1>5, EndKeeps DEF PauseOnFailure, At, Busy
<1>6. CASE CanaryStep
  <2>1. CASE Demote
    BY <2>1, DemoteKeeps
  <2>2. CASE Promote
    BY <2>2, PromoteKeeps
  <2>3. CASE NobodyLeft \/ CanaryLost
    BY <2>3, EndKeeps DEF NobodyLeft, CanaryLost, Deciding, At, Busy
  <2>4. CASE StartCanary
    BY <2>4, StartCanaryKeeps
  <2>5. CASE AwaitCanary \/ Observe
    BY <2>5, WaitKeeps DEF AwaitCanary, Observe
  <2>6. CASE CanaryConfirmed
    BY <2>6, CanaryConfirmedKeeps
  <2>7. CASE Observed
    BY <2>7, ObservedKeeps
  <2> QED BY <1>6, <2>1, <2>2, <2>3, <2>4, <2>5, <2>6, <2>7 DEF CanaryStep
<1>7. CASE BatchStep
  <2>1. CASE BatchUnderWay \/ Hold
    BY <2>1, WaitKeeps DEF BatchUnderWay, Hold
  <2>2. CASE Gap
    BY <2>2, GapKeeps
  <2>3. CASE Complete
    BY <2>3, EndKeeps DEF Complete, Rolling, Deciding, At, Busy
  <2>4. CASE StartBatch
    BY <2>4, StartBatchKeeps
  <2> QED BY <1>7, <2>1, <2>2, <2>3, <2>4 DEF BatchStep
<1>8. CASE Record
  BY <1>8, RecordKeeps
<1>9. CASE Started
  BY <1>9, WaitKeeps DEF Started
<1>10. ASSUME NEW d \in Devices, StartDevice(d) PROVE RInv'
  BY <1>10, StartDeviceKeeps
<1> QED BY <1>1, <1>2, <1>3, <1>4, <1>5, <1>6, <1>7, <1>8, <1>9, <1>10 DEF Engine

LEMMA AdminKeeps == ASSUME RInv, Admin PROVE RInv'
<1>1. CASE Create
  BY <1>1, CreateKeeps
<1>2. CASE Pause
  <2>1. Others
    BY <1>2, Requested DEF Pause
  <2> QED BY <1>2, <2>1, StateBeside DEF Pause
<1>3. CASE Cancel
  BY <1>3, CancelKeeps
<1>4. CASE Withdraw
  BY <1>4, WithdrawKeeps
<1>5. CASE Restore
  <2>1. Others
    BY <1>5, Constants DEF Restore, Happens, Others, TypeOK, RInv, jobs
  <2> QED BY <1>5, <2>1, JobBeside DEF Restore, jobs
<1>6. ASSUME NEW skipFailed \in BOOLEAN, Resume(skipFailed) PROVE RInv'
  BY <1>6, ResumeKeeps
<1>7. ASSUME NEW d \in Devices, UpdateByHand(d) \/ RollBackByHand(d) PROVE RInv'
  BY <1>7, JobActs DEF UpdateByHand, RollBackByHand
<1>8. ASSUME NEW d \in Devices, AbortJob(d) PROVE RInv'
  <2>1. "cancelled" \in Job
    BY DEF Job
  <2> QED BY <1>8, <2>1, JobActs DEF AbortJob
<1> QED BY <1>1, <1>2, <1>3, <1>4, <1>5, <1>6, <1>7, <1>8 DEF Admin

LEMMA NextKeeps == RInv /\ [Next]_vars => RInv'
<1> SUFFICES ASSUME RInv, [Next]_vars PROVE RInv'
  OBVIOUS
<1>1. CASE Engine
  BY <1>1, EngineKeeps
<1>2. CASE Admin
  BY <1>2, AdminKeeps
<1>3. CASE Due
  BY <1>3, DueKeeps
<1>4. CASE Crash
  BY <1>4, CrashKeeps
<1>5. ASSUME NEW d \in Devices, JobLeavesQueue(d) \/ JobEnds(d) \/ OtherEnds(d) PROVE RInv'
  <2>1. {"open", "confirmed", "failed", "expired"} \subseteq Job
    BY DEF Job
  <2> QED BY <1>5, <2>1, JobActs DEF JobLeavesQueue, JobEnds, OtherEnds
<1>6. CASE UNCHANGED vars
  <2>1. UNCHANGED <<rollout, device, step>> /\ Others
    BY <1>6, OthersSame DEF vars, RInv
  <2> QED BY <2>1, JobBeside
<1> QED BY <1>1, <1>2, <1>3, <1>4, <1>5, <1>6 DEF Next

LEMMA RInvAlways == Spec => []RInv
BY InitHolds, NextKeeps, PTL DEF Spec

\* The rollout, its devices, their jobs and the copies of the step under way
\* (advanceRollout) keep their types for any fleet and any batch.
THEOREM TypeOKAlways == Spec => []TypeOK
BY RInvAlways, PTL DEF RInv

\* "canary first", then never more than a batch: for any number of devices and
\* any batch, with admin requests, restarts and jobs between any two saves of
\* a step (settleRunning, startBatch, startDevice).
THEOREM OneBatchAlways == Spec => []OneBatch
<1>1. RInv => OneBatch
  <2> SUFFICES ASSUME RInv PROVE OneBatch
    OBVIOUS
  <2> DEFINE R == {d \in Devices : device[d].state = "running" /\ IsOpen(job[d])}
  <2>1. R \subseteq RunRows
    BY DEF RunRows
  <2>2. Cardinality(R) <= Cardinality(RunRows) /\ Cardinality(R) \in Nat
        /\ Cardinality(RunRows) \in Nat
    BY <2>1, RunFinite
  <2>3. Cardinality(RunRows) <= IF rollout.confirmed THEN BatchSize ELSE 1
    BY Alone DEF RInv, Batches
  <2> HIDE DEF R
  <2>4. Cardinality(R) <= IF rollout.confirmed THEN BatchSize ELSE 1
    BY <2>2, <2>3, Constants
  <2> QED BY <2>4 DEF R, OneBatch
<1> QED BY <1>1, RInvAlways, PTL

----------------------------------------------------------------------------
\* After a failure.

\* A failed device that stops the rollout.
Failing(d) ==
  device[d].state = "failed" /\ d \notin torn /\ (device[d].canary \/ StopOnFailure)

\* The step that settled it goes on to the pause, and the rollout is not
\* resumed before it is gone.
Stopped ==
  /\ \A d \in Devices : Failing(d) => IF Busy THEN step.stop ELSE rollout.state \notin Running
  /\ step.stop => step.at \in {"settle", "decide"}

\* Only a step that has settled it knows of a failed device.
FailedKnown ==
  /\ Busy => /\ step.rollout.state \in Running
             /\ \A d \in Devices : device[d].state = "failed" => step.device[d].state = "failed"
  /\ rollout.state = "none" => \A d \in Devices : device[d].state # "failed"

\* A step starts what it has read as pending, and nothing else runs meanwhile.
StartsPending ==
  StartingNow => \A d \in RunRows \cup step.todo : step.device[d].state = "pending"

FInv == Stopped /\ FailedKnown /\ StartsPending

\* Beside a step nothing fails, and no failure is left in a rollout that runs again.
LEMMA FailedBeside ==
  ASSUME RInv, FInv, step' = step, RunRows' \subseteq RunRows,
         \A d \in Devices : /\ device'[d].state = "failed" =>
                                 device[d].state = "failed" /\ (d \in torn => d \in torn')
                            /\ device'[d].canary = device[d].canary,
         rollout'.state = "none" => rollout.state = "none",
         rollout'.state \in Running =>
           rollout.state \in Running \/ \A d \in Devices : device'[d].state # "failed"
  PROVE  FInv'
<1>1. Busy' = Busy /\ StartingNow' = StartingNow
  BY DEF Busy, StartingNow
<1>2. Stopped'
  BY <1>1 DEF FInv, Stopped, Failing
<1>3. FailedKnown'
  BY <1>1 DEF FInv, FailedKnown
<1>4. StartsPending'
  BY <1>1 DEF FInv, StartsPending
<1> QED BY <1>2, <1>3, <1>4 DEF FInv

\* A step ends with nothing failed, or with the rollout paused.
LEMMA FailedEnded ==
  ASSUME RInv, FInv, Busy, step' = Idle,
         \A d \in Devices : device'[d].state = device[d].state,
         \A d \in Devices : device[d].state = "failed" => device'[d].canary = device[d].canary,
         rollout'.state # "none", torn \subseteq torn',
         \/ ~step.stop \/ rollout'.state \notin Running
         \/ \A d \in Devices : device[d].state = "failed" => d \in torn'
  PROVE  FInv'
<1>1. ~Busy' /\ ~StartingNow' /\ step'.stop = FALSE
  BY IdleTyped DEF Busy, StartingNow, Idle
<1>2. ASSUME NEW d \in Devices, Failing(d)' PROVE rollout'.state \notin Running
  <2>1. /\ device'[d].state = "failed" /\ d \notin torn'
        /\ device'[d].canary \/ StopOnFailure
    BY <1>2 DEF Failing
  <2>2. device[d].state = "failed" /\ d \notin torn /\ device'[d].canary = device[d].canary
    BY <2>1
  <2>3. Failing(d)
    BY <2>1, <2>2 DEF Failing
  <2>4. step.stop
    BY <2>3 DEF FInv, Stopped
  <2> QED BY <2>1, <2>2, <2>4
<1>3. Stopped'
  BY <1>1, <1>2 DEF Stopped
<1>4. FailedKnown' /\ StartsPending'
  BY <1>1 DEF FailedKnown, StartsPending
<1> QED BY <1>3, <1>4 DEF FInv

\* A step that starts devices has nothing failed and fails nothing.
LEMMA FailedStarting ==
  ASSUME RInv, FInv, Busy, ~step.stop, rollout' = rollout, torn' = torn, StartingNow',
         step'.stop = step.stop,
         step'.rollout = step.rollout, step'.device = step.device,
         \A d \in Devices : /\ device'[d].state = "failed" => device[d].state = "failed"
                            /\ device'[d].canary = device[d].canary,
         \A d \in RunRows' \cup step'.todo : step.device[d].state = "pending"
  PROVE  FInv'
<1>1. Busy'
  BY DEF Busy, StartingNow
<1>2. Stopped'
  BY <1>1 DEF FInv, Stopped, Failing
<1>3. FailedKnown' /\ StartsPending'
  BY <1>1 DEF FInv, FailedKnown, StartsPending
<1> QED BY <1>2, <1>3 DEF FInv

\* A step goes on, before it starts anything, with the rows it saved.
LEMMA FailedGoesOn ==
  ASSUME RInv, FInv, Busy, Busy', ~StartingNow', torn' = torn,
         step'.rollout.state \in Running,
         rollout'.state # "none", step'.stop => step'.at \in {"settle", "decide"},
         step.stop => step'.stop,
         \A d \in Devices :
           /\ device'[d].state = "failed" =>
                \/ device[d].state = "failed" /\ step'.device[d].state = step.device[d].state
                \/ step'.device[d].state = "failed" /\ (Failing(d)' => step'.stop)
           /\ device'[d].canary => device[d].canary
  PROVE  FInv'
<1>1. ASSUME NEW d \in Devices, Failing(d)' PROVE step'.stop
  BY <1>1 DEF FInv, Stopped, Failing
<1>2. Stopped'
  BY <1>1 DEF Stopped
<1>3. FailedKnown' /\ StartsPending'
  BY DEF FInv, FailedKnown, StartsPending
<1> QED BY <1>2, <1>3 DEF FInv

----------------------------------------------------------------------------
\* Every step keeps it.

LEMMA EndFails ==
  ASSUME RInv, FInv, Busy, NEW s \in {"paused", "completed"}, End(s) PROVE FInv'
<1> DEFINE new == [step.rollout EXCEPT !.state = s]
<1>1. step.rollout \in Rollout /\ rollout.state # "none" /\ step.rollout.state \in Running
  BY StepTyped DEF RInv, StepRec, CopyOK, FInv, FailedKnown
<1>2. new \in Rollout /\ new.state = s
  BY <1>1, WithState DEF States, OpenStates
<1>3. SaveRollout(new) /\ step' = Idle /\ device' = device /\ torn' = torn
  BY DEF End
<1> HIDE DEF new
<1>4. rollout'.state = s
  BY <1>1, <1>2, <1>3, RolloutSaved DEF RInv, Running
<1>5. rollout'.state # "none" /\ rollout'.state \notin Running
  BY <1>4 DEF Running
<1> QED BY <1>3, <1>5, FailedEnded

LEMMA WaitFails == ASSUME RInv, FInv, Busy, ~step.stop, Wait PROVE FInv'
BY FailedEnded DEF Wait, RInv, CopyOK

LEMMA SettleFails == ASSUME RInv, FInv, Settle PROVE FInv'
<1> DEFINE d == Min(step.todo)
           todo == step.todo \ {d}
           new == [step.device[d] EXCEPT !.state = Verdict(job[d])]
           stop == step.stop \/ Stops(new)
<1>1. /\ step.at = "settle" /\ step.todo # {} /\ step.todo \in SUBSET Devices /\ step \in StepRec
      /\ rollout' = rollout /\ torn' = torn /\ Busy
  BY StepTyped DEF Settle, At, StepRec, Busy, RInv
<1>2. d \in step.todo /\ d \in Devices /\ todo \in SUBSET Devices
  BY <1>1, MinIn
<1>3. /\ step.device[d] \in DeviceRow /\ step.device[d].state = "running"
      /\ step.device[d].canary = device[d].canary
  BY <1>1, <1>2 DEF StepRec, CopyOK, RInv
<1>4. \/ step' = [step EXCEPT !.todo = todo] /\ device' = device
      \/ /\ SetDevice(d, new)
         /\ step' = [step EXCEPT !.todo = todo, !.settled = TRUE, !.device = Now(d, new),
                                 !.stop = stop]
  BY DEF Settle
<1>5. Verdict(job[d]) \in DeviceStates \ {"running"}
  BY DEF Verdict, DeviceStates
<1>6. new \in DeviceRow /\ new.state # "running" /\ new.canary = step.device[d].canary
  BY <1>3, <1>5, WithState
<1>7. Now(d, new) \in [Devices -> DeviceRow] /\ Now(d, new)[d] = new
      /\ \A e \in Devices \ {d} : Now(d, new)[e] = step.device[e]
  BY <1>2, <1>6, NowTyped DEF RInv
<1>8. /\ stop \in BOOLEAN /\ (step.stop => stop)
      /\ new.state = "failed" /\ (new.canary \/ StopOnFailure) => stop
  BY <1>1 DEF Stops, StepRec
<1>9. SetDevice(d, new) =>
        /\ \A e \in Devices \ {d} : device'[e] = device[e]
        /\ device'[d].state = new.state /\ device'[d].canary = device[d].canary
  BY <1>2, <1>3, <1>6, DeviceSaved DEF RInv
<1> HIDE DEF d, todo, new, stop
<1>10. rollout'.state # "none" /\ step.rollout.state \in Running
  BY <1>1 DEF RInv, CopyOK, FInv, FailedKnown
<1>11. CASE step' = [step EXCEPT !.todo = todo] /\ device' = device
  <2>1. /\ step'.at = "settle" /\ step'.rollout = step.rollout /\ step'.stop = step.stop
        /\ step'.device = step.device
    BY <1>1, <1>2, <1>11 DEF StepRec
  <2>2. Busy' /\ ~StartingNow'
    BY <2>1 DEF Busy, StartingNow
  <2> QED BY <1>1, <1>10, <1>11, <2>1, <2>2, FailedGoesOn
<1>12. CASE /\ SetDevice(d, new)
            /\ step' = [step EXCEPT !.todo = todo, !.settled = TRUE, !.device = Now(d, new),
                                    !.stop = stop]
  <2>1. /\ step'.at = "settle" /\ step'.rollout = step.rollout /\ step'.stop = stop
        /\ step'.device = Now(d, new)
    BY <1>1, <1>2, <1>7, <1>8, <1>12 DEF StepRec
  <2>2. Busy' /\ ~StartingNow'
    BY <2>1 DEF Busy, StartingNow
  <2>3. ASSUME NEW e \in Devices
        PROVE  /\ device'[e].state = "failed" =>
                    \/ device[e].state = "failed" /\ step'.device[e].state = step.device[e].state
                    \/ step'.device[e].state = "failed" /\ (Failing(e)' => step'.stop)
               /\ device'[e].canary => device[e].canary
    <3>1. CASE e = d
      BY <1>3, <1>6, <1>7, <1>8, <1>9, <1>12, <2>1, <3>1 DEF Failing
    <3>2. CASE e # d
      BY <1>7, <1>9, <1>12, <2>1, <3>2
    <3> QED BY <3>1, <3>2
  <2> QED BY <1>1, <1>8, <1>10, <2>1, <2>2, <2>3, FailedGoesOn
<1> QED BY <1>4, <1>11, <1>12

\* The step's own copy and its place, when it is not starting anything.
LEMMA SettledAllFails == ASSUME RInv, FInv, SettledAll PROVE FInv'
<1>1. step \in StepRec /\ Busy /\ rollout.state # "none" /\ step.rollout.state \in Running
  BY StepTyped DEF SettledAll, At, Busy, RInv, CopyOK, FInv, FailedKnown
<1>2. /\ step'.at = "decide" /\ step'.rollout = step.rollout /\ step'.stop = step.stop
      /\ step'.device = step.device /\ device' = device /\ rollout' = rollout /\ torn' = torn
  BY <1>1 DEF SettledAll, StepRec
<1>3. Busy' /\ ~StartingNow'
  BY <1>2 DEF Busy, StartingNow
<1> QED BY <1>1, <1>2, <1>3, FailedGoesOn

LEMMA BeginFails == ASSUME RInv, FInv, Begin PROVE FInv'
<1> DEFINE todo == {d \in Devices : device[d].state = "running"}
<1>1. /\ step' = [Idle EXCEPT !.at = "settle", !.rollout = rollout, !.device = device,
                               !.todo = todo]
      /\ device' = device /\ rollout' = rollout /\ torn' = torn
      /\ rollout.state \in Running /\ ~Busy
  BY DEF Begin, Busy, At
<1> HIDE DEF todo
<1>2. /\ step'.at = "settle" /\ step'.rollout = rollout /\ step'.device = device
      /\ step'.stop = FALSE
  BY <1>1, IdleTyped DEF Idle
<1>3. Busy' /\ ~StartingNow' /\ rollout'.state # "none"
  BY <1>1, <1>2 DEF Busy, StartingNow, Running
<1>4. Stopped'
  BY <1>1, <1>2, <1>3 DEF FInv, Stopped, Failing
<1>5. FailedKnown' /\ StartsPending'
  BY <1>1, <1>2, <1>3 DEF FailedKnown, StartsPending
<1> QED BY <1>4, <1>5 DEF FInv

LEMMA DemoteFails == ASSUME RInv, FInv, Demote PROVE FInv'
<1> DEFINE d == Min(Canaries)  new == [step.device[d] EXCEPT !.canary = FALSE]
<1>1. /\ step.at = "decide" /\ step \in StepRec /\ rollout' = rollout /\ torn' = torn /\ Busy /\ ~step.stop
      /\ Canaries # {} /\ Canaries \in SUBSET Devices
      /\ rollout.state # "none" /\ step.rollout.state \in Running
  BY StepTyped DEF Demote, Deciding, At, Busy, Canaries, RInv, CopyOK, FInv, FailedKnown
<1>2. d \in Devices /\ step.device[d] \in DeviceRow /\ step.device[d].canary
  BY <1>1, MinIn DEF StepRec, Canaries
<1>3. new \in DeviceRow /\ new.state = step.device[d].state /\ new.canary = FALSE
  BY <1>2, WithState
<1>4. SetDevice(d, new) /\ step' = [step EXCEPT !.at = "promote", !.device = Now(d, new)]
  BY DEF Demote
<1>5. /\ Now(d, new) \in [Devices -> DeviceRow] /\ Now(d, new)[d] = new
      /\ \A e \in Devices \ {d} : Now(d, new)[e] = step.device[e]
  BY <1>2, <1>3, NowTyped DEF RInv
<1> HIDE DEF d, new
<1>6. /\ \A e \in Devices \ {d} : device'[e] = device[e]
      /\ device'[d].state = device[d].state /\ device'[d].canary = FALSE
  <2>1. new.canary # step.device[d].canary
    BY <1>2, <1>3
  <2> QED BY <1>2, <1>3, <1>4, <2>1, DeviceSaved DEF RInv
<1>7. /\ step'.at = "promote" /\ step'.rollout = step.rollout /\ step'.stop = step.stop
      /\ step'.device = Now(d, new)
  BY <1>1, <1>4, <1>5 DEF StepRec
<1>8. Busy' /\ ~StartingNow'
  BY <1>7 DEF Busy, StartingNow
<1>9. \A e \in Devices : /\ step'.device[e].state = step.device[e].state
                         /\ device'[e].state = device[e].state
                         /\ device'[e].canary => device[e].canary
  BY <1>2, <1>3, <1>5, <1>6, <1>7
<1> QED BY <1>1, <1>7, <1>8, <1>9, FailedGoesOn

LEMMA PromoteFails == ASSUME RInv, FInv, Promote PROVE FInv'
<1> DEFINE d == Min(Among("pending"))  new == [step.device[d] EXCEPT !.canary = TRUE]
<1>1. /\ step' = Idle /\ step \in StepRec /\ rollout' = rollout /\ torn' = torn /\ SetDevice(d, new)
      /\ Busy /\ ~step.stop /\ Among("pending") # {} /\ Among("pending") \in SUBSET Devices
      /\ rollout.state # "none"
  BY StepTyped DEF Promote, Deciding, At, Busy, Among, RInv, CopyOK, FInv, Stopped
<1>2. d \in Devices /\ step.device[d].state = "pending" /\ step.device[d] \in DeviceRow
  BY <1>1, MinIn DEF Among, StepRec
<1>3. new \in DeviceRow /\ new.state = step.device[d].state
  BY <1>2, WithState
<1> HIDE DEF d, new
<1>4. /\ \A e \in Devices \ {d} : device'[e] = device[e]
      /\ device'[d].state = device[d].state
  BY <1>1, <1>2, <1>3, DeviceSaved DEF RInv
<1>5. device[d].state # "failed"
  BY <1>1, <1>2 DEF FInv, FailedKnown
<1> QED BY <1>1, <1>4, <1>5, FailedEnded

\* The gap starts, or the batches do.
LEMMA RolloutFails ==
  ASSUME RInv, FInv, step.at = "decide", ~step.stop, device' = device, torn' = torn, NEW new \in Rollout,
         new.state \in Running, SaveRollout(new), NEW b \in BOOLEAN,
         step' = [step EXCEPT !.settled = b, !.rollout = new]
  PROVE  FInv'
<1>1. Busy /\ step \in StepRec /\ rollout.state # "none"
  BY StepTyped DEF Busy, RInv, CopyOK
<1>2. /\ step'.at = "decide" /\ step'.rollout = new /\ step'.stop = step.stop
      /\ step'.device = step.device
  BY <1>1 DEF StepRec
<1>3. rollout'.state # "none" /\ Busy' /\ ~StartingNow'
  BY <1>1, <1>2, RolloutSaved DEF RInv, Running, Busy, StartingNow
<1> QED BY <1>1, <1>2, <1>3, FailedGoesOn

LEMMA CanaryConfirmedFails == ASSUME RInv, FInv, CanaryConfirmed PROVE FInv'
<1>1. PICK observe \in BOOLEAN :
        LET new == [state |-> "observing", confirmed |-> TRUE, due |-> ~observe] IN
        SaveRollout(new) /\ step' = IF observe THEN Idle ELSE [step EXCEPT !.rollout = new]
  BY DEF CanaryConfirmed
<1> DEFINE new == [state |-> "observing", confirmed |-> TRUE, due |-> ~observe]
<1>2. /\ SaveRollout(new) /\ device' = device /\ ~step.stop /\ torn' = torn
      /\ step' = IF observe THEN Idle ELSE [step EXCEPT !.rollout = new]
      /\ step.rollout.state = "canary" /\ step.at = "decide" /\ Busy
  BY <1>1 DEF CanaryConfirmed, Deciding, At, Busy
<1>3. new \in Rollout /\ new.state = "observing" /\ new.state \in Running
  BY DEF Rollout, OpenStates, Running
<1> HIDE DEF new
<1>4. rollout'.state = "observing"
  BY <1>2, <1>3, RolloutSaved DEF RInv
<1>5. CASE observe
  BY <1>2, <1>4, <1>5, FailedEnded
<1>6. CASE ~observe
  <2>1. step \in StepRec
    BY StepTyped DEF RInv
  <2>2. step' = [step EXCEPT !.settled = step.settled, !.rollout = new] /\ step.settled \in BOOLEAN
    BY <1>2, <1>6, <2>1 DEF StepRec
  <2> QED BY <1>2, <1>3, <2>2, RolloutFails
<1> QED BY <1>5, <1>6

LEMMA ObservedFails == ASSUME RInv, FInv, Observed PROVE FInv'
<1> DEFINE new == [step.rollout EXCEPT !.state = "rolling", !.due = TRUE]
<1>1. /\ step.at = "decide" /\ ~step.stop /\ SaveRollout(new) /\ device' = device /\ torn' = torn
      /\ step' = [step EXCEPT !.rollout = new]
  BY DEF Observed, Deciding, At
<1>2. step \in StepRec
  BY StepTyped DEF RInv
<1>3. new \in Rollout /\ new.state \in Running
  BY <1>2 DEF StepRec, Rollout, OpenStates, Running
<1> HIDE DEF new
<1>4. step' = [step EXCEPT !.settled = step.settled, !.rollout = new] /\ step.settled \in BOOLEAN
  BY <1>1, <1>2 DEF StepRec
<1> QED BY <1>1, <1>3, <1>4, RolloutFails

LEMMA GapFails == ASSUME RInv, FInv, Gap PROVE FInv'
<1> DEFINE new == [step.rollout EXCEPT !.due = FALSE]
<1>1. /\ step.at = "decide" /\ ~step.stop /\ SaveRollout(new) /\ device' = device /\ torn' = torn
      /\ step' = [step EXCEPT !.settled = FALSE, !.rollout = new]
  BY DEF Gap, Rolling, Deciding, At
<1>2. step.rollout \in Rollout /\ step.rollout.state \in Running
  BY <1>1, StepTyped DEF RInv, StepRec, FInv, FailedKnown, Busy
<1>3. new \in Rollout /\ new.state \in Running
  BY <1>2 DEF Rollout
<1> HIDE DEF new
<1> QED BY <1>1, <1>3, RolloutFails

----------------------------------------------------------------------------
\* Devices are started.

LEMMA StartCanaryFails == ASSUME RInv, FInv, StartCanary PROVE FInv'
<1>1. /\ step.at = "decide" /\ ~step.stop /\ step' = [step EXCEPT !.at = "start", !.todo = Canaries]
      /\ rollout' = rollout /\ device' = device /\ torn' = torn /\ step.rollout.state = "canary"
      /\ step \in StepRec /\ Busy /\ ~StartingNow /\ ~CanaryGone /\ Canaries \in SUBSET Devices
      /\ step.device[Min(Canaries)].state = "pending"
  BY StepTyped DEF StartCanary, Deciding, At, RInv, Busy, StartingNow, Canaries
<1>2. /\ step'.at = "start" /\ step'.todo = Canaries /\ step'.rollout = step.rollout
      /\ step'.device = step.device /\ step'.stop = step.stop
  BY <1>1 DEF StepRec
<1>3. Min(Canaries) \in Canaries
  BY <1>1, MinIn DEF CanaryGone
<1>4. \A d \in Canaries : d = Min(Canaries)
  BY <1>1, <1>3 DEF Canaries, RInv, CopyOK, OneCanary
<1>5. RunRows \subseteq Canaries /\ RunRows' = RunRows
  BY <1>1 DEF RInv, CopyOK, PhasesOK, PhaseOK, CanaryFirst, RunRows, Canaries
<1>6. \A d \in RunRows' \cup step'.todo : step.device[d].state = "pending"
  BY <1>1, <1>2, <1>4, <1>5
<1>7. StartingNow'
  BY <1>2 DEF StartingNow
<1> QED BY <1>1, <1>2, <1>6, <1>7, FailedStarting

LEMMA StartBatchFails == ASSUME RInv, FInv, StartBatch PROVE FInv'
<1>1. /\ step.at = "decide" /\ ~step.stop
      /\ step' = [step EXCEPT !.at = "start", !.todo = Among("pending")]
      /\ rollout' = rollout /\ device' = device /\ torn' = torn
      /\ step \in StepRec /\ Busy /\ ~StartingNow
      /\ Among("running") = {} /\ Among("pending") \in SUBSET Devices
  BY StepTyped DEF StartBatch, Rolling, Deciding, At, RInv, Busy, StartingNow, Among
<1>2. /\ step'.at = "start" /\ step'.todo = Among("pending") /\ step'.rollout = step.rollout
      /\ step'.device = step.device /\ step'.stop = step.stop
  BY <1>1 DEF StepRec
<1>3. RunRows' = {}
  BY <1>1 DEF RInv, CopyOK, RunRows, Among
<1>4. \A d \in RunRows' \cup step'.todo : step.device[d].state = "pending"
  BY <1>2, <1>3 DEF Among
<1>5. StartingNow'
  BY <1>2 DEF StartingNow
<1> QED BY <1>1, <1>2, <1>4, <1>5, FailedStarting

\* The first device of the list is dealt with: skipped, passed over or started.
LEMMA NextStarts ==
  ASSUME RInv, FInv, StartingNow, rollout' = rollout, torn' = torn, StartingNow', step'.stop = step.stop,
         step'.rollout = step.rollout, step'.device = step.device, step'.todo \subseteq step.todo,
         NEW d \in step.todo, NEW new \in DeviceRow, SetDevice(d, new) \/ device' = device,
         new.state \in {"running", "skipped"}, new.canary = step.device[d].canary
  PROVE  FInv'
<1>1. d \in Devices /\ step.device[d].state = "pending" /\ Busy /\ ~step.stop
  BY StepTyped DEF RInv, StepRec, FInv, StartsPending, StartingNow, Stopped, Busy
<1>2. /\ \A e \in Devices \ {d} : device'[e] = device[e]
      /\ device'[d].state \in {new.state, device[d].state} /\ device'[d].canary = device[d].canary
  BY <1>1, DeviceSaved DEF RInv, CopyOK
<1>3. \A e \in Devices : /\ device'[e].state = "failed" => device[e].state = "failed"
                         /\ device'[e].canary = device[e].canary
  BY <1>1, <1>2
<1>4. RunRows' \subseteq RunRows \cup {d}
  BY <1>2 DEF RunRows
<1>5. \A e \in RunRows' \cup step'.todo : step.device[e].state = "pending"
  BY <1>4 DEF FInv, StartsPending
<1> QED BY <1>1, <1>3, <1>5, FailedStarting

LEMMA StartDeviceFails ==
  ASSUME RInv, FInv, NEW d \in Devices, StartDevice(d) \/ (Record /\ d = Min(step.todo)) PROVE FInv'
<1> DEFINE new(s) == [step.device[d] EXCEPT !.state = s]
<1>1. /\ StartingNow /\ step.todo # {} /\ step.todo \in SUBSET Devices /\ step \in StepRec
      /\ rollout' = rollout /\ torn' = torn /\ d = Min(step.todo)
  BY StepTyped DEF StartDevice, SkipDevice, PassOver, Adopt, StartJob, Record, Starting, At,
                   StartingNow, StepRec, RInv, Batches
<1>2. d \in step.todo
  BY <1>1, MinIn
<1>3. /\ SetDevice(d, new("running")) \/ SetDevice(d, new("skipped")) \/ device' = device
      /\ step' \in {Left, [Left EXCEPT !.started = @ + 1], [step EXCEPT !.at = "record"],
                    [Left EXCEPT !.at = "start", !.started = @ + 1]}
  BY <1>1 DEF StartDevice, SkipDevice, PassOver, Adopt, StartJob, Record
<1>4. /\ step'.at \in {step.at, "start", "record"} /\ step'.stop = step.stop
      /\ step'.rollout = step.rollout /\ step'.device = step.device
      /\ step'.todo \subseteq step.todo
  <2>1. /\ Left.at = step.at /\ Left.stop = step.stop /\ Left.rollout = step.rollout
        /\ Left.device = step.device /\ Left.todo \subseteq step.todo
        /\ DOMAIN Left = DOMAIN step
    BY <1>1 DEF Left, StepRec
  <2> HIDE DEF Left
  <2>2. {"at", "started"} \subseteq DOMAIN step
    BY <1>1 DEF StepRec
  <2>3. CASE step' = Left
    BY <2>1, <2>3
  <2>4. CASE step' = [step EXCEPT !.at = "record"]
    BY <1>1, <2>4 DEF StepRec
  <2>5. CASE step' = [Left EXCEPT !.started = @ + 1]
    BY <2>1, <2>2, <2>5
  <2>6. CASE step' = [Left EXCEPT !.at = "start", !.started = @ + 1]
    BY <2>1, <2>2, <2>6
  <2> QED BY <1>3, <2>3, <2>4, <2>5, <2>6
<1>5. StartingNow'
  BY <1>1, <1>4 DEF StartingNow
<1>6. step.device[d] \in DeviceRow
  BY <1>1 DEF StepRec
<1>7. \A s \in {"running", "skipped"} :
        new(s) \in DeviceRow /\ new(s).state = s /\ new(s).canary = step.device[d].canary
  <2>1. {"running", "skipped"} \subseteq DeviceStates
    BY DEF DeviceStates
  <2> QED BY <1>6, <2>1, WithState
<1> HIDE DEF new
<1>8. CASE SetDevice(d, new("running")) \/ device' = device
  BY <1>1, <1>2, <1>4, <1>5, <1>7, <1>8, NextStarts
<1>9. CASE SetDevice(d, new("skipped"))
  BY <1>1, <1>2, <1>4, <1>5, <1>7, <1>9, NextStarts
<1> QED BY <1>3, <1>8, <1>9

----------------------------------------------------------------------------
\* The admin, the jobs, time and restarts.

LEMMA CreateFails == ASSUME RInv, FInv, Create PROVE FInv'
<1>1. /\ rollout.state = "none" /\ ~Busy /\ step' = step
      /\ device' = [device EXCEPT ![1].canary = TRUE]
  BY DEF Create, At, Busy
<1>2. 1 \in Devices /\ device \in [Devices -> DeviceRow]
  BY Constants, StepTyped DEF RInv
<1>3. \A d \in Devices : device'[d].state = device[d].state
  BY <1>1, <1>2 DEF DeviceRow
<1>4. \A d \in Devices : device'[d].state # "failed"
  BY <1>1, <1>3 DEF FInv, FailedKnown
<1>5. ~Busy' /\ ~StartingNow' /\ step'.stop = step.stop /\ step'.at = step.at
  BY <1>1 DEF Busy, StartingNow
<1>6. Stopped'
  BY <1>4, <1>5 DEF FInv, Stopped, Failing
<1>7. FailedKnown' /\ StartsPending'
  BY <1>4, <1>5 DEF FailedKnown, StartsPending
<1> QED BY <1>6, <1>7 DEF FInv

LEMMA ResumeFails ==
  ASSUME RInv, FInv, NEW skipFailed \in BOOLEAN, Resume(skipFailed) PROVE FInv'
<1> DEFINE to == IF skipFailed THEN "skipped" ELSE "pending"
<1>1. /\ step' = step /\ rollout.state = "paused"
      /\ device' = [d \in Devices |-> IF device[d].state = "failed"
                                    THEN [device[d] EXCEPT !.state = to] ELSE device[d]]
  BY DEF Resume
<1>2. to \in DeviceStates \ {"running", "failed"}
  BY DEF DeviceStates
<1> HIDE DEF to
<1>3. ASSUME NEW d \in Devices
      PROVE  /\ device'[d].canary = device[d].canary /\ device'[d].state # "failed"
             /\ device'[d].state = "running" => device[d].state = "running"
  <2>1. device[d] \in DeviceRow
    BY StepTyped DEF RInv
  <2>2. CASE device[d].state = "failed"
    BY <1>1, <1>2, <2>1, <2>2, WithState
  <2>3. CASE device[d].state # "failed"
    BY <1>1, <2>1, <2>3
  <2> QED BY <2>2, <2>3
<1>4. RunRows' \subseteq RunRows
  BY <1>3 DEF RunRows
<1>5. rollout'.state # "none"
  <2>1. rollout' = [rollout EXCEPT !.state = IF CanaryPassed THEN "rolling" ELSE "canary",
                                   !.due = TRUE] /\ rollout \in Rollout
    BY StepTyped DEF Resume, RInv
  <2> QED BY <2>1 DEF Rollout
<1> QED BY <1>1, <1>3, <1>4, <1>5, FailedBeside

LEMMA CancelFails == ASSUME RInv, FInv, Cancel PROVE FInv'
<1> DEFINE queued == {d \in Devices : device[d].state = "running" /\ job[d] = "queued"}
<1>1. /\ step' = step /\ torn' = torn /\ rollout' = [rollout EXCEPT !.state = "cancelled"]
      /\ device' = [d \in Devices |->
                      IF d \in queued \/ device[d].state = "pending"
                      THEN [device[d] EXCEPT !.state = "skipped"] ELSE device[d]]
  BY DEF Cancel
<1> HIDE DEF queued
<1>2. ASSUME NEW d \in Devices
      PROVE  /\ device'[d].canary = device[d].canary
             /\ device'[d].state \in {"skipped", device[d].state}
  <2>1. /\ [device[d] EXCEPT !.state = "skipped"].state = "skipped"
        /\ [device[d] EXCEPT !.state = "skipped"].canary = device[d].canary
    BY StepTyped, WithState DEF DeviceStates, RInv
  <2>2. device'[d] \in {[device[d] EXCEPT !.state = "skipped"], device[d]}
    BY <1>1
  <2> QED BY <2>1, <2>2
<1>3. rollout'.state = "cancelled"
  BY <1>1, StepTyped DEF RInv, Rollout
<1>4. RunRows' \subseteq RunRows
  BY <1>2 DEF RunRows
<1> QED BY <1>1, <1>2, <1>3, <1>4, FailedBeside DEF Running

\* The rollout stops or goes on as it was, its rows stay.
LEMMA RowsStay ==
  ASSUME RInv, FInv, step' = step, device' = device, torn' = torn,
         rollout'.state \in {rollout.state, "paused"}
  PROVE  FInv'
<1>1. RunRows' = RunRows
  BY DEF RunRows
<1> QED BY <1>1, FailedBeside DEF Running

LEMMA CrashFails == ASSUME RInv, FInv, Crash PROVE FInv'
<1>1. /\ Busy /\ step' = Idle /\ device' = device /\ rollout' = rollout
      /\ torn' = IF step.stop THEN torn \cup {d \in Devices : device[d].state = "failed"} ELSE torn
  BY DEF Crash, At, Busy
<1> QED BY <1>1, FailedEnded DEF RInv, CopyOK

LEMMA InitFails == Init => FInv
<1> SUFFICES ASSUME Init PROVE FInv
  OBVIOUS
<1>1. /\ device = [d \in Devices |-> [state |-> "pending", canary |-> FALSE]]
      /\ step = Idle
  BY DEF Init, Idle
<1>2. ~Busy /\ ~StartingNow /\ step.stop = FALSE /\ \A d \in Devices : device[d].state = "pending"
  BY <1>1 DEF Idle, Busy, StartingNow
<1> QED BY <1>2 DEF FInv, Stopped, FailedKnown, StartsPending, Failing

LEMMA EngineFails == ASSUME RInv, FInv, Engine PROVE FInv'
<1> USE DEF Deciding, At, Busy
<1>1. CASE Begin
  BY <1>1, BeginFails
<1>2. CASE PauseUnofferable
  <2>1. /\ rollout' = [rollout EXCEPT !.state = "paused"] /\ device' = device /\ step' = step
        /\ torn' = torn
    BY <1>2 DEF PauseUnofferable
  <2>2. rollout'.state = "paused"
    BY <2>1, StepTyped DEF RInv, Rollout
  <2> QED BY <2>1, <2>2, RowsStay
<1>3. CASE Settle
  BY <1>3, SettleFails
<1>4. CASE SettledAll
  BY <1>4, SettledAllFails
<1>5. CASE PauseOnFailure
  BY <1>5, EndFails DEF PauseOnFailure
<1>6. CASE CanaryStep
  <2>1. CASE Demote
    BY <2>1, DemoteFails
  <2>2. CASE Promote
    BY <2>2, PromoteFails
  <2>3. CASE NobodyLeft \/ CanaryLost
    BY <2>3, EndFails DEF NobodyLeft, CanaryLost
  <2>4. CASE StartCanary
    BY <2>4, StartCanaryFails
  <2>5. CASE AwaitCanary \/ Observe
    BY <2>5, WaitFails DEF AwaitCanary, Observe
  <2>6. CASE CanaryConfirmed
    BY <2>6, CanaryConfirmedFails
  <2>7. CASE Observed
    BY <2>7, ObservedFails
  <2> QED BY <1>6, <2>1, <2>2, <2>3, <2>4, <2>5, <2>6, <2>7 DEF CanaryStep
<1>7. CASE BatchStep
  <2>1. CASE BatchUnderWay \/ Hold
    BY <2>1, WaitFails DEF BatchUnderWay, Hold, Rolling
  <2>2. CASE Gap
    BY <2>2, GapFails
  <2>3. CASE Complete
    BY <2>3, EndFails DEF Complete, Rolling
  <2>4. CASE StartBatch
    BY <2>4, StartBatchFails
  <2> QED BY <1>7, <2>1, <2>2, <2>3, <2>4 DEF BatchStep
<1>8. CASE Record
  <2>1. Min(step.todo) \in Devices
    BY <1>8, StepTyped, MinIn DEF Record, RInv, Batches, StepRec
  <2> QED BY <1>8, <2>1, StartDeviceFails
<1>9. CASE Started
  BY <1>9, WaitFails DEF Started, FInv, Stopped
<1>10. ASSUME NEW d \in Devices, StartDevice(d) PROVE FInv'
  BY <1>10, StartDeviceFails
<1> QED BY <1>1, <1>2, <1>3, <1>4, <1>5, <1>6, <1>7, <1>8, <1>9, <1>10 DEF Engine

LEMMA AdminFails == ASSUME RInv, FInv, Admin PROVE FInv'
<1>1. CASE Create
  BY <1>1, CreateFails
<1>2. CASE Pause \/ Withdraw
  <2>1. /\ device' = device /\ step' = step /\ torn' = torn
        /\ rollout' \in {[rollout EXCEPT !.state = "paused"],
                         [rollout EXCEPT !.state = rollout.state]}
    BY <1>2 DEF Pause, Withdraw
  <2>2. rollout'.state \in {rollout.state, "paused"}
    BY <2>1, StepTyped DEF RInv, Rollout
  <2> QED BY <2>1, <2>2, RowsStay
<1>3. CASE Cancel
  BY <1>3, CancelFails
<1>4. CASE Restore
  BY <1>4, RowsStay DEF Restore
<1>5. ASSUME NEW skipFailed \in BOOLEAN, Resume(skipFailed) PROVE FInv'
  BY <1>5, ResumeFails
<1>6. ASSUME NEW d \in Devices, UpdateByHand(d) \/ RollBackByHand(d) \/ AbortJob(d) PROVE FInv'
  BY <1>6, RowsStay DEF UpdateByHand, RollBackByHand, AbortJob
<1> QED BY <1>1, <1>2, <1>3, <1>4, <1>5, <1>6 DEF Admin

LEMMA NextFails == RInv /\ FInv /\ [Next]_vars => FInv'
<1> SUFFICES ASSUME RInv, FInv, [Next]_vars PROVE FInv'
  OBVIOUS
<1>1. CASE Engine
  BY <1>1, EngineFails
<1>2. CASE Admin
  BY <1>2, AdminFails
<1>3. CASE Due
  <2>1. rollout' = [rollout EXCEPT !.due = TRUE] /\ rollout \in Rollout
    BY <1>3, StepTyped DEF Due, RInv
  <2>2. rollout'.state = rollout.state
    BY <2>1 DEF Rollout
  <2> QED BY <1>3, <2>2, RowsStay DEF Due
<1>4. CASE Crash
  BY <1>4, CrashFails
<1>5. ASSUME NEW d \in Devices, JobLeavesQueue(d) \/ JobEnds(d) \/ OtherEnds(d) PROVE FInv'
  BY <1>5, RowsStay DEF JobLeavesQueue, JobEnds, OtherEnds
<1>6. CASE UNCHANGED vars
  BY <1>6, RowsStay DEF vars
<1> QED BY <1>1, <1>2, <1>3, <1>4, <1>5, <1>6 DEF Next

\* Only a step that starts a device makes a job of the rollout.
LEMMA WhoStarts ==
  ASSUME TypeOK, [Next]_vars, NEW d \in Devices, Starts(d) PROVE StartJob(d)
<1>1. job'[d] \in {"queued", "open"} /\ job[d] \notin {"queued", "open"}
  BY DEF Starts, IsOpen
<1>2. CASE Cancel
  <2>1. job'[d] \in {job[d], "cancelled"}
    BY <1>2 DEF Cancel
  <2> QED BY <1>1, <2>1
<1>3. ASSUME NEW e \in Devices, StartJob(e) PROVE d = e
  <2>1. job' = [job EXCEPT ![e] = "queued"] /\ job \in [Devices -> Job]
    BY <1>3 DEF StartJob, TypeOK
  <2> QED BY <1>1, <2>1
<1>4. ASSUME NEW e \in Devices, JobLeavesQueue(e) \/ JobEnds(e) \/ AbortJob(e) PROVE FALSE
  <2>1. /\ job[e] \in {"queued", "open"} /\ job \in [Devices -> Job]
        /\ \E s \in Job : job' = [job EXCEPT ![e] = s]
    BY <1>4 DEF JobLeavesQueue, JobEnds, AbortJob, IsOpen, TypeOK, Job
  <2> QED BY <1>1, <2>1
<1>5. job' # job
  BY <1>1
<1>6. \/ \E e \in Devices : StartJob(e) \/ AbortJob(e) \/ JobLeavesQueue(e) \/ JobEnds(e)
      \/ Cancel
  BY <1>5 DEF vars, jobs, Next, Engine, CanaryStep, BatchStep, StartDevice, Admin, Begin,
     PauseUnofferable, Settle, SettledAll, PauseOnFailure, End, Wait, Demote, Promote, NobodyLeft,
     StartCanary, AwaitCanary, CanaryConfirmed, CanaryLost, Observe, Observed, BatchUnderWay, Gap,
     Complete, Hold, StartBatch, SkipDevice, PassOver, Adopt, Record, Started, Create, Pause,
     Withdraw, Restore, Resume, Due, Crash, UpdateByHand, RollBackByHand, OtherEnds
<1> QED BY <1>2, <1>3, <1>4, <1>6

\* "a failure pauses" (settleRunning, pauseRollout): for any fleet, any batch
\* and any stopOnFailure, with the admin between any two saves of a step and
\* steps that break off anywhere, nothing of the rollout starts while a failure
\* that stops it is there, but for one whose step broke off before its pause.
THEOREM NothingAfterFailureAlways == Spec => NothingAfterFailure
<1> DEFINE Fails(e) == /\ job[e] = "failed" /\ device[e].state \in {"running", "failed"}
                       /\ e \notin torn /\ step.device[e].state # "pending"
                       /\ device[e].canary \/ StopOnFailure
           Step == \A d, e \in Devices : Starts(d) => ~Fails(e)
<1>1. RInv /\ FInv /\ [Next]_vars => [Step]_vars
  <2> SUFFICES ASSUME RInv, FInv, [Next]_vars, NEW d \in Devices, NEW e \in Devices, Starts(d),
                      Fails(e)
               PROVE  FALSE
    OBVIOUS
  <2>1. StartingNow /\ Busy
    BY WhoStarts DEF RInv, StartJob, Starting, At, StartingNow, Busy
  <2>2. CASE device[e].state = "running"
    BY <2>1, <2>2 DEF FInv, StartsPending, RunRows
  <2>3. CASE device[e].state = "failed"
    BY <2>1, <2>3 DEF FInv, Stopped, Failing, StartingNow
  <2> QED BY <2>2, <2>3
<1>2. Spec => [][Step]_vars
  BY <1>1, InitFails, NextFails, RInvAlways, PTL DEF Spec
<1> QED BY <1>2 DEF NothingAfterFailure

=============================================================================
