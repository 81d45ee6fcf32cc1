------------------------ MODULE CollectorPushProofs ------------------------
(***************************************************************************)
(* For any number of pushes, any clock and any gap: the newest push of a   *)
(* collector always gets its check, and the pushes that are taken in are   *)
(* taken in order, one at a time and apart.                                *)
(***************************************************************************)
EXTENDS CollectorPush, TLAPS

\* The push that waits came after the one being taken in, which came after
\* the last one accepted; nothing has happened yet to the pushes to come.
InLine ==
  /\ running <= arrived /\ queued <= arrived /\ taken <= arrived
  /\ queued # None => running < queued
  /\ running # None /\ ~accepted => taken < running
  /\ running # None /\ accepted => taken = running

PInv == TypeOK /\ NewestIsChecked /\ InLine

LEMMA Constants == {MinGap, MaxPushes, MaxTime, MaxSteps, MaxToggles} \subseteq Nat
BY PushAssumption

LEMMA InitInv == Init => PInv
<1> SUFFICES ASSUME Init PROVE PInv
  OBVIOUS
<1>1. TypeOK
  <2>1. /\ arrived \in 0..MaxPushes /\ receivedAt \in [Pushes -> 0..MaxTime]
        /\ clock \in 0..MaxTime /\ steps \in 0..MaxSteps /\ toggles \in 0..MaxToggles
    BY Constants DEF Init
  <2>2. /\ outcome \in [Pushes -> Outcomes] /\ lastAccepted \in {-1} \cup 0..MaxTime
        /\ {running, queued, taken} \subseteq {None} \cup Pushes
    BY DEF Init, Outcomes
  <2>3. accepted \in BOOLEAN /\ ~accepted /\ serving \in BOOLEAN
    BY DEF Init
  <2> QED BY <2>1, <2>2, <2>3 DEF TypeOK
<1>2. NewestIsChecked /\ InLine
  BY Constants DEF Init, NewestIsChecked, InLine, Pushes, None
<1> QED BY <1>1, <1>2 DEF PInv

LEMMA ReceiveInv == ASSUME PInv, Receive PROVE PInv'
<1> USE DEF PInv
<1> DEFINE p == arrived + 1
<1>1. /\ p \in Pushes /\ arrived' = p /\ receivedAt' = [receivedAt EXCEPT ![p] = clock]
      /\ UNCHANGED <<accepted, lastAccepted, taken, serving, clock, steps, toggles>>
  BY DEF Receive
<1>2. p > arrived /\ p \in Nat /\ p # None /\ arrived \in Nat
  BY <1>1, Constants DEF TypeOK, None
<1>3. ~(p \in {running, queued})
  BY <1>2 DEF InLine, TypeOK, None, Pushes
<1>4. CASE running = None
  <2>1. running' = p /\ outcome' = [outcome EXCEPT ![p] = "waiting"] /\ queued' = queued
    BY <1>4 DEF Receive
  <2>2. queued = None /\ ~accepted
    BY <1>4 DEF NewestIsChecked, TypeOK
  <2>3. TypeOK'
    BY <1>1, <1>2, <2>1, <2>2, Constants DEF TypeOK, Outcomes, Pushes
  <2>4. NewestIsChecked'
    BY <1>1, <1>2, <1>4, <2>1, <2>2 DEF NewestIsChecked, TypeOK, Pushes, None
  <2>5. InLine'
    BY <1>1, <1>2, <1>4, <2>1, <2>2 DEF InLine, TypeOK, Pushes, None
  <2> QED BY <2>3, <2>4, <2>5
<1>5. CASE running # None
  <2>1. running' = running /\ outcome' = Superseding(p) /\ queued' = p
    BY <1>5 DEF Receive
  <2>2. TypeOK'
    BY <1>1, <1>2, <2>1, Constants DEF TypeOK, Outcomes, Pushes, Superseding
  <2>3. \A q \in Pushes : outcome'[q] = IF q = p THEN "waiting"
                                       ELSE IF q = queued THEN "superseded" ELSE outcome[q]
    BY <2>1 DEF Superseding
  <2>4. queued # None => queued # running
    BY DEF InLine, TypeOK, None, Pushes
  <2>5. NewestIsChecked'
    <3>1. ASSUME NEW q \in Pushes PROVE outcome'[q] = "waiting" <=> q \in {running', queued'}
      <4>1. CASE q = p
        BY <2>1, <2>3, <4>1
      <4>2. CASE q # p /\ q = queued
        BY <2>1, <2>3, <2>4, <4>2 DEF None, Pushes
      <4>3. CASE q # p /\ q # queued
        BY <2>1, <2>3, <4>3 DEF NewestIsChecked
      <4> QED BY <4>1, <4>2, <4>3
    <3>2. outcome'[arrived'] # "superseded"
      BY <1>1, <2>3
    <3> QED BY <1>5, <2>1, <3>1, <3>2 DEF NewestIsChecked
  <2>6. InLine'
    BY <1>1, <1>2, <1>5, <2>1 DEF InLine, TypeOK, Pushes, None
  <2> QED BY <2>2, <2>5, <2>6
<1> QED BY <1>4, <1>5

\* The waiting push, if any, is next.
LEMMA ResolveInv ==
  ASSUME PInv, NEW result \in Outcomes \ {"waiting", "superseded"}, Resolve(result),
         running # None,
         UNCHANGED <<arrived, receivedAt, lastAccepted, taken, serving, clock, steps, toggles>>
  PROVE  PInv'
<1> USE DEF PInv
<1>1. /\ outcome' = [outcome EXCEPT ![running] = result] /\ accepted' = FALSE
      /\ running' = queued /\ queued' = None
  BY DEF Resolve
<1>2. running \in Pushes
  BY DEF TypeOK
<1>3. TypeOK'
  BY <1>1, <1>2 DEF TypeOK
<1>4. NewestIsChecked'
  <2>1. \A q \in Pushes : outcome'[q] = IF q = running THEN result ELSE outcome[q]
    BY <1>1 DEF TypeOK
  <2>2. queued # running
    BY <1>2 DEF InLine, TypeOK, None, Pushes
  <2>3. arrived \in Pushes
    BY <1>2 DEF InLine, TypeOK, Pushes
  <2> QED BY <1>1, <1>2, <2>1, <2>2, <2>3 DEF NewestIsChecked, None, Pushes
<1>5. InLine'
  BY <1>1, <1>2 DEF InLine, TypeOK, None, Pushes
<1> QED BY <1>3, <1>4, <1>5

LEMMA CheckInv == ASSUME PInv, Check PROVE PInv'
<1> USE DEF PInv
<1>1. CASE taken' = taken
  <2>1. CASE \/ ~serving /\ Resolve("refused")
             \/ serving /\ TooEarly(running) /\ Resolve("too_early")
    BY <1>1, <2>1, ResolveInv DEF Check, Outcomes
  <2>2. CASE taken' = running /\ ~accepted
    BY <1>1, <2>2 DEF Check, InLine, TypeOK, None, Pushes
  <2> QED BY <2>1, <2>2 DEF Check
<1>2. CASE taken' # taken
  <2>1. /\ running # None /\ ~accepted /\ lastAccepted' = receivedAt[running]
        /\ taken' = running /\ accepted' = TRUE
        /\ UNCHANGED <<outcome, running, queued, arrived, receivedAt, serving, clock, steps,
                       toggles>>
    BY <1>2 DEF Check
  <2>2. running \in Pushes
    BY <2>1 DEF TypeOK
  <2>3. TypeOK'
    BY <2>1, <2>2 DEF TypeOK
  <2>4. NewestIsChecked' /\ InLine'
    BY <2>1, <2>2 DEF NewestIsChecked, InLine, TypeOK, Pushes
  <2> QED BY <2>3, <2>4
<1> QED BY <1>1, <1>2

LEMMA NextInv == ASSUME PInv, [Next]_vars PROVE PInv'
<1> USE DEF PInv
<1>1. CASE Ingested
  <2>1. running # None
    BY <1>1 DEF Ingested, TypeOK
  <2> QED BY <1>1, <2>1, ResolveInv DEF Ingested, Outcomes
<1>2. CASE Tick
  BY <1>2, Constants DEF Tick, TypeOK, NewestIsChecked, InLine
<1>3. CASE SetBack
  BY <1>3, Constants DEF SetBack, TypeOK, NewestIsChecked, InLine
<1>4. CASE Toggle
  BY <1>4, Constants DEF Toggle, TypeOK, NewestIsChecked, InLine
<1>5. CASE UNCHANGED vars
  BY <1>5 DEF vars, TypeOK, NewestIsChecked, InLine
<1>6. CASE Unread
  BY <1>6, ResolveInv DEF Unread, Outcomes
<1> QED BY <1>1, <1>2, <1>3, <1>4, <1>5, <1>6, ReceiveInv, CheckInv DEF Next

LEMMA Invariant == Spec => []PInv
<1>1. Init => PInv
  BY InitInv
<1>2. PInv /\ [Next]_vars => PInv'
  BY NextInv
<1> QED BY <1>1, <1>2, PTL DEF Spec

\* The pushes, the one being taken in and the one that waits.
THEOREM TypeOKAlways == Spec => []TypeOK
<1>1. PInv => TypeOK
  BY DEF PInv
<1> QED BY <1>1, Invariant, PTL

\* However many pushes come while one is being ingested, the newest of them
\* is the one that waits, and it is never dropped for an older one.
THEOREM NewestIsCheckedAlways == Spec => []NewestIsChecked
<1>1. PInv => NewestIsChecked
  BY DEF PInv
<1> QED BY <1>1, Invariant, PTL

\* The counters of a collector go in in the order in which they arrived, one
\* push at a time and at least MinGap apart, whatever the clock does.
THEOREM InOrderAndApartAlways == Spec => InOrderAndApart
<1> DEFINE Taking == taken' # taken =>
                       /\ taken' > taken /\ ~accepted
                       /\ lastAccepted < 0 \/ lastAccepted' - lastAccepted >= MinGap
<1>1. ASSUME PInv, [Next]_vars PROVE [Taking]_vars
  <2>1. CASE taken' = taken
    BY <2>1
  <2>2. CASE taken' # taken
    <3>1. Check
      BY <1>1, <2>2 DEF Next, vars, Receive, Unread, Ingested, Tick, SetBack, Toggle
    <3>2. /\ running # None /\ ~accepted /\ taken' = running /\ ~TooEarly(running)
          /\ lastAccepted' = receivedAt[running]
      BY <2>2, <3>1 DEF Check
    <3>3. taken' > taken
      BY <1>1, <3>2 DEF PInv, InLine, TypeOK, None, Pushes
    <3>4. lastAccepted < 0 \/ lastAccepted' - lastAccepted >= MinGap
      BY <1>1, <3>2, Constants DEF PInv, TypeOK, TooEarly, None, Pushes
    <3> QED BY <3>2, <3>3, <3>4
  <2> QED BY <2>1, <2>2
<1> QED BY <1>1, Invariant, PTL DEF Spec, InOrderAndApart
=============================================================================
