--------------------------- MODULE CollectorPush ---------------------------
(***************************************************************************)
(* How the pushes of one collector are taken in (collector_agent.ts,       *)
(* handleCollectorPush): one ingestion at a time; while it runs only the   *)
(* newest push waits; pushes too soon after the last accepted one are      *)
(* dropped.  Counters are cumulative, so a dropped push loses nothing as   *)
(* long as a later one is taken, and the pushes taken keep their order.    *)
(*                                                                         *)
(* Pushes are numbered as they arrive.  Time is the server's wall clock,   *)
(* which may be set back.                                                  *)
(***************************************************************************)
EXTENDS Integers

CONSTANTS
  MinGap,     \* the interval less EARLY_PUSH_SLACK_MS, in ticks
  MaxPushes, MaxTime, MaxSteps, \* pushes, ticks, clock corrections
  MaxToggles  \* times the admin takes the collector in or out of service

ASSUME PushAssumption == {MinGap, MaxPushes, MaxTime, MaxSteps, MaxToggles} \subseteq Nat

Pushes == 1..MaxPushes
None == 0

VARIABLES
  arrived,    \* how many pushes arrived
  receivedAt, \* when
  outcome,    \* what each push resolved to
  running,    \* the push being taken in
  accepted,   \* is it past its checks, its snapshot being ingested?
  queued,     \* the push that waits
  lastAccepted, \* lastAcceptedAt: a time, or -1
  taken,      \* the pushes accepted so far, the last one's number
  serving,    \* adopted, enabled and on this transport
  clock, steps, toggles
vars == <<arrived, receivedAt, outcome, running, accepted, queued, lastAccepted,
          taken, serving, clock, steps, toggles>>

Outcomes == {"none", "waiting", "ingested", "superseded", "too_early", "refused"}

TypeOK ==
  /\ arrived \in 0..MaxPushes
  /\ receivedAt \in [Pushes -> 0..MaxTime]
  /\ outcome \in [Pushes -> Outcomes]
  /\ {running, queued, taken} \subseteq {None} \cup Pushes
  /\ accepted \in BOOLEAN /\ (accepted => running # None)
  /\ lastAccepted \in {-1} \cup 0..MaxTime
  /\ serving \in BOOLEAN
  /\ clock \in 0..MaxTime /\ steps \in 0..MaxSteps /\ toggles \in 0..MaxToggles

Init ==
  /\ arrived = 0
  /\ receivedAt = [p \in Pushes |-> 0]
  /\ outcome = [p \in Pushes |-> "none"]
  /\ running = None /\ accepted = FALSE /\ queued = None
  /\ lastAccepted = -1 /\ taken = None
  /\ serving \in BOOLEAN
  /\ clock = 0 /\ steps = 0 /\ toggles = 0

\* Mutant: the push that loses its place is forgotten.
Forgetting(p) == [outcome EXCEPT ![p] = "waiting"]
\* The pushes' outcomes once a new one, p, takes the waiting one's place.
Superseding(p) == [q \in Pushes |->
  IF q = p THEN "waiting" ELSE IF q = queued THEN "superseded" ELSE outcome[q]]

\* handleCollectorPush: taken in at once, or it waits in place of an older one.
Receive ==
  LET p == arrived + 1
  IN /\ p \in Pushes
     /\ arrived' = p
     /\ receivedAt' = [receivedAt EXCEPT ![p] = clock]
     /\ IF running = None
        THEN /\ running' = p
             /\ outcome' = [outcome EXCEPT ![p] = "waiting"]
             /\ UNCHANGED queued
        ELSE /\ queued' = p
             /\ outcome' = Superseding(p)
             /\ UNCHANGED running
     /\ UNCHANGED <<accepted, lastAccepted, taken, serving, clock, steps, toggles>>

\* Mutant: the waiting push is not started.
ResolveAndStop(result) ==
  /\ outcome' = [outcome EXCEPT ![running] = result]
  /\ accepted' = FALSE
  /\ running' = None /\ UNCHANGED queued
\* Mutant: the mark of an accepted push outlives it.
ResolveAccepted(result) ==
  /\ outcome' = [outcome EXCEPT ![running] = result]
  /\ running' = queued /\ queued' = None /\ UNCHANGED accepted
\* The finally of runPush: the waiting push, if any, is next.
Resolve(result) ==
  /\ outcome' = [outcome EXCEPT ![running] = result]
  /\ accepted' = FALSE
  /\ running' = queued /\ queued' = None

\* Mutant: the time of the check counts, not that of the receipt.
CheckedTooEarly(p) == lastAccepted >= 0 /\ clock - lastAccepted < MinGap
TooEarly(p) == lastAccepted >= 0 /\ receivedAt[p] - lastAccepted < MinGap

\* ingestPush once the row is read: dropped, or accepted and ingested.
Check ==
  /\ running # None /\ ~accepted
  /\ \/ /\ ~serving
        /\ Resolve("refused")
        /\ UNCHANGED <<lastAccepted, taken>>
     \/ /\ serving /\ TooEarly(running)
        /\ Resolve("too_early")
        /\ UNCHANGED <<lastAccepted, taken>>
     \/ /\ serving /\ ~TooEarly(running)
        /\ lastAccepted' = receivedAt[running]
        /\ taken' = running /\ accepted' = TRUE
        /\ UNCHANGED <<outcome, running, queued>>
  /\ UNCHANGED <<arrived, receivedAt, serving, clock, steps, toggles>>

\* Collector.find throws: the push is dropped before any check.
Unread ==
  /\ running # None /\ ~accepted /\ Resolve("refused")
  /\ UNCHANGED <<arrived, receivedAt, lastAccepted, taken, serving, clock, steps, toggles>>

\* ingestCollectorSnapshot is done, well or not; if it throws the push is dropped.
Ingested ==
  /\ accepted
  /\ Resolve("ingested") \/ Resolve("refused")
  /\ UNCHANGED <<arrived, receivedAt, lastAccepted, taken, serving, clock, steps, toggles>>

Tick ==
  /\ clock < MaxTime
  /\ clock' = clock + 1
  /\ UNCHANGED <<arrived, receivedAt, outcome, running, accepted, queued,
                 lastAccepted, taken, serving, steps, toggles>>

SetBack ==
  /\ steps < MaxSteps /\ clock > 0
  /\ clock' \in 0..(clock - 1) /\ steps' = steps + 1
  /\ UNCHANGED <<arrived, receivedAt, outcome, running, accepted, queued,
                 lastAccepted, taken, serving, toggles>>

Toggle ==
  /\ toggles < MaxToggles
  /\ serving' = ~serving /\ toggles' = toggles + 1
  /\ UNCHANGED <<arrived, receivedAt, outcome, running, accepted, queued,
                 lastAccepted, taken, clock, steps>>

Next == Receive \/ Check \/ Unread \/ Ingested \/ Tick \/ SetBack \/ Toggle

Spec == Init /\ [][Next]_vars

\* Queries end, well or not; nothing is assumed of the collector or the clock.
FairSpec == Spec /\ WF_vars(Check \/ Unread) /\ WF_vars(Ingested)

----------------------------------------------------------------------------
\* Properties

\* Cumulative counters go in in the order in which they arrived, one push at
\* a time and at least MinGap apart, whatever the clock does meanwhile.
InOrderAndApart == [][taken' # taken =>
  /\ taken' > taken /\ ~accepted
  /\ lastAccepted < 0 \/ lastAccepted' - lastAccepted >= MinGap]_vars

\* A push is superseded only by a later one that is not dropped in its turn
\* for an earlier one: the newest push always gets its check.
NewestIsChecked ==
  /\ \A p \in Pushes : outcome[p] = "waiting" <=> p \in {running, queued}
  /\ arrived # 0 => outcome[arrived] # "superseded"
  /\ running = None => queued = None

\* Every push resolves, so the frame's handler ends, which goes on to the
\* apply lifecycle and the agent updates.
PushesResolve == \A p \in Pushes : (outcome[p] = "waiting") ~> (outcome[p] # "waiting")
=============================================================================
