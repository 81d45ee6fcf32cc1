---------------------------- MODULE CommitConfirm ----------------------------
(***************************************************************************)
(* What the apply protocol promises of each job, without sessions, queues  *)
(* and messages: what the router does with the job, what the controller    *)
(* says of it, and when the one may follow from the other.                 *)
(***************************************************************************)
CONSTANT Jobs

VARIABLES
  router,   \* untouched, live (not kept yet), kept, nothing to do, restored
  verdict,  \* none, open, confirmed, rolled_back, or given_up: not known
  agreed    \* the jobs whose confirm halves have both been given

vars == <<router, verdict, agreed>>

Init ==
  /\ router = [j \in Jobs |-> "none"]
  /\ verdict = [j \in Jobs |-> "none"]
  /\ agreed = {}

Says(j, v) == verdict' = [verdict EXCEPT ![j] = v] /\ UNCHANGED <<router, agreed>>
Does(j, r) == router' = [router EXCEPT ![j] = r] /\ UNCHANGED <<verdict, agreed>>

\* That one job is open at a time is no part of what is promised of each: a
\* detached timer may open another.
Request(j) == verdict[j] = "none" /\ Says(j, "open")

Agree(j) ==
  /\ verdict[j] = "open"
  /\ agreed' = agreed \cup {j} /\ UNCHANGED <<router, verdict>>

\* The router takes a job at most once and runs one that is not kept at a time.
Commit(j) ==
  /\ verdict[j] # "none" /\ router[j] = "none"
  /\ \A k \in Jobs : router[k] # "live"
  /\ Does(j, "live")

Nothing(j) == verdict[j] # "none" /\ router[j] = "none" /\ Does(j, "noop")

Keep(j) == router[j] = "live" /\ j \in agreed /\ Does(j, "kept")

Restore(j) ==
  verdict[j] # "none" /\ router[j] \in {"none", "live"} /\ Does(j, "restored")

Confirm(j) ==
  verdict[j] = "open" /\ router[j] \in {"kept", "noop"} /\ Says(j, "confirmed")

RollBack(j) ==
  /\ verdict[j] \in {"open", "given_up"} /\ router[j] = "restored"
  /\ Says(j, "rolled_back")

\* Expired, cancelled, failed, or a rollback assumed without a word from the
\* router: the controller says nothing of what the router did.
GiveUp(j) == verdict[j] = "open" /\ Says(j, "given_up")

Next ==
  \E j \in Jobs :
    \/ Request(j) \/ Agree(j) \/ Commit(j) \/ Nothing(j) \/ Keep(j)
    \/ Restore(j) \/ Confirm(j) \/ RollBack(j) \/ GiveUp(j)

Spec == Init /\ [][Next]_vars
=============================================================================
