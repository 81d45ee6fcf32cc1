--------------------------- MODULE MCGatewayApply ---------------------------
(* Small instances of GatewayApply for TLC. *)
EXTENDS GatewayApply, TLC
CONSTANTS s1, s2, a, b, c
Symmetry == Permutations(Contents)

-----------------------------------------------------------------------------
(* Further statements of the documents and comments that the code does not  *)
(* keep, apart from those the runs check (README, Known divergences).       *)

\* restoreStatus: a failed or assumed job "ended without a change on the router".
EndedWithoutChange ==
  \A j \in JobIds : jobs[j].state \in {"failed", "rolled_back"} => fate[j] # "kept"

\* applyResult: "Rolled back: the draft stays".  With no edit on the router,
\* only the admin's own requests (which run while no task does) change a draft.
DraftStays ==
  [][(\E s \in Sections : rows'[s].desired # rows[s].desired)
       => Idle \/ count.routerEdits > 0]_rows

\* createApply: "Queued applies always confirm by the agent alone".
QueuedConfirmByAgent ==
  \A j \in JobIds : Idle /\ jobs[j].state = "queued" => jobs[j].mode = "agent"

\* config-plane.md 6.3: "every section in `discarded` (...) comes back as a
\* conflict" when the rollback is settled.
DiscardedEditsComeBack ==
  [][\A j \in JobIds :
       Running("applyResult") /\ Top.res.job = j
         /\ jobs[j].state # "rolled_back" /\ jobs'[j].state = "rolled_back" =>
       \A s \in DOMAIN Top.res.discarded :
         rows'[s].conflict = "rollback_discarded"
           \/ Top.res.discarded[s] = rows'[s].router]_<<jobs, rows>>
=============================================================================
