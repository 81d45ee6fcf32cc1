--------------------------- MODULE MCAlertDelivery ---------------------------
(***************************************************************************)
(* AlertDelivery for three alerts, and what the program does not keep.       *)
(***************************************************************************)
EXTENDS AlertDelivery, TLC

CONSTANTS a, b, c
Symmetry == Permutations(Alerts)

\* "the recovery goes out after the recovery hold" (engine.spec.ts): a notice of
\* the outage that is sent within the hold already says that it is over, and an
\* alert raised again in the hold is not notified once more.
RecoveryAfterHold ==
  \A x \in Alerts : alert[x].due => worker.says # (x :> "back")

\* NoAlarmAfterAllClear for groups: collapseUnsent leaves a row that is being
\* sent as it is, so a group tried again still names the alert that resolved.
NoGroupAlarmAfterAllClear ==
  \A x \in Alerts :
    AllClear(x) /\ x \in DOMAIN worker.says => worker.says[x] # "down"

=============================================================================
