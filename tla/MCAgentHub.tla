----------------------------- MODULE MCAgentHub -----------------------------
(* Small instances of AgentHub for TLC. *)
EXTENDS AgentHub
CONSTANTS c1, c2

(* The code does not keep this one (README, Known divergences). *)
\* docs/collector-agent.md: a dismissed row's socket is closed with 4003, at
\* its hello or by the dismissal.
DismissedIsOffline == lifecycle = "dismissed" /\ ~dismissing => current = 0
=============================================================================
