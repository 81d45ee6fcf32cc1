------------------------------- MODULE Turns -------------------------------
(***************************************************************************)
(* What a serial queue promises: for each key the tasks take turns, one    *)
(* at a time and in the order in which they were accepted.                 *)
(***************************************************************************)
EXTENDS Sequences

CONSTANTS Keys, Tasks, NoTask

VARIABLES
  line,     \* the accepted tasks of each key that have not started
  serving   \* the task each key runs, NoTask if none
turns == <<line, serving>>

Init ==
  /\ line = [k \in Keys |-> <<>>]
  /\ serving = [k \in Keys |-> NoTask]

Join(k, t) ==
  /\ line' = [line EXCEPT ![k] = Append(@, t)]
  /\ UNCHANGED serving

Serve(k) ==
  /\ serving[k] = NoTask /\ line[k] # <<>>
  /\ serving' = [serving EXCEPT ![k] = Head(line[k])]
  /\ line' = [line EXCEPT ![k] = Tail(@)]

Leave(k) ==
  /\ serving[k] # NoTask
  /\ serving' = [serving EXCEPT ![k] = NoTask]
  /\ UNCHANGED line

Next == \E k \in Keys : Serve(k) \/ Leave(k) \/ \E t \in Tasks : Join(k, t)

Spec == Init /\ [][Next]_turns
=============================================================================
