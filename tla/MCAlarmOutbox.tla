--------------------------- MODULE MCAlarmOutbox ---------------------------
(***************************************************************************)
(* Instances of AlarmOutbox for TLC: where the passes run.                 *)
(***************************************************************************)
EXTENDS AlarmOutbox

\* One worker that is leader and serves requests.
MCOneProcess   == [p \in Pass |-> "w1"]

\* A leader, and a second worker that serves the requests.
MCTwoProcesses == [p \in Pass |-> IF p \in LoopPass THEN "w1" ELSE "w2"]
=============================================================================
