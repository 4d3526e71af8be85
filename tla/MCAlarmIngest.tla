--------------------------- MODULE MCAlarmIngest ---------------------------
(***************************************************************************)
(* Instances of AlarmIngest for TLC.                                       *)
(***************************************************************************)
EXTENDS AlarmIngest, TLC

\* A gateway reports the first message; two agents report the same follow-up event,
\* which repeats its code and adds one.
MCTextOf  == [m \in Msgs |-> IF m = "m1" THEN "t1" ELSE "t2"]
MCCodesOf == [t \in Texts |-> IF t = "t1" THEN {"r1"} ELSE {"r1", "r2"}]
=============================================================================
