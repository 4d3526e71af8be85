--------------------------- MODULE MCPrintSystem ---------------------------
(***************************************************************************)
(* Instances of PrintSystem for TLC.                                       *)
(***************************************************************************)
EXTENDS PrintSystem, TLC

\* The first printer is served by both PCs, the one of the replacement by one.
MCRoutes == [j \in Jobs |-> IF j = Original THEN Agents ELSE {"a2"}]
\* Exactly one of the two is leased, the other is pushed.
MCMixed == {{j} : j \in Jobs}
\* All are leased, or all are pushed.
MCBoth  == {{}, Jobs}
=============================================================================
