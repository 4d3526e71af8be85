---------------------------- MODULE MCSmsOutbox ----------------------------
(***************************************************************************)
(* Instances of SmsOutbox for TLC.                                         *)
(***************************************************************************)
EXTENDS SmsOutbox, TLC

Setup(chain, before) == [providers |-> chain, connects |-> before]

\* Two phones that connect once, and a phone that comes back with EUS behind it while
\* the other one stays away.
MCPhones ==
    {Setup(<<"gateway">>, [gw \in Gateway |-> MaxConn - 1])} \cup
    {Setup(<<"gateway", "eus">>, [gw \in Gateway |-> IF gw = back THEN 0 ELSE MaxConn]) : back \in Gateway}

\* Nothing tells two phones apart.
MCAlike == Permutations(Gateway)

\* EUS before and behind a phone.
MCEus == {Setup(chain, [gw \in Gateway |-> 0]) : chain \in {<<"eus", "gateway">>, <<"gateway", "eus">>}}
=============================================================================
