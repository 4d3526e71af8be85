------------------------------ MODULE SendOnce ------------------------------
(***************************************************************************)
(* What an outbox promises about one message.  The message leaves the      *)
(* system at most once.  Its result is decided once: "sent" only after it  *)
(* left, "failed" only if it did not and never will.  "uncertain" leaves   *)
(* open what happened, and is the only result after which it may still     *)
(* leave.                                                                  *)
(***************************************************************************)
EXTENDS Naturals

VARIABLES
    result,     \* "open", or the result
    sends       \* how often the message left the system

Init == result = "open" /\ sends = 0

Leave ==
    /\ result \in {"open", "uncertain"}
    /\ sends = 0
    /\ sends' = 1
    /\ UNCHANGED result

Decide(r) ==
    /\ result = "open"
    /\ r = "sent" => sends = 1
    /\ r = "failed" => sends = 0
    /\ result' = r
    /\ UNCHANGED sends

Next == Leave \/ \E r \in {"sent", "failed", "uncertain"} : Decide(r)

Spec == Init /\ [][Next]_<<result, sends>>
=============================================================================
