--------------------------- MODULE OrderedStream ----------------------------
(***************************************************************************)
(* What a streaming call promises, without wires, permissions or tasks:    *)
(* the application receives a prefix of what the method makes, in order;   *)
(* a normal end and an error of the method come after the last item; and   *)
(* once the call is over nothing more is delivered.                        *)
(***************************************************************************)
EXTENDS Naturals

VARIABLES
    made,     \* items the method made
    got,      \* items the application received
    method,   \* "running", "returned", "raised", or "stopped" by someone else
    call      \* "open", "ended", "raised", "failed" or "left"

vars == <<made, got, method, call>>

Init == made = 0 /\ got = 0 /\ method = "running" /\ call = "open"

Make == method = "running" /\ made' = made + 1 /\ UNCHANGED <<got, method, call>>

\* The method is over.  A connection that drops can turn any end into an error.
Finish ==
    /\ \/ method = "running" /\ method' \in {"returned", "raised", "stopped"}
       \/ method \in {"returned", "stopped"} /\ method' = "raised"
    /\ UNCHANGED <<made, got, call>>

Deliver == call = "open" /\ got < made /\ got' = got + 1 /\ UNCHANGED <<made, method, call>>

End == call = "open" /\ method = "returned" /\ got = made /\ call' = "ended" /\ UNCHANGED <<made, got, method>>

Raise == call = "open" /\ method = "raised" /\ got = made /\ call' = "raised" /\ UNCHANGED <<made, got, method>>

GiveUp == call = "open" /\ call' \in {"failed", "left"} /\ UNCHANGED <<made, got, method>>

Next == Make \/ Finish \/ Deliver \/ End \/ Raise \/ GiveUp

Spec == Init /\ [][Next]_vars
=============================================================================
