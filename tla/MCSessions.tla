----------------------------- MODULE MCSessions -----------------------------
(* Sessions with a terminal of its own for every client.                    *)
EXTENDS Sessions

OwnTerminal == [c \in Keys |-> c]
=============================================================================
