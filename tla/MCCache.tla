---- MODULE MCCache ----
EXTENDS Cache
V == [p \in Procs |-> IF p = "old" THEN 1 ELSE 2]
====
