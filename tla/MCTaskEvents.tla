----------------------------- MODULE MCTaskEvents -----------------------------
(* TaskEvents on small instances.                                          *)
EXTENDS TaskEvents, TLC

CONSTANTS
    p, q,        \* apps
    b1, b2,      \* brains
    r1, r2, r3   \* requests

\* One app; the third request is about the brain of the first.
OneApp == [r \in Requests |-> p]
TwoBrains == [r \in Requests |-> IF r = r2 THEN b2 ELSE b1]

\* Each request in an app of its own.
TwoApps == [r \in Requests |-> IF r = r1 THEN p ELSE q]
===============================================================================
