------------------------------ MODULE MCPrGuard ------------------------------
(* Small instances of the ownership guard and the registry it calls.        *)
EXTENDS PrOwnershipGuard

CONSTANTS c1, c2

(* Every caller is a run of its own, with a lane and a session of its own. *)
OwnRuns == [c \in Callers |-> c]

(* c1 and c2 are lanes of one session and so share their run id. *)
OneRun == [c \in Callers |-> "r1"]
TwoLanes == [c \in Callers |-> IF c = c1 THEN "l1" ELSE "l2"]
=============================================================================
