------------------------------ MODULE MCPrClaims ------------------------------
(* Small instances of the claim registry.  Callers are named here so that   *)
(* runs, lanes and sessions can be given to them.                          *)
EXTENDS PrClaimRegistry

CONSTANTS c1, c2, c3

(* Every caller is a run of its own, with a lane and a session of its own. *)
OwnRuns == [c \in Callers |-> c]
=============================================================================
