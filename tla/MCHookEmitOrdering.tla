------------------------- MODULE MCHookEmitOrdering -------------------------
(***************************************************************************)
(* Instances of the drainer with its order history, for TLC.               *)
(***************************************************************************)
EXTENDS HookEmitOrdering, MCHookEmit
============================================================================
