----------------------------- MODULE MCHookEmit -----------------------------
(***************************************************************************)
(* Instances of the hook-emit journal and drainer for TLC.                 *)
(***************************************************************************)
EXTENDS HookEmitDelivery

CONSTANTS tool, denied, prompt, ledger, legacy, broken, orphan

MCEventTypes == {tool, denied, prompt, ledger, legacy, broken, orphan}
MCLedger     == {ledger}
MCLegacy     == {legacy, orphan}
\* `legacy` converts to a declared type, `orphan` to one no registry declares.
MCSemantic   == [t \in MCLegacy |-> IF t = legacy THEN tool ELSE orphan]
MCMalformed  == {broken}

Full     == {tool, denied, prompt, ledger, broken}
NoLedger == Full \ {ledger}

FullOnly       == {Full}
Upgrades       == {{}, NoLedger, Full}

Resident     == [once |-> FALSE, preserve |-> FALSE]
ResidentOnly == {Resident}
TwoModes     == {Resident, [once |-> TRUE, preserve |-> TRUE]}
============================================================================
