-------------------------- MODULE PrOwnershipGuard --------------------------
(***************************************************************************)
(* The ownership guard: it judges a gh command before it runs, by the      *)
(* claim on the command's target, and records a claim for a first writer   *)
(* (nodes/node_pr_ownership_guard_effect/handlers/handler_pr_ownership.py).*)
(*                                                                         *)
(* The guard runs beside the skill runs that use the registry themselves,  *)
(* so the module adds its steps to the registry's.  A caller's guard and   *)
(* its own calls take turns: a lane waits for the command it runs.         *)
(*                                                                         *)
(* Not modelled: finding the mutations in a command, targets that cannot   *)
(* be resolved, the wording of a refusal.                                  *)
(***************************************************************************)
EXTENDS PrClaimRegistry

CONSTANT Unnamed   \* callers whose lane is a name made from their session

ASSUME GuardAssumption == Unnamed \subseteq Callers

VARIABLE stage     \* what the guard is doing for each caller

guardVars == <<vars, stage>>

Stages == {"none", "first", "recording", "cleared", "owning"}

GuardTypeOK == TypeOK /\ stage \in [Callers -> Stages]

GuardInit == Init /\ stage = [c \in Callers |-> "none"]

To(c, s) == stage' = [stage EXCEPT ![c] = s]

(* Mutant of OwnedBy: a lane's run proves ownership. *)
OwnedByRun(x, c) == Run[x.by] = Run[c]

(* Whether the active claim x lets c's lane mutate the target: a claim      *)
(* without a lane proves nothing, and a recorded session must be c's.      *)
OwnedBy(x, c) ==
  /\ Lane[x.by] # Unknown
  /\ \/ Lane[x.by] = Lane[c]
     \/ c \in Unnamed /\ Session[x.by] = Session[c] /\ Session[c] # Unknown
  /\ Session[x.by] # Unknown => Session[x.by] = Session[c]
  /\ Run[x.by] = Run[c]

(* What evaluate_mutations reads, it reads once.  A lane without a name, a  *)
(* malformed claim and a peer's active claim refuse: nothing changes.      *)
Judging(c) ==
  /\ pc[c] = "idle" /\ stage[c] = "none"
  /\ Lane[c] # Unknown

JudgeOwner(c) ==
  /\ Judging(c)
  /\ IsActive(file)
  /\ OwnedBy(file, c)
  /\ To(c, "owning")
  /\ UNCHANGED vars

(* An absent or expired claim: an exclusivity command is let through; an    *)
(* ownership command is refused.                                           *)
JudgeFirstWriter(c) ==
  /\ Judging(c)
  /\ file # Malformed
  /\ ~ IsActive(file)
  /\ To(c, "first")
  /\ UNCHANGED vars

(* record_claims calls acquire ... *)
RecordClaim(c) ==
  /\ stage[c] = "first"
  /\ Acquire(c)
  /\ To(c, "recording")

(* ... and goes on whatever it answered. *)
Recorded(c) ==
  /\ stage[c] = "recording"
  /\ pc[c] = "idle"
  /\ To(c, "cleared")
  /\ UNCHANGED vars

(* The command runs, and the lane goes on. *)
Mutate(c) ==
  /\ stage[c] \in {"cleared", "owning"}
  /\ To(c, "none")
  /\ UNCHANGED vars

(* A guard that is killed fails closed: its command does not run. *)
GuardCrash(c) ==
  /\ Crash(c)
  /\ To(c, "none")

(* A command takes seconds, and nothing keeps a claim from lapsing before   *)
(* it has run: without SleepMidCall that is left out.                      *)
GuardTick ==
  /\ Tick
  /\ SleepMidCall \/ \A c \in Callers : stage[c] = "none"
  /\ UNCHANGED stage

GuardNext ==
  \/ GuardTick
  \/ \E c \in Callers :
       \/ stage[c] = "none" /\ Call(c) /\ UNCHANGED stage
       \/ Continue(c) /\ UNCHANGED stage
       \/ JudgeOwner(c) \/ JudgeFirstWriter(c) \/ RecordClaim(c)
       \/ Recorded(c) \/ Mutate(c) \/ GuardCrash(c)

GuardSpec == GuardInit /\ [][GuardNext]_guardVars

(* A guard or a call that is not killed goes on, and the command it lets    *)
(* through ends; nothing makes a lane start one.                           *)
GuardFairSpec ==
  /\ GuardSpec
  /\ \A c \in Callers :
       WF_guardVars(\/ Continue(c) /\ UNCHANGED stage
                    \/ RecordClaim(c) \/ Recorded(c) \/ Mutate(c))

-----------------------------------------------------------------------------
(* While a lane's close or reopen is let through on its own claim, no peer  *)
(* holds a claim or is let through on one: the verdict is still true when  *)
(* the command runs ("A lane may not mutate a peer lane's work").          *)
OwnerMutatesAlone ==
  \A c, d \in Callers :
    stage[c] = "owning" /\ (stage[d] = "owning" \/ Holds(d)) => SameOwner(c, d)

(* "first-writer-wins: an active peer claim refuses; otherwise the mutation *)
(* is allowed AND the claim is recorded, which is what makes the second,   *)
(* racing lane refuse": two lanes are never both cleared to run.           *)
FirstWriterWins ==
  \A c, d \in Callers :
    stage[c] = "cleared" /\ stage[d] = "cleared" => SameOwner(c, d)

=============================================================================
