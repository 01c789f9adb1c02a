--------------------------- MODULE PrGuardProofs ---------------------------
(***************************************************************************)
(* The ownership guard adds its steps to the claim registry's without      *)
(* changing what the registry does, so that what is proved of the registry *)
(* holds beside the guard; and while no claim lapses a verdict of          *)
(* ownership lasts as long as the command it lets through.                 *)
(***************************************************************************)
EXTENDS PrOwnershipGuard, PrClaimLockProofs

LEMMA GuardInitTypeOK == GuardInit => GuardTypeOK
  BY InitTypeOK DEF GuardInit, GuardTypeOK, Stages

\* Every step of the guard is a step of the registry or leaves it alone.
LEMMA GuardStepIsRegistryStep == [GuardNext]_guardVars => [Next]_vars
<1>1. ASSUME NEW c \in Callers, GuardCrash(c) \/ RecordClaim(c)
      PROVE  Next
  BY <1>1 DEF GuardCrash, RecordClaim, Next, Call
<1>2. ASSUME NEW c \in Callers,
             JudgeOwner(c) \/ JudgeFirstWriter(c) \/ Recorded(c) \/ Mutate(c)
      PROVE  UNCHANGED vars
  BY <1>2 DEF JudgeOwner, JudgeFirstWriter, Recorded, Mutate
<1>3. GuardTick => Next
  BY DEF GuardTick, Next
<1>4. QED
  BY <1>1, <1>2, <1>3 DEF GuardNext, guardVars, Next

\* The guard alone says what it is doing for a caller.
LEMMA StageStep ==
  ASSUME GuardTypeOK, [GuardNext]_guardVars
  PROVE  stage' \in [Callers -> Stages]
<1>1. CASE GuardTick \/ UNCHANGED guardVars
  BY <1>1 DEF GuardTick, guardVars, GuardTypeOK
<1>2. ASSUME NEW c \in Callers,
             \/ UNCHANGED stage
             \/ JudgeOwner(c) \/ JudgeFirstWriter(c) \/ RecordClaim(c)
             \/ Recorded(c) \/ Mutate(c) \/ GuardCrash(c)
      PROVE  stage' \in [Callers -> Stages]
  BY <1>2
  DEF JudgeOwner, JudgeFirstWriter, RecordClaim, Recorded, Mutate, GuardCrash,
      To, GuardTypeOK, Stages
<1>3. QED
  BY <1>1, <1>2 DEF GuardNext

(* With the guard beside it the registry still does only what it does on   *)
(* its own: the guard implements the registry's specification, and keeps   *)
(* its types.                                                              *)
THEOREM GuardImplementsRegistry == GuardSpec => Spec /\ []GuardTypeOK
<1>1. GuardInit => Init
  BY DEF GuardInit
<1>2. GuardSpec => Spec
  BY <1>1, GuardStepIsRegistryStep, PTL DEF GuardSpec, Spec
<1>3. GuardInit => GuardTypeOK /\ Carrying
  BY GuardInitTypeOK DEF GuardInit, Init, Carrying, AcquireSteps
<1>4. GuardTypeOK /\ Carrying /\ [GuardNext]_guardVars
        => (GuardTypeOK /\ Carrying)'
  BY GuardStepIsRegistryStep, StageStep, StepTypeOK, StepCarrying
  DEF GuardTypeOK
<1>5. QED
  BY <1>2, <1>3, <1>4, PTL DEF GuardSpec

-----------------------------------------------------------------------------
(* A caller that was judged the owner sits between two of its own calls,    *)
(* and the claim at the path is its own.                                   *)
Owning ==
  \A c \in Callers : stage[c] = "owning" =>
    pc[c] = "idle" /\ file \in Claim /\ file.by = c

GuardLockInv == LockInv /\ stage \in [Callers -> Stages] /\ Owning

LEMMA OwnedIsMine ==
  ASSUME SeparateOwners, Unnamed = {}, TypeOK,
         NEW x \in Claim, NEW c \in Callers, OwnedBy(x, c)
  PROVE  x.by = c
  BY DEF SeparateOwners, OwnedBy, BothKnownDiffer, Claim

\* While no claim lapses nobody but its owner takes a claim off the path.
LEMMA ClaimStays ==
  ASSUME NoLapse, LockInv, NEW c \in Callers, file \in Claim, file.by = c,
         NEW d \in Callers, d # c, Call(d) \/ Continue(d)
  PROVE  file' = file
<1>0. file # NoClaim
  BY ContentAssumption, RegistryAssumption DEF ContentAssumption,
                                               RegistryAssumption
<1>1. ~ Fault(d)
  BY NoFault DEF LockInv, NoLapse
<1>2. pc[d] \notin {"reaping", "settling", "cleaning", "unlinking", "beating",
                    "filling", "renaming"}
  BY DEF LockInv
<1>3. QED
  BY <1>0, <1>1, <1>2
  DEF Call, Acquire, Release, ReleaseFails, Heartbeat, Cleanup, Continue,
      ReadFree, ReadActive, ReadInactive, ReadFails, ReapMissing, Reap,
      ReapFails, SettleInactive, SettleActive, SettleFails, Link, Collide,
      LinkFails, ReleaseUnlink, HeartbeatOpen, HeartbeatWrite, HeartbeatRename,
      HeartbeatFails, CleanupUnlink

LEMMA OwningStep ==
  ASSUME SeparateOwners, NoLapse, Unnamed = {}, GuardLockInv,
         [GuardNext]_guardVars
  PROVE  Owning'
<1>1. CASE GuardTick \/ UNCHANGED guardVars
  BY <1>1 DEF GuardTick, Tick, guardVars, vars, callVars, GuardLockInv, Owning
<1>2. ASSUME NEW c \in Callers, JudgeOwner(c)
      PROVE  Owning'
  <2>1. file \in Claim /\ file.by = c /\ pc[c] = "idle"
    BY <1>2, OwnedIsMine
    DEF JudgeOwner, Judging, IsActive, GuardLockInv, LockInv
  <2>2. \A d \in Callers : stage'[d] = "owning" => d = c \/ stage[d] = "owning"
    BY <1>2 DEF JudgeOwner, To, GuardLockInv
  <2>3. UNCHANGED <<pc, file>>
    BY <1>2 DEF JudgeOwner, vars, callVars
  <2>4. QED
    BY <2>1, <2>2, <2>3 DEF GuardLockInv, Owning
<1>3. ASSUME NEW c \in Callers,
             JudgeFirstWriter(c) \/ Recorded(c) \/ Mutate(c)
      PROVE  Owning'
  <2>1. \A d \in Callers : stage'[d] = "owning" => stage[d] = "owning"
    BY <1>3 DEF JudgeFirstWriter, Recorded, Mutate, To, GuardLockInv
  <2>2. UNCHANGED <<pc, file>>
    BY <1>3 DEF JudgeFirstWriter, Recorded, Mutate, vars, callVars
  <2>3. QED
    BY <2>1, <2>2 DEF GuardLockInv, Owning
<1>4. ASSUME NEW c \in Callers,
             \/ stage[c] = "none" /\ Call(c) /\ UNCHANGED stage
             \/ Continue(c) /\ UNCHANGED stage
             \/ RecordClaim(c)
      PROVE  Owning'
  <2>1. Call(c) \/ Continue(c)
    BY <1>4 DEF RecordClaim, Call
  <2>2. stage[c] # "owning" \/ pc[c] # "idle"
    BY <1>4
    DEF RecordClaim, Continue, ReadFree, ReadActive, ReadInactive, ReadFails,
        ReapMissing, Reap, ReapFails, SettleInactive, SettleActive,
        SettleFails, Link, Collide, LinkFails, ReleaseUnlink, HeartbeatOpen,
        HeartbeatWrite,
        HeartbeatRename, HeartbeatFails, CleanupUnlink
  <2>3. \A d \in Callers : stage'[d] = "owning" => stage[d] = "owning"
    BY <1>4 DEF RecordClaim, To, GuardLockInv
  <2>4. SUFFICES ASSUME NEW d \in Callers, stage'[d] = "owning"
                 PROVE  pc'[d] = "idle" /\ file' \in Claim /\ file'.by = d
    BY DEF Owning
  <2>5. pc[d] = "idle" /\ file \in Claim /\ file.by = d /\ d # c
    BY <2>2, <2>3, <2>4 DEF GuardLockInv, Owning
  <2>6. pc'[d] = pc[d]
    BY <2>1, <2>5, OthersUntouched DEF GuardLockInv, LockInv
  <2>7. QED
    BY <2>1, <2>5, <2>6, ClaimStays DEF GuardLockInv
<1>5. ASSUME NEW c \in Callers
      PROVE  ~ GuardCrash(c)
  BY DEF GuardCrash, Crash, NoLapse, GuardLockInv, LockInv, TypeOK
<1>6. QED
  BY <1>1, <1>2, <1>3, <1>4, <1>5 DEF GuardNext

(* For any number of named lanes that do not pass for each other: while no *)
(* claim lapses, whoever was let through as the owner of a pull request    *)
(* runs its command alone, whatever its peers call meanwhile.              *)
THEOREM OwnershipLasts ==
  ASSUME SeparateOwners, NoLapse, Unnamed = {}
  PROVE  GuardSpec => []OwnerMutatesAlone
<1>1. GuardInit => GuardLockInv
  BY LockInit, GuardInitTypeOK DEF GuardInit, GuardTypeOK, GuardLockInv, Owning
<1>2. GuardLockInv /\ [GuardNext]_guardVars => GuardLockInv'
  <2>1. ASSUME GuardLockInv, [GuardNext]_guardVars
        PROVE  GuardLockInv'
    <3>1. LockInv'
      BY <2>1, GuardStepIsRegistryStep, LockStep DEF GuardLockInv
    <3>2. stage' \in [Callers -> Stages]
      BY <2>1, StageStep DEF GuardLockInv, LockInv, GuardTypeOK
    <3>3. QED
      BY <2>1, <3>1, <3>2, OwningStep DEF GuardLockInv
  <2>2. QED
    BY <2>1
<1>3. GuardLockInv => OwnerMutatesAlone
  BY DEF GuardLockInv, LockInv, Owning, OwnerMutatesAlone, Holds, IsActive,
         SameOwner
<1>4. QED
  BY <1>1, <1>2, <1>3, PTL DEF GuardSpec

-----------------------------------------------------------------------------
(* The same across a lapse, for two lanes: what stands for an owner while   *)
(* its command runs is its claim at the path, or in the hands of a reaper  *)
(* that will put it back.                                                  *)
OwnerStands ==
  \A c \in Callers : stage[c] = "owning" => pc[c] = "idle" /\ Standing(c)

GuardRaceInv == RaceInv /\ stage \in [Callers -> Stages] /\ OwnerStands

LEMMA OwnerStandsStep ==
  ASSUME TwoCallers, SeparateOwners, Orderly, Unnamed = {}, GuardRaceInv,
         [GuardNext]_guardVars
  PROVE  OwnerStands'
<1>1. CASE GuardTick
  BY <1>1 DEF GuardTick, Orderly, OwnerStands
<1>2. CASE UNCHANGED guardVars
  BY <1>2
  DEF guardVars, vars, callVars, GuardRaceInv, OwnerStands, Standing, Kept,
      IsActive
<1>3. ASSUME NEW c \in Callers, UNCHANGED vars,
             \A d \in Callers : stage'[d] = "owning" =>
               stage[d] = "owning" \/ (pc[d] = "idle" /\ Standing(d))
      PROVE  OwnerStands'
  BY <1>3
  DEF vars, callVars, GuardRaceInv, OwnerStands, Standing, Kept, IsActive
<1>4. ASSUME NEW c \in Callers, JudgeOwner(c)
      PROVE  OwnerStands'
  <2>1. file \in Claim /\ IsActive(file) /\ pc[c] = "idle"
    BY <1>4 DEF JudgeOwner, Judging, IsActive
  <2>2. file.by = c
    BY <1>4, <2>1, OwnedIsMine DEF JudgeOwner, GuardRaceInv, RaceInv
  <2>3. Standing(c)
    BY <2>1, <2>2 DEF Standing, Kept
  <2>4. \A d \in Callers : stage'[d] = "owning" => d = c \/ stage[d] = "owning"
    BY <1>4 DEF JudgeOwner, To, GuardRaceInv
  <2>5. QED
    BY <1>3, <1>4, <2>1, <2>3, <2>4 DEF JudgeOwner
<1>5. ASSUME NEW c \in Callers,
             JudgeFirstWriter(c) \/ Recorded(c) \/ Mutate(c)
      PROVE  OwnerStands'
  <2>1. \A d \in Callers : stage'[d] = "owning" => stage[d] = "owning"
    BY <1>5 DEF JudgeFirstWriter, Recorded, Mutate, To, GuardRaceInv
  <2>2. QED
    BY <1>3, <1>5, <2>1 DEF JudgeFirstWriter, Recorded, Mutate
<1>6. ASSUME NEW c \in Callers,
             \/ stage[c] = "none" /\ Call(c) /\ UNCHANGED stage
             \/ Continue(c) /\ UNCHANGED stage
             \/ RecordClaim(c)
      PROVE  OwnerStands'
  <2>1. Call(c) \/ Continue(c)
    BY <1>6 DEF RecordClaim, Call
  <2>2. stage[c] # "owning" \/ pc[c] # "idle"
    BY <1>6
    DEF RecordClaim, Continue, ReadFree, ReadActive, ReadInactive, ReadFails,
        ReapMissing, Reap, ReapFails, SettleInactive, SettleActive,
        SettleFails, Link, Collide, LinkFails, ReleaseUnlink, HeartbeatOpen,
        HeartbeatWrite,
        HeartbeatRename, HeartbeatFails, CleanupUnlink
  <2>3. \A d \in Callers : stage'[d] = "owning" => stage[d] = "owning"
    BY <1>6 DEF RecordClaim, To, GuardRaceInv
  <2>4. SUFFICES ASSUME NEW d \in Callers, stage'[d] = "owning"
                 PROVE  pc'[d] = "idle" /\ Standing(d)'
    BY DEF OwnerStands
  <2>5. pc[d] = "idle" /\ Standing(d) /\ d # c
    BY <2>2, <2>3, <2>4 DEF GuardRaceInv, OwnerStands
  <2>6. pc'[d] = pc[d]
    BY <2>1, <2>5, OthersUntouched DEF GuardRaceInv, RaceInv
  <2>7. QED
    BY <2>1, <2>5, <2>6, StandingStep DEF GuardRaceInv
<1>7. ASSUME NEW c \in Callers
      PROVE  ~ GuardCrash(c)
  BY DEF GuardCrash, Crash, Orderly, GuardRaceInv, RaceInv, TypeOK
<1>8. QED
  BY <1>1, <1>2, <1>4, <1>5, <1>6, <1>7 DEF GuardNext

(* Two named lanes, any thresholds: an owner that was let through runs its  *)
(* command alone even when an earlier claim lapsed and its peer set out to *)
(* reap it before the owner's own claim was there.                         *)
THEOREM OwnershipOutlivesReaper ==
  ASSUME TwoCallers, SeparateOwners, Orderly, Unnamed = {}
  PROVE  GuardSpec => []OwnerMutatesAlone
<1>1. GuardInit => GuardRaceInv
  BY RaceInit, GuardInitTypeOK
  DEF GuardInit, GuardTypeOK, GuardRaceInv, OwnerStands
<1>2. ASSUME GuardRaceInv, [GuardNext]_guardVars
      PROVE  GuardRaceInv'
  <2>1. RaceInv'
    BY <1>2, GuardStepIsRegistryStep, RaceStep DEF GuardRaceInv
  <2>2. stage' \in [Callers -> Stages]
    BY <1>2, StageStep DEF GuardRaceInv, RaceInv, GuardTypeOK
  <2>3. QED
    BY <1>2, <2>1, <2>2, OwnerStandsStep DEF GuardRaceInv
<1>3. ASSUME GuardRaceInv
      PROVE  OwnerMutatesAlone
  <2>1. ASSUME NEW c \in Callers, NEW d \in Callers, stage[c] = "owning",
               stage[d] = "owning" \/ Holds(d)
        PROVE  SameOwner(c, d)
    <3>1. Standing(c) /\ Standing(d)
      BY <1>3, <2>1, HolderStands DEF GuardRaceInv, OwnerStands, RaceInv
    <3>2. c = d
      BY <1>3, <3>1, OneStanding DEF GuardRaceInv
    <3>3. QED
      BY <3>2 DEF SameOwner
  <2>2. QED
    BY <2>1 DEF OwnerMutatesAlone
<1>4. QED
  BY <1>1, <1>2, <1>3, PTL DEF GuardSpec
=============================================================================
