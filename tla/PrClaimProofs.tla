---------------------------- MODULE PrClaimProofs ----------------------------
(***************************************************************************)
(* Proofs about the claim registry, for any number of callers and any      *)
(* thresholds.                                                             *)
(***************************************************************************)
EXTENDS PrClaimRegistry, TLAPS

-----------------------------------------------------------------------------
(* The type invariant. *)

LEMMA InitTypeOK == Init => TypeOK
  BY RegistryAssumption
  DEF RegistryAssumption, Init, TypeOK, Time, Content, Steps, AcquireSteps

LEMMA FaultTyped ==
  ASSUME TypeOK, NEW c \in Callers, Fault(c)
  PROVE  /\ faults' \in 0..MaxFaults
         /\ met' \in [Callers -> SUBSET {"live", "torn", "error"}]
  BY RegistryAssumption DEF RegistryAssumption, TypeOK, Fault

LEMMA MeetsTyped ==
  ASSUME TypeOK, NEW c \in Callers, Meets(c, file)
  PROVE  met' \in [Callers -> SUBSET {"live", "torn", "error"}]
  BY DEF TypeOK, Meets

LEMMA MeetsContenderTyped ==
  ASSUME TypeOK, NEW c \in Callers, MeetsContender(c, file)
  PROVE  met' \in [Callers -> SUBSET {"live", "torn", "error"}]
  BY DEF TypeOK, MeetsContender

LEMMA EndCallTyped ==
  ASSUME TypeOK, NEW c \in Callers, EndCall(c)
  PROVE  /\ pc' \in [Callers -> Steps]
         /\ tries' \in [Callers -> 0..MaxAttempts]
         /\ mine' \in [Callers -> Claim \cup {NoClaim}]
         /\ tomb' \in [Callers -> Content]
  BY RegistryAssumption
  DEF RegistryAssumption, TypeOK, EndCall, Goto, Steps, Content

LEMMA GrantTyped ==
  ASSUME TypeOK, NEW c \in Callers, NEW x \in Claim, Grant(c, x)
  PROVE  /\ held' \in [Callers -> Claim \cup {NoClaim}]
         /\ answer' \in [Callers -> {"none", "granted", "refused"}]
  BY DEF TypeOK, Grant

LEMMA RefuseTyped ==
  ASSUME TypeOK, NEW c \in Callers, Refuse(c)
  PROVE  /\ held' \in [Callers -> Claim \cup {NoClaim}]
         /\ answer' \in [Callers -> {"none", "granted", "refused"}]
  BY DEF TypeOK, Refuse

LEMMA ReadTypeOK ==
  ASSUME TypeOK, NEW c \in Callers,
         ReadFree(c) \/ ReadActive(c) \/ ReadInactive(c) \/ ReadFails(c)
  PROVE  TypeOK'
<1>1. CASE ReadFree(c)
  BY <1>1 DEF ReadFree, Goto, callVars, TypeOK, Steps, AcquireSteps
<1>2. CASE ReadActive(c)
  <2>1. EndCall(c) /\ Meets(c, file)
    BY <1>2 DEF ReadActive, Grant, Refuse
  <2>2. /\ held' \in [Callers -> Claim \cup {NoClaim}]
        /\ answer' \in [Callers -> {"none", "granted", "refused"}]
    BY <1>2, GrantTyped, RefuseTyped DEF ReadActive, IsActive
  <2>3. QED
    BY <1>2, <2>1, <2>2, EndCallTyped, MeetsTyped DEF ReadActive, TypeOK
<1>3. CASE ReadInactive(c)
  BY <1>3 DEF ReadInactive, Goto, callVars, TypeOK, Steps, AcquireSteps
<1>4. CASE ReadFails(c)
  BY <1>4, FaultTyped
  DEF ReadFails, Goto, callVars, TypeOK, Steps, AcquireSteps
<1>5. QED
  BY <1>1, <1>2, <1>3, <1>4

LEMMA ReapTypeOK ==
  ASSUME TypeOK, NEW c \in Callers,
         ReapMissing(c) \/ Reap(c) \/ ReapFails(c)
  PROVE  TypeOK'
<1>1. CASE ReapMissing(c)
  BY <1>1 DEF ReapMissing, Goto, callVars, TypeOK, Steps, AcquireSteps
<1>2. CASE Reap(c)
  BY <1>2, MeetsTyped DEF Reap, Goto, TypeOK, Steps, AcquireSteps, Content
<1>3. CASE ReapFails(c)
  BY <1>3, FaultTyped, EndCallTyped, RefuseTyped DEF ReapFails, Refuse, TypeOK
<1>4. QED
  BY <1>1, <1>2, <1>3

LEMMA SettleTypeOK ==
  ASSUME TypeOK, NEW c \in Callers,
         SettleInactive(c) \/ SettleActive(c) \/ SettleFails(c)
  PROVE  TypeOK'
<1>1. CASE SettleInactive(c)
  BY <1>1 DEF SettleInactive, Goto, TypeOK, Steps, AcquireSteps, Content
<1>2. CASE SettleActive(c)
  <2>1. EndCall(c) /\ tomb[c] \in Claim
    BY <1>2 DEF SettleActive, Grant, Refuse, IsActive
  <2>2. /\ held' \in [Callers -> Claim \cup {NoClaim}]
        /\ answer' \in [Callers -> {"none", "granted", "refused"}]
    BY <1>2, <2>1, GrantTyped, RefuseTyped DEF SettleActive
  <2>3. file' \in Content
    BY <1>2, <2>1 DEF SettleActive, LinkedBack, Content, TypeOK
  <2>4. QED
    BY <1>2, <2>1, <2>2, <2>3, EndCallTyped DEF SettleActive, TypeOK
<1>3. CASE SettleFails(c)
  <2>1. file' \in Content
    BY <1>3 DEF SettleFails, LinkedBack, TypeOK
  <2>2. QED
    BY <1>3, <2>1, FaultTyped, EndCallTyped, RefuseTyped
    DEF SettleFails, Refuse, TypeOK
<1>4. QED
  BY <1>1, <1>2, <1>3

LEMMA LinkTypeOK ==
  ASSUME TypeOK, NEW c \in Callers,
         pc[c] \in AcquireSteps => mine[c] \in Claim,
         Link(c) \/ Collide(c) \/ LinkFails(c)
  PROVE  TypeOK'
<1>1. CASE Link(c)
  <2>1. mine[c] \in Claim
    BY <1>1 DEF Link, AcquireSteps
  <2>2. EndCall(c) /\ file' \in Content
    BY <1>1, <2>1 DEF Link, Grant, Content
  <2>3. QED
    BY <1>1, <2>1, <2>2, EndCallTyped, GrantTyped DEF Link, TypeOK
<1>2. CASE Collide(c)
  <2>1. CASE /\ tries[c] < MaxAttempts
             /\ tries' = [tries EXCEPT ![c] = @ + 1]
             /\ Goto(c, "reading")
             /\ UNCHANGED <<mine, tomb, held, answer>>
    <3>1. tries' \in [Callers -> 0..MaxAttempts]
      BY <2>1, RegistryAssumption DEF RegistryAssumption, TypeOK
    <3>2. pc' \in [Callers -> Steps]
      BY <2>1 DEF Goto, TypeOK, Steps, AcquireSteps
    <3>3. QED
      BY <1>2, <2>1, <3>1, <3>2, MeetsContenderTyped DEF Collide, TypeOK
  <2>2. CASE Refuse(c)
    BY <1>2, <2>2, EndCallTyped, RefuseTyped, MeetsContenderTyped
    DEF Collide, Refuse, TypeOK
  <2>3. QED
    BY <1>2, <2>1, <2>2 DEF Collide
<1>3. CASE LinkFails(c)
  <2>1. mine[c] \in Claim
    BY <1>3 DEF LinkFails, AcquireSteps
  <2>2. file' \in Content
    BY <1>3, <2>1 DEF LinkFails, LinkedBack, TypeOK, Content
  <2>3. QED
    BY <1>3, <2>2, FaultTyped, EndCallTyped, RefuseTyped
    DEF LinkFails, Refuse, TypeOK
<1>4. QED
  BY <1>1, <1>2, <1>3

LEMMA OwnerTypeOK ==
  ASSUME TypeOK, NEW c \in Callers,
         \/ Release(c) \/ ReleaseUnlink(c) \/ ReleaseFails(c)
         \/ Cleanup(c) \/ CleanupUnlink(c)
  PROVE  TypeOK'
<1>1. CASE Release(c)
  BY <1>1 DEF Release, MayCall, LetGo, Goto, callVars, TypeOK, Steps
<1>2. CASE ReleaseUnlink(c)
  BY <1>2, EndCallTyped DEF ReleaseUnlink, TypeOK, Content
<1>3. CASE ReleaseFails(c)
  BY <1>3, EndCallTyped, FaultTyped DEF ReleaseFails, LetGo, TypeOK
<1>4. CASE Cleanup(c)
  BY <1>4 DEF Cleanup, Goto, callVars, TypeOK, Steps
<1>5. CASE CleanupUnlink(c)
  BY <1>5, EndCallTyped, FaultTyped DEF CleanupUnlink, TypeOK, Content
<1>6. QED
  BY <1>1, <1>2, <1>3, <1>4, <1>5

LEMMA RenewTyped ==
  ASSUME TypeOK, NEW x, Renew(x)
  PROVE  held' \in [Callers -> Claim \cup {NoClaim}]
  BY DEF TypeOK, Renew, SameClaim

LEMMA HeartbeatTypeOK ==
  ASSUME TypeOK, NEW c \in Callers,
         \/ Heartbeat(c) \/ HeartbeatOpen(c) \/ HeartbeatWrite(c)
         \/ HeartbeatRename(c) \/ HeartbeatFails(c)
  PROVE  TypeOK'
<1>1. CASE Heartbeat(c)
  <2>1. [file EXCEPT !.beatAt = now] \in Claim
    BY <1>1 DEF Heartbeat, TypeOK, Claim
  <2>2. QED
    BY <1>1, <2>1 DEF Heartbeat, Goto, TypeOK, Steps
<1>2. CASE HeartbeatWrite(c)
  <2>1. file' \in Content /\ beatTmp' \in Content
    BY <1>2 DEF HeartbeatWrite, TypeOK, Content
  <2>2. held' \in [Callers -> Claim \cup {NoClaim}]
    BY <1>2, RenewTyped DEF HeartbeatWrite, TypeOK
  <2>3. QED
    BY <1>2, <2>1, <2>2 DEF HeartbeatWrite, Goto, callVars, TypeOK, Steps
<1>3. CASE HeartbeatRename(c)
  <2>1. held' \in [Callers -> Claim \cup {NoClaim}]
    BY <1>3, RenewTyped DEF HeartbeatRename
  <2>2. file' \in Content /\ beatTmp' \in Content
    BY <1>3 DEF HeartbeatRename, TypeOK, Content
  <2>3. QED
    BY <1>3, <2>1, <2>2, EndCallTyped DEF HeartbeatRename, TypeOK
<1>4. CASE HeartbeatFails(c)
  BY <1>4, EndCallTyped, FaultTyped DEF HeartbeatFails, TypeOK
<1>5. CASE HeartbeatOpen(c)
  BY <1>5 DEF HeartbeatOpen, Goto, callVars, TypeOK, Steps, Content
<1>6. QED
  BY <1>1, <1>2, <1>3, <1>4, <1>5

LEMMA OutsideTypeOK ==
  /\ TypeOK /\ Tick => TypeOK'
  /\ \A c \in Callers : TypeOK /\ Crash(c) => TypeOK'
<1>1. ASSUME TypeOK, Tick PROVE TypeOK'
  BY <1>1, RegistryAssumption
  DEF RegistryAssumption, Tick, callVars, TypeOK, Time
<1>2. ASSUME TypeOK, NEW c \in Callers, Crash(c) PROVE TypeOK'
  BY <1>2, EndCallTyped, RegistryAssumption
  DEF RegistryAssumption, Crash, LetGo, TypeOK
<1>3. QED
  BY <1>1, <1>2

LEMMA AcquireTypeOK ==
  ASSUME TypeOK, NEW c \in Callers, Acquire(c)
  PROVE  TypeOK'
<1>1. [by |-> c, claimedAt |-> now, beatAt |-> now] \in Claim
  BY DEF TypeOK, Claim
<1>2. tries' \in [Callers -> 0..MaxAttempts]
  BY RegistryAssumption DEF RegistryAssumption, Acquire, TypeOK
<1>3. QED
  BY <1>1, <1>2 DEF Acquire, Goto, TypeOK, Steps, AcquireSteps

-----------------------------------------------------------------------------
(* A caller inside acquire carries the claim it wants to link.             *)
Carrying == \A c \in Callers : pc[c] \in AcquireSteps => mine[c] \in Claim

LEMMA StepCarrying ==
  ASSUME TypeOK, Carrying, [Next]_vars
  PROVE  Carrying'
<1>1. ASSUME NEW d \in Callers, pc'[d] \in AcquireSteps
      PROVE  mine'[d] \in Claim
  <2>1. CASE pc'[d] = pc[d] /\ mine'[d] = mine[d]
    BY <1>1, <2>1 DEF Carrying
  <2>2. CASE Acquire(d)
    BY <2>2 DEF Acquire, TypeOK, Claim
  <2>3. CASE pc[d] \in AcquireSteps /\ mine'[d] = mine[d]
    BY <2>3 DEF Carrying
  <2>4. ASSUME NEW c \in Callers, Call(c) \/ Continue(c) \/ Crash(c)
        PROVE  mine'[d] \in Claim
    <3>1. CASE c # d
      <4>1. pc'[d] = pc[d] /\ mine'[d] = mine[d]
        BY <2>4, <3>1
        DEF TypeOK, Call, Continue, Crash, Acquire, Release, ReleaseFails,
            Heartbeat, Cleanup, ReadFree, ReadActive, ReadInactive, ReadFails,
            ReapMissing, Reap, ReapFails, SettleInactive, SettleActive,
            SettleFails, Link, Collide, LinkFails, ReleaseUnlink,
            HeartbeatOpen, HeartbeatWrite, HeartbeatRename, HeartbeatFails,
            CleanupUnlink,
            Goto, EndCall, Grant, Refuse, callVars
      <4>2. QED
        BY <4>1, <2>1
    <3>2. CASE c = d
      <4>1. \/ Acquire(d)
            \/ pc[d] \in AcquireSteps /\ mine'[d] = mine[d]
        BY <1>1, <2>4, <3>2
        DEF TypeOK, Call, Continue, Crash, Release, ReleaseFails,
            Heartbeat, Cleanup, ReadFree, ReadActive, ReadInactive, ReadFails,
            ReapMissing, Reap, ReapFails, SettleInactive, SettleActive,
            SettleFails, Link, Collide, LinkFails, ReleaseUnlink,
            HeartbeatOpen, HeartbeatWrite, HeartbeatRename, HeartbeatFails,
            CleanupUnlink,
            Goto, EndCall, Grant, Refuse, callVars, AcquireSteps, MayCall
      <4>2. QED
        BY <4>1, <2>2, <2>3
    <3>3. QED
      BY <3>1, <3>2
  <2>5. QED
    BY <2>1, <2>4 DEF Next, Tick, vars, callVars
<1>2. QED
  BY <1>1 DEF Carrying

LEMMA StepTypeOK ==
  ASSUME TypeOK, Carrying, [Next]_vars
  PROVE  TypeOK'
<1>1. ASSUME NEW c \in Callers, Call(c) PROVE TypeOK'
  BY <1>1, AcquireTypeOK, OwnerTypeOK, HeartbeatTypeOK DEF Call
<1>2. ASSUME NEW c \in Callers, Continue(c) PROVE TypeOK'
  BY <1>2, ReadTypeOK, ReapTypeOK, SettleTypeOK, LinkTypeOK, OwnerTypeOK,
     HeartbeatTypeOK
  DEF Continue, Carrying
<1>3. CASE UNCHANGED vars
  BY <1>3 DEF vars, callVars, TypeOK
<1>4. QED
  BY <1>1, <1>2, <1>3, OutsideTypeOK DEF Next

(* The variables keep their types, whatever the callers do.                *)
THEOREM TypeCorrect == Spec => [](TypeOK /\ Carrying)
<1>1. Init => TypeOK /\ Carrying
  BY InitTypeOK DEF Init, Carrying, AcquireSteps
<1>2. TypeOK /\ Carrying /\ [Next]_vars => (TypeOK /\ Carrying)'
  BY StepTypeOK, StepCarrying
<1>3. QED
  BY <1>1, <1>2, PTL DEF Spec
=============================================================================
