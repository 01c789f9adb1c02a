-------------------------- MODULE PrClaimLockProofs --------------------------
(***************************************************************************)
(* Three proofs about what the claim registry answers: who is refused and  *)
(* who is granted while no claim lapses, for any number of callers, and    *)
(* that two callers exclude each other when claims do lapse.               *)
(***************************************************************************)
EXTENDS PrClaimProofs

-----------------------------------------------------------------------------
(* Refusals.  As long as no call outlasts a clock threshold and no access  *)
(* fails, what appears at the path after a caller has seen it empty, or    *)
(* has emptied it, is a live claim or a torn one: so is what a link        *)
(* collides with.                                                          *)

(* A record on its way to the path bears the time of the call it is in.    *)
Stamped ==
  \A c \in Callers :
    /\ pc[c] \in AcquireSteps \cup {"beating", "filling"} =>
         mine[c] \in Claim /\ mine[c].beatAt = now
    /\ pc[c] \in {"filling", "renaming"} =>
         beatTmp \in {NoClaim, Malformed} \/ beatTmp.beatAt = now

(* No caller that has seen the path clear has a lapsed claim before it.    *)
ClearedStaysLive ==
  \A c \in Callers : pc[c] \in {"settling", "linking"} =>
    file \in {NoClaim, Malformed} \/ IsActive(file)

(* Whoever took a live claim aside has noted it. *)
TombNoted ==
  \A c \in Callers : pc[c] = "settling" /\ IsActive(tomb[c]) => met[c] # {}

RefusalInv ==
  TypeOK /\ Carrying /\ Stamped /\ ClearedStaysLive /\ TombNoted
  /\ RefusalJustified

LEMMA FreshIsActive ==
  ASSUME TypeOK, NEW x \in Claim, x.beatAt = now
  PROVE  IsActive(x)
  BY RegistryAssumption DEF RegistryAssumption, IsActive, TypeOK, Time

LEMMA NoFault ==
  ASSUME TypeOK, MaxFaults = 0, NEW c \in Callers
  PROVE  ~ Fault(c)
  BY DEF TypeOK, Fault

LEMMA RefusalInit == Init => RefusalInv
  BY InitTypeOK
  DEF Init, RefusalInv, Carrying, Stamped, ClearedStaysLive, TombNoted,
      RefusalJustified, AcquireSteps

\* A step of c leaves alone what the other callers' calls are about.
LEMMA OthersUntouched ==
  ASSUME TypeOK, NEW c \in Callers, Call(c) \/ Continue(c) \/ Crash(c),
         NEW d \in Callers, d # c
  PROVE  /\ pc'[d] = pc[d] /\ mine'[d] = mine[d] /\ tomb'[d] = tomb[d]
         /\ answer'[d] = answer[d] /\ met'[d] = met[d]
         /\ held'[d] = held[d] \/ HeartbeatWrite(c) \/ HeartbeatRename(c)
  BY DEF TypeOK, Call, Continue, Crash, Acquire, Release, ReleaseFails,
         Heartbeat, Cleanup, ReadFree, ReadActive, ReadInactive, ReadFails,
         ReapMissing, Reap, ReapFails, SettleInactive, SettleActive,
         SettleFails, Link, Collide, LinkFails, ReleaseUnlink,
         HeartbeatOpen, HeartbeatWrite, HeartbeatRename, HeartbeatFails,
         CleanupUnlink,
         Goto, EndCall, Grant, Refuse, LetGo, Fault, Meets,
         MeetsContender, callVars

\* What a step of c can put at the path: nothing, a live claim or a torn one.
LEMMA PathStep ==
  ASSUME TypeOK, Stamped, MaxFaults = 0, NEW c \in Callers,
         Call(c) \/ Continue(c) \/ Crash(c)
  PROVE  file' = file \/ file' \in {NoClaim, Malformed} \/ IsActive(file')
<1>1. CASE Call(c) \/ Crash(c)
  BY <1>1 DEF Call, Crash, Acquire, Release, ReleaseFails, Heartbeat, Cleanup
<1>2. CASE Link(c)
  BY <1>2, FreshIsActive DEF Link, Stamped, AcquireSteps
<1>3. CASE SettleActive(c)
  BY <1>3 DEF SettleActive, LinkedBack
<1>4. CASE HeartbeatRename(c)
  <2>1. CASE beatTmp \in {NoClaim, Malformed}
    BY <1>4, <2>1 DEF HeartbeatRename
  <2>2. CASE beatTmp \notin {NoClaim, Malformed}
    BY <1>4, <2>2, FreshIsActive DEF HeartbeatRename, Stamped, TypeOK, Content
  <2>3. QED
    BY <2>1, <2>2
<1>5. CASE SettleFails(c)
  BY <1>5, NoFault DEF SettleFails
<1>6. CASE HeartbeatWrite(c)
  BY <1>6, FreshIsActive DEF HeartbeatWrite, Stamped
<1>7. QED
  BY <1>1, <1>2, <1>3, <1>4, <1>5, <1>6, NoFault
  DEF Continue, ReadFree, ReadActive, ReadInactive, ReadFails,
      ReapMissing, Reap, ReapFails, SettleInactive, Collide, LinkFails,
      ReleaseUnlink, HeartbeatOpen, HeartbeatFails,
      CleanupUnlink, callVars

LEMMA StampedStep ==
  ASSUME TypeOK, Stamped, NEW c \in Callers,
         Call(c) \/ Continue(c) \/ Crash(c), TypeOK'
  PROVE  Stamped'
<1>1. now' = now
  BY DEF Call, Continue, Crash, Acquire, Release, ReleaseFails,
         Heartbeat, Cleanup, ReadFree, ReadActive, ReadInactive, ReadFails,
         ReapMissing, Reap, ReapFails, SettleInactive, SettleActive,
         SettleFails, Link, Collide, LinkFails, ReleaseUnlink,
         HeartbeatOpen, HeartbeatWrite, HeartbeatRename, HeartbeatFails,
         CleanupUnlink
<1>2. \/ beatTmp' = beatTmp
      \/ beatTmp' \in {NoClaim, Malformed}
      \/ HeartbeatWrite(c) /\ beatTmp' = mine[c] /\ beatTmp'.beatAt = now
  BY DEF Stamped, Call, Continue, Crash, Acquire, Release, ReleaseFails,
         Heartbeat, Cleanup, ReadFree, ReadActive, ReadInactive, ReadFails,
         ReapMissing, Reap, ReapFails, SettleInactive, SettleActive,
         SettleFails, Link, Collide, LinkFails, ReleaseUnlink,
         HeartbeatOpen, HeartbeatWrite, HeartbeatRename, HeartbeatFails,
         CleanupUnlink
<1>3. ASSUME NEW d \in Callers, d # c
      PROVE  /\ pc'[d] \in AcquireSteps \cup {"beating", "filling"} =>
                  mine'[d] \in Claim /\ mine'[d].beatAt = now'
             /\ pc'[d] \in {"filling", "renaming"} =>
                  beatTmp' \in {NoClaim, Malformed} \/ beatTmp'.beatAt = now'
  BY <1>1, <1>2, <1>3, OthersUntouched DEF Stamped
<1>4. pc'[c] \in {"filling", "renaming"} =>
        HeartbeatOpen(c) \/ HeartbeatWrite(c)
  BY DEF TypeOK, Call, Continue, Crash, Acquire, Release, ReleaseFails,
         Heartbeat, Cleanup, ReadFree, ReadActive, ReadInactive, ReadFails,
         ReapMissing, Reap, ReapFails, SettleInactive, SettleActive,
         SettleFails, Link, Collide, LinkFails, ReleaseUnlink,
         HeartbeatRename, HeartbeatFails, CleanupUnlink, MayCall,
         Goto, EndCall, Grant, Refuse
<1>5. \/ pc'[c] \notin AcquireSteps \cup {"beating", "filling"}
      \/ pc[c] \in AcquireSteps \cup {"beating"} /\ mine'[c] = mine[c]
      \/ Acquire(c)
      \/ Heartbeat(c)
  BY DEF TypeOK, Call, Continue, Crash, Release, ReleaseFails,
         Cleanup, ReadFree, ReadActive, ReadInactive, ReadFails,
         ReapMissing, Reap, ReapFails, SettleInactive, SettleActive,
         SettleFails, Link, Collide, LinkFails, ReleaseUnlink, HeartbeatOpen,
         HeartbeatWrite,
         HeartbeatRename, HeartbeatFails, CleanupUnlink, MayCall, callVars,
         Goto, EndCall, Grant, Refuse, AcquireSteps
<1>6. pc'[c] \in AcquireSteps \cup {"beating", "filling"} =>
        mine'[c] \in Claim /\ mine'[c].beatAt = now
  <2>1. CASE Acquire(c)
    BY <2>1 DEF Acquire, TypeOK, Claim
  <2>2. CASE Heartbeat(c)
    BY <2>2 DEF Heartbeat, TypeOK, Claim
  <2>3. QED
    BY <1>5, <2>1, <2>2 DEF Stamped
<1>7. pc'[c] \in {"filling", "renaming"} =>
        beatTmp' \in {NoClaim, Malformed} \/ beatTmp'.beatAt = now
  BY <1>4 DEF HeartbeatOpen, HeartbeatWrite, Stamped
<1>8. QED
  BY <1>1, <1>3, <1>6, <1>7 DEF Stamped

LEMMA ClearedStep ==
  ASSUME TypeOK, Stamped, ClearedStaysLive, MaxFaults = 0, NEW c \in Callers,
         Call(c) \/ Continue(c) \/ Crash(c)
  PROVE  \A d \in Callers : pc'[d] \in {"settling", "linking"} =>
           file' \in {NoClaim, Malformed} \/ IsActive(file')
<1>1. ASSUME NEW d \in Callers, d # c, pc'[d] \in {"settling", "linking"}
      PROVE  file' \in {NoClaim, Malformed} \/ IsActive(file')
  BY <1>1, OthersUntouched, PathStep DEF ClearedStaysLive
<1>2. ASSUME pc'[c] \in {"settling", "linking"}
      PROVE  file' \in {NoClaim, Malformed} \/ IsActive(file')
  <2>1. \/ ReadFree(c) \/ ReapMissing(c) \/ Reap(c) \/ SettleInactive(c)
    BY <1>2
    DEF TypeOK, Call, Continue, Crash, Acquire, Release, ReleaseFails,
        Heartbeat, Cleanup, ReadActive, ReadInactive, ReadFails,
        ReapFails, SettleActive, SettleFails, Link, Collide, LinkFails,
        ReleaseUnlink, HeartbeatOpen, HeartbeatWrite, HeartbeatRename,
        HeartbeatFails,
        CleanupUnlink, MayCall, Goto, EndCall, Grant, Refuse
  <2>2. QED
    BY <2>1
    DEF ReadFree, ReapMissing, Reap, SettleInactive, ClearedStaysLive
<1>3. QED
  BY <1>1, <1>2

LEMMA NotedStep ==
  ASSUME TypeOK, TombNoted, NEW c \in Callers,
         Call(c) \/ Continue(c) \/ Crash(c)
  PROVE  \A d \in Callers :
           pc'[d] = "settling" /\ IsActive(tomb'[d]) => met'[d] # {}
<1>1. ASSUME NEW d \in Callers, d # c, pc'[d] = "settling", IsActive(tomb'[d])
      PROVE  met'[d] # {}
  BY <1>1, OthersUntouched DEF TombNoted
<1>2. ASSUME pc'[c] = "settling", IsActive(tomb'[c])
      PROVE  met'[c] # {}
  <2>1. Reap(c)
    BY <1>2
    DEF TypeOK, Call, Continue, Crash, Acquire, Release, ReleaseFails,
        Heartbeat, Cleanup, ReadFree, ReadActive, ReadInactive, ReadFails,
        ReapMissing, ReapFails, SettleInactive, SettleActive, SettleFails,
        Link, Collide, LinkFails, ReleaseUnlink, HeartbeatOpen, HeartbeatWrite,
        HeartbeatRename, HeartbeatFails, CleanupUnlink, MayCall,
        Goto, EndCall, Grant, Refuse
  <2>2. tomb'[c] = file /\ Meets(c, file)
    BY <2>1 DEF Reap, TypeOK
  <2>3. QED
    BY <1>2, <2>2 DEF Meets, TypeOK
<1>3. QED
  BY <1>1, <1>2

LEMMA JustifiedStep ==
  ASSUME TypeOK, ClearedStaysLive, TombNoted, RefusalJustified,
         MaxFaults = 0, NEW c \in Callers,
         Call(c) \/ Continue(c) \/ Crash(c)
  PROVE  RefusalJustified'
<1>1. ASSUME NEW d \in Callers, d # c, answer'[d] = "refused"
      PROVE  met'[d] # {}
  BY <1>1, OthersUntouched DEF RefusalJustified
<1>2. ASSUME answer'[c] = "refused"
      PROVE  met'[c] # {}
  <2>1. CASE answer'[c] = answer[c] /\ met'[c] = met[c]
    BY <1>2, <2>1 DEF RefusalJustified
  <2>2. CASE ReadActive(c)
    BY <2>2 DEF ReadActive, Meets, TypeOK
  <2>3. CASE SettleActive(c)
    BY <2>3 DEF SettleActive, TombNoted
  <2>4. CASE Collide(c)
    <3>1. IsActive(file) \/ file = Malformed
      BY <2>4 DEF Collide, ClearedStaysLive
    <3>2. MeetsContender(c, file)
      BY <2>4 DEF Collide
    <3>3. {k \in {"live", "torn"} :
             \/ k = "live" /\ IsActive(file)
             \/ k = "torn" /\ file = Malformed} # {}
      BY <3>1
    <3>4. QED
      BY <3>2, <3>3 DEF MeetsContender, TypeOK
  <2>5. CASE \/ ReadFails(c) \/ ReapFails(c) \/ SettleFails(c) \/ LinkFails(c)
             \/ ReleaseFails(c) \/ HeartbeatFails(c)
    BY <2>5, NoFault DEF ReadFails, ReapFails, SettleFails, LinkFails,
                         ReleaseFails, HeartbeatFails
  <2>6. CASE Acquire(c) \/ Link(c)
    BY <1>2, <2>6 DEF Acquire, Link, Grant, TypeOK
  <2>7. CASE CleanupUnlink(c) \/ Reap(c)
    BY <1>2, <2>7, NoFault
    DEF CleanupUnlink, Reap, Meets, TypeOK, RefusalJustified
  <2>8. QED
    BY <2>1, <2>2, <2>3, <2>4, <2>5, <2>6, <2>7
    DEF Call, Continue, Crash, Release, Heartbeat, Cleanup, ReadFree,
        ReadInactive, ReapMissing, SettleInactive, ReleaseUnlink,
        HeartbeatOpen, HeartbeatWrite, HeartbeatRename
<1>3. QED
  BY <1>1, <1>2 DEF RefusalJustified

LEMMA RefusalStep ==
  ASSUME RefusalInv, SleepMidCall = FALSE, MaxFaults = 0, [Next]_vars
  PROVE  RefusalInv'
<1>1. TypeOK' /\ Carrying'
  BY StepTypeOK, StepCarrying DEF RefusalInv
<1>2. CASE UNCHANGED vars
  BY <1>1, <1>2
  DEF RefusalInv, Stamped, ClearedStaysLive, TombNoted, RefusalJustified,
      IsActive, vars, callVars
<1>3. CASE Tick
  <2>1. \A c \in Callers : pc'[c] = "idle"
    BY <1>3 DEF Tick
  <2>2. RefusalJustified'
    BY <1>3 DEF Tick, RefusalInv, RefusalJustified
  <2>3. QED
    BY <1>1, <2>1, <2>2
    DEF RefusalInv, Stamped, ClearedStaysLive, TombNoted, AcquireSteps
<1>4. ASSUME NEW c \in Callers, Call(c) \/ Continue(c) \/ Crash(c)
      PROVE  RefusalInv'
  <2>1. now' = now
    BY <1>4
    DEF Call, Continue, Crash, Acquire, Release, ReleaseFails,
        Heartbeat, Cleanup, ReadFree, ReadActive, ReadInactive, ReadFails,
        ReapMissing, Reap, ReapFails, SettleInactive, SettleActive,
        SettleFails, Link, Collide, LinkFails, ReleaseUnlink,
        HeartbeatOpen, HeartbeatWrite, HeartbeatRename, HeartbeatFails,
        CleanupUnlink
  <2>2. Stamped' /\ RefusalJustified'
    BY <1>1, <1>4, StampedStep, JustifiedStep DEF RefusalInv
  <2>3. ClearedStaysLive'
    <3>1. IsActive(file') <=> IsActive(file)'
      BY <2>1 DEF IsActive
    <3>2. QED
      BY <1>4, <3>1, ClearedStep DEF RefusalInv, ClearedStaysLive
  <2>4. TombNoted'
    <3>1. \A d \in Callers : IsActive(tomb[d])' <=> IsActive(tomb'[d])
      BY <2>1 DEF IsActive
    <3>2. QED
      BY <1>4, <3>1, NotedStep DEF RefusalInv, TombNoted
  <2>5. QED
    BY <1>1, <2>2, <2>3, <2>4 DEF RefusalInv
<1>5. QED
  BY <1>2, <1>3, <1>4 DEF Next

(* For any number of callers: as long as no call outlasts a threshold and   *)
(* no access fails, acquire turns a caller away only after it has met a    *)
(* live claim or one that heartbeats have torn.                            *)
THEOREM RefusalsJustified ==
  ASSUME SleepMidCall = FALSE, MaxFaults = 0
  PROVE  Spec => []RefusalJustified
<1>1. Init => RefusalInv
  BY RefusalInit
<1>2. RefusalInv /\ [Next]_vars => RefusalInv'
  BY RefusalStep
<1>3. RefusalInv => RefusalJustified
  BY DEF RefusalInv
<1>4. QED
  BY <1>1, <1>2, <1>3, PTL DEF Spec

-----------------------------------------------------------------------------
(* Exclusion.  As long as no claim can lapse, nothing fails and no caller   *)
(* is killed, the path holds the claim of whoever goes ahead, so that two  *)
(* callers that go ahead are one.                                          *)

(* No two callers pass for each other: those of one run name their lanes.  *)
SeparateOwners ==
  \A c, d \in Callers :
    c # d /\ Run[c] = Run[d] => BothKnownDiffer(Lane[c], Lane[d])

NoLapse ==
  /\ MaxTime =< ClaimStale
  /\ MaxFaults = 0
  /\ MaxCrashes = 0
  /\ Leftover = {NoClaim}
  /\ LateCalls \subseteq {"release", "cleanup"}

LockInv ==
  /\ TypeOK
  /\ Carrying
  /\ file # Malformed
  /\ \A c \in Callers :
       /\ pc[c] \notin {"reaping", "settling", "cleaning"}
       /\ held[c] \in Claim => file = held[c] /\ file.by = c
       /\ pc[c] \in AcquireSteps => mine[c] \in Claim /\ mine[c].by = c
       /\ pc[c] = "unlinking" =>
            file \in Claim /\ file.by = c /\ held[c] = NoClaim
       /\ pc[c] \in {"beating", "filling", "renaming"} =>
            held[c] \in Claim /\ SameClaim(mine[c], held[c])
       /\ pc[c] = "filling" => beatTmp = Malformed
       /\ pc[c] = "renaming" => beatTmp = mine[c]

LEMMA LockInit == ASSUME NoLapse PROVE Init => LockInv
  BY InitTypeOK, ContentAssumption, RegistryAssumption
  DEF Init, LockInv, Carrying, NoLapse, AcquireSteps, ContentAssumption,
      RegistryAssumption

LEMMA OwnIsMine ==
  ASSUME SeparateOwners, TypeOK, NEW x \in Claim, NEW c \in Callers, NEW s,
         IsOwnClaim(x, c, s)
  PROVE  x.by = c
  BY DEF SeparateOwners, IsOwnClaim, Claim

LEMMA NothingLapses ==
  ASSUME NoLapse, TypeOK, NEW x \in Claim
  PROVE  IsActive(x)
<1>1. x.claimedAt \in Time /\ now \in Time
  BY DEF Claim, TypeOK
<1>2. now - x.claimedAt =< ClaimStale
  BY <1>1, RegistryAssumption DEF RegistryAssumption, Time, NoLapse
<1>3. QED
  BY <1>2 DEF IsActive

LEMMA LockStep ==
  ASSUME SeparateOwners, NoLapse, LockInv, [Next]_vars
  PROVE  LockInv'
<1> USE ContentAssumption DEF ContentAssumption
<1>0. NoClaim # Malformed
  BY RegistryAssumption DEF RegistryAssumption
<1>1. TypeOK' /\ Carrying'
  BY StepTypeOK, StepCarrying DEF LockInv
<1>2. CASE UNCHANGED vars \/ Tick
  BY <1>1, <1>2 DEF LockInv, Tick, vars, callVars
<1>3. ASSUME NEW c \in Callers, Call(c) \/ Continue(c) \/ Crash(c)
      PROVE  LockInv'
  <2>1. ~ Fault(c) /\ ~ Crash(c)
    BY NoFault DEF LockInv, NoLapse, Crash, TypeOK
  <2>2. file = NoClaim \/ (file \in Claim /\ IsActive(file))
    BY NothingLapses DEF LockInv, TypeOK, Content
  <2>3. ~ OtherBeats(c) \/ pc[c] \notin {"filling", "renaming"}
    BY DEF LockInv, OtherBeats
  <2>4. \A d \in Callers \ {c} :
          /\ pc'[d] = pc[d] /\ mine'[d] = mine[d] /\ held'[d] = held[d]
    <3>1. ASSUME NEW d \in Callers, d # c,
                 HeartbeatWrite(c) \/ HeartbeatRename(c)
          PROVE  held'[d] = held[d]
      <4>1. CASE HeartbeatWrite(c)
        BY <1>0, <2>3, <4>1 DEF HeartbeatWrite, LockInv
      <4>2. CASE HeartbeatRename(c)
        <5>1. held[c] \in Claim /\ beatTmp = mine[c]
              /\ SameClaim(mine[c], held[c])
          BY <4>2 DEF HeartbeatRename, LockInv
        <5>2. held[d] \notin Claim
          BY <3>1, <5>1 DEF LockInv
        <5>3. QED
          BY <3>1, <4>2, <5>2 DEF HeartbeatRename, Renew, SameClaim
      <4>3. QED
        BY <3>1, <4>1, <4>2
    <3>2. QED
      BY <1>3, <3>1, OthersUntouched DEF LockInv
  <2>5. CASE Acquire(c)
    BY <1>1, <2>4, <2>5 DEF LockInv, Acquire, Goto, TypeOK, AcquireSteps, Claim
  <2>6. CASE ReadFree(c)
    BY <1>1, <2>4, <2>6 DEF LockInv, ReadFree, Goto, TypeOK, AcquireSteps,
                            callVars
  <2>7. CASE ReadActive(c)
    <3>1. EndCall(c)
      BY <2>7 DEF ReadActive, Grant, Refuse
    <3>2. held'[c] \in Claim => file = held'[c] /\ file.by = c
      BY <2>2, <2>7, OwnIsMine
      DEF LockInv, ReadActive, Grant, Refuse, Own, TypeOK, IsActive
    <3>3. pc'[c] = "idle" /\ file' = file /\ beatTmp' = beatTmp
      BY <2>7, <3>1 DEF ReadActive, EndCall, Goto, LockInv, TypeOK
    <3>4. QED
      BY <1>1, <2>4, <3>2, <3>3 DEF LockInv, AcquireSteps
  <2>8. CASE Link(c)
    <3>1. EndCall(c) /\ held' = [held EXCEPT ![c] = mine[c]]
      BY <2>8 DEF Link, Grant
    <3>2. mine[c] \in Claim /\ mine[c].by = c /\ file' = mine[c]
      BY <2>8 DEF LockInv, Link, AcquireSteps
    <3>3. \A d \in Callers : held[d] \notin Claim
                            /\ pc[d] \notin {"unlinking", "beating",
                            "renaming"}
      BY <2>8 DEF LockInv, Link
    <3>4. QED
      BY <1>1, <2>4, <2>8, <3>1, <3>2, <3>3
      DEF LockInv, Link, EndCall, Goto, TypeOK, AcquireSteps
  <2>9. CASE Collide(c)
    BY <1>1, <2>4, <2>9
    DEF LockInv, Collide, Refuse, EndCall, Goto, TypeOK, AcquireSteps
  <2>10. CASE Release(c)
    <3>1. MayRelease(c) => file \in Claim /\ file.by = c
      BY <2>2, OwnIsMine DEF LockInv, MayRelease
    <3>2. pc[c] = "idle" /\ held'[c] = NoClaim
      BY <2>10 DEF Release, MayCall, LetGo, LockInv, TypeOK
    <3>3. pc'[c] = "idle" \/ (pc'[c] = "unlinking" /\ MayRelease(c))
      BY <2>10, <3>2 DEF Release, Goto, LockInv, TypeOK
    <3>4. QED
      BY <1>1, <2>4, <2>10, <3>1, <3>2, <3>3
      DEF LockInv, Release, AcquireSteps
  <2>11. CASE ReleaseUnlink(c)
    <3>1. \A d \in Callers \ {c} :
            held[d] \notin Claim
            /\ pc[d] \notin {"unlinking", "beating", "filling", "renaming"}
      BY <2>11 DEF LockInv, ReleaseUnlink
    <3>2. held[c] = NoClaim /\ pc'[c] = "idle"
      BY <2>11 DEF LockInv, ReleaseUnlink, EndCall, Goto, TypeOK
    <3>3. QED
      BY <1>0, <1>1, <2>4, <2>11, <3>1, <3>2
      DEF LockInv, ReleaseUnlink, AcquireSteps
  <2>12. CASE Heartbeat(c)
    <3>1. held[c] \in Claim
      BY <2>12 DEF Heartbeat, MayCall, NoLapse, Holds, IsActive
    <3>2. file = held[c] /\ file \in Claim
      BY <3>1 DEF LockInv
    <3>3. [file EXCEPT !.beatAt = now] \in Claim
      BY <3>2 DEF LockInv, Claim, TypeOK
    <3>4. SameClaim([file EXCEPT !.beatAt = now], held[c])
      BY <3>2, <3>3 DEF SameClaim, Claim
    <3>5. mine'[c] = [file EXCEPT !.beatAt = now] /\ pc'[c] = "beating"
      BY <2>12 DEF Heartbeat, Goto, LockInv, TypeOK
    <3>6. held'[c] = held[c] /\ file' = file /\ beatTmp' = beatTmp
      BY <2>12 DEF Heartbeat
    <3>7. SameClaim(mine'[c], held'[c])
      BY <3>4, <3>5, <3>6
    <3>8. pc'[c] = "beating"
      BY <3>5
    <3>9. ASSUME NEW d \in Callers
          PROVE  /\ pc'[d] \in {"beating", "filling", "renaming"} =>
                      held'[d] \in Claim /\ SameClaim(mine'[d], held'[d])
                 /\ pc'[d] = "filling" => beatTmp' = Malformed
                 /\ pc'[d] = "renaming" => beatTmp' = mine'[d]
      BY <2>4, <3>1, <3>6, <3>7, <3>8 DEF LockInv
    <3>10. QED
      BY <1>1, <2>4, <3>6, <3>8, <3>9 DEF LockInv, AcquireSteps, SameClaim
  <2>13. CASE HeartbeatWrite(c)
    <3>0. beatTmp = Malformed /\ ~ OtherBeats(c)
      BY <2>3, <2>13 DEF LockInv, HeartbeatWrite
    <3>1. \A d \in Callers \ {c} : pc[d] \notin {"filling", "renaming"}
      BY <3>0 DEF OtherBeats
    <3>2. /\ pc'[c] = "renaming" /\ beatTmp' = mine[c]
          /\ mine'[c] = mine[c] /\ held'[c] = held[c] /\ file' = file
      BY <1>0, <2>13, <3>0 DEF LockInv, HeartbeatWrite, Goto, TypeOK, callVars
    <3>3. held[c] \in Claim /\ SameClaim(mine[c], held[c])
      BY <2>13 DEF LockInv, HeartbeatWrite
    <3>4. QED
      BY <1>1, <2>4, <3>1, <3>2, <3>3 DEF LockInv, AcquireSteps, SameClaim
  <2>14. CASE HeartbeatRename(c)
    <3>1. /\ held[c] \in Claim /\ file = held[c] /\ file.by = c
          /\ beatTmp = mine[c] /\ SameClaim(mine[c], held[c])
      BY <2>14 DEF LockInv, HeartbeatRename
    <3>2. beatTmp \in Claim /\ beatTmp # NoClaim /\ beatTmp.by = c
      BY <3>1 DEF SameClaim
    <3>3. file' = beatTmp /\ held'[c] = beatTmp
      BY <2>14, <3>1, <3>2
      DEF HeartbeatRename, Renew, SameClaim, LockInv, TypeOK
    <3>4. \A d \in Callers \ {c} :
            held[d] \notin Claim
            /\ pc[d] \notin {"unlinking", "beating", "filling", "renaming"}
      BY <2>14 DEF LockInv, HeartbeatRename
    <3>5. pc'[c] = "idle"
      BY <2>14 DEF LockInv, HeartbeatRename, EndCall, Goto, TypeOK
    <3>6. file' # Malformed
      BY <3>2, <3>3
    <3>7. QED
      BY <1>1, <2>4, <3>2, <3>3, <3>4, <3>5, <3>6 DEF LockInv, AcquireSteps
  <2>15. CASE \/ ReadInactive(c) \/ ReapMissing(c) \/ Reap(c)
              \/ SettleInactive(c) \/ SettleActive(c) \/ Cleanup(c)
              \/ CleanupUnlink(c) \/ ReapFails(c) \/ SettleFails(c)
    BY <2>2, <2>15
    DEF LockInv, ReadInactive, ReapMissing, Reap, SettleInactive,
        SettleActive, Cleanup, CleanupUnlink, ReapFails, SettleFails
  <2>16. CASE HeartbeatOpen(c)
    <3>1. \A d \in Callers \ {c} : pc[d] \notin {"filling", "renaming"}
      BY <2>16 DEF LockInv, HeartbeatOpen
    <3>2. /\ pc'[c] = "filling" /\ beatTmp' = Malformed
          /\ mine'[c] = mine[c] /\ held'[c] = held[c] /\ file' = file
      BY <2>16 DEF LockInv, HeartbeatOpen, Goto, TypeOK, callVars
    <3>3. held[c] \in Claim /\ SameClaim(mine[c], held[c])
      BY <2>16 DEF LockInv, HeartbeatOpen
    <3>4. QED
      BY <1>1, <2>4, <3>1, <3>2, <3>3 DEF LockInv, AcquireSteps, SameClaim
  <2>17. QED
    BY <1>3, <2>1, <2>5, <2>6, <2>7, <2>8, <2>9, <2>10, <2>11, <2>12, <2>13,
       <2>14, <2>15, <2>16
    DEF Call, Continue, ReadFails, LinkFails, ReleaseFails, HeartbeatFails
<1>4. QED
  BY <1>2, <1>3 DEF Next

(* For any number of callers that do not pass for each other: while no     *)
(* claim can lapse, no access fails and nobody is killed, two owners never *)
(* go ahead at once, and neither release nor heartbeat can change that.    *)
THEOREM ExclusiveUntilLapse ==
  ASSUME SeparateOwners, NoLapse
  PROVE  Spec => []MutualExclusion
<1>1. Init => LockInv
  BY LockInit
<1>2. LockInv /\ [Next]_vars => LockInv'
  BY LockStep
<1>3. LockInv => MutualExclusion
  BY DEF LockInv, MutualExclusion, Holds, IsActive, SameOwner
<1>4. QED
  BY <1>1, <1>2, <1>3, PTL DEF Spec

-----------------------------------------------------------------------------
(* Exclusion across a lapse.  With two callers a claim may lapse and be      *)
(* reaped, and a claim that races the reaper still comes back: whoever      *)
(* took a live claim aside is the only other caller, and puts it back       *)
(* before it does anything else.                                           *)

TwoCallers == \A c, d, e \in Callers : c = d \/ d = e \/ c = e

(* Nothing fails, nobody is killed, no call outlasts a threshold, and who   *)
(* has let its claim lapse comes back to release or clean up at most, at a *)
(* time at which no claim can have lapsed yet.                             *)
Orderly ==
  /\ SleepMidCall = FALSE
  /\ MaxFaults = 0
  /\ MaxCrashes = 0
  /\ LateCalls \subseteq {"release", "cleanup"}
  /\ LateCalls # {} => LateUntil =< ClaimStale

(* Claim x is at the path, or with a caller about to put it back there.     *)
Kept(x) ==
  \/ file = x
  \/ file = NoClaim /\ \E d \in Callers : pc[d] = "settling" /\ tomb[d] = x

(* A live claim of c is kept, whether c still goes ahead on it or not.      *)
Standing(c) == \E x \in Claim : x.by = c /\ IsActive(x) /\ Kept(x)

(* What a caller goes ahead on is its own, and is kept. *)
HoldersKept ==
  \A c \in Callers :
    /\ held[c] \in Claim => held[c].by = c
    /\ Holds(c) => Kept(held[c])

(* Claim x is at the path or has been moved aside. *)
About(x) ==
  file = x \/ \E d \in Callers : pc[d] = "settling" /\ tomb[d] = x

(* Nobody reaps while a live claim of its own is about. *)
ReapersClear ==
  \A c \in Callers : pc[c] \in {"reaping", "settling"} =>
    \A x \in Claim : x.by = c /\ IsActive(x) => ~ About(x)

(* Every call acts on its caller's own claim. *)
ActsOnOwn ==
  \A c \in Callers :
    /\ pc[c] # "cleaning"
    /\ pc[c] \in AcquireSteps => mine[c].by = c
    /\ pc[c] = "unlinking" => held[c] = NoClaim /\ Standing(c)
    /\ pc[c] \in {"beating", "filling", "renaming"} =>
         Holds(c) /\ SameClaim(mine[c], held[c])
    /\ pc[c] = "filling" => beatTmp = Malformed
    /\ pc[c] = "renaming" => beatTmp = mine[c]

(* Heartbeats never meet, so that a path seen clear never holds a torn one. *)
Untorn ==
  \A c \in Callers : pc[c] \in {"settling", "linking"} => file # Malformed

RaceInv ==
  /\ TypeOK /\ Carrying /\ Stamped /\ ClearedStaysLive /\ Untorn
  /\ HoldersKept /\ ReapersClear /\ ActsOnOwn

LEMMA NotAClaim == NoClaim \notin Claim /\ ~ IsActive(NoClaim)
  BY ContentAssumption DEF ContentAssumption, IsActive

LEMMA RaceInit == Init => RaceInv
<1>1. SUFFICES ASSUME Init
               PROVE  RaceInv
  OBVIOUS
<1>2. \A c \in Callers : pc[c] = "idle" /\ held[c] = NoClaim
  BY <1>1 DEF Init
<1>3. TypeOK
  BY <1>1, InitTypeOK
<1>4. Carrying /\ Stamped /\ ClearedStaysLive /\ Untorn
  BY <1>2 DEF Carrying, Stamped, ClearedStaysLive, Untorn, AcquireSteps
<1>5. HoldersKept
  BY <1>2, NotAClaim DEF HoldersKept, Holds
<1>6. ReapersClear /\ ActsOnOwn
  BY <1>2 DEF ReapersClear, ActsOnOwn, AcquireSteps
<1>7. QED
  BY <1>3, <1>4, <1>5, <1>6 DEF RaceInv

LEMMA NowStays ==
  ASSUME NEW c \in Callers, Call(c) \/ Continue(c) \/ Crash(c)
  PROVE  now' = now
  BY DEF Call, Continue, Crash, Acquire, Release, ReleaseFails,
         Heartbeat, Cleanup, ReadFree, ReadActive, ReadInactive, ReadFails,
         ReapMissing, Reap, ReapFails, SettleInactive, SettleActive,
         SettleFails, Link, Collide, LinkFails, ReleaseUnlink,
         HeartbeatOpen, HeartbeatWrite, HeartbeatRename, HeartbeatFails,
         CleanupUnlink

\* A caller that goes ahead has a claim that stands.
LEMMA HolderStands ==
  ASSUME TypeOK, HoldersKept, NEW c \in Callers, Holds(c)
  PROVE  /\ held[c] \in Claim /\ held[c].by = c
         /\ IsActive(held[c]) /\ Kept(held[c]) /\ Standing(c)
  BY DEF HoldersKept, Holds, IsActive, Standing

\* The claims of two callers are never both kept.
LEMMA OneStanding ==
  ASSUME TwoCallers, RaceInv,
         NEW c \in Callers, NEW d \in Callers, Standing(c), Standing(d)
  PROVE  c = d
<1>1. SUFFICES ASSUME c # d
               PROVE  FALSE
  OBVIOUS
<1>2. PICK x \in Claim : x.by = c /\ IsActive(x) /\ Kept(x)
  BY DEF Standing
<1>3. PICK y \in Claim : y.by = d /\ IsActive(y) /\ Kept(y)
  BY DEF Standing
<1>4. x # y /\ x # NoClaim /\ y # NoClaim
  BY <1>1, <1>2, <1>3, NotAClaim
<1>5. file = NoClaim
  BY <1>2, <1>3, <1>4 DEF Kept
<1>6. PICK e \in Callers : pc[e] = "settling" /\ tomb[e] = x
  BY <1>2, <1>4, <1>5 DEF Kept
<1>7. PICK f \in Callers : pc[f] = "settling" /\ tomb[f] = y
  BY <1>3, <1>4, <1>5 DEF Kept
<1>8. e # c /\ f # d /\ f # c /\ e # d
  BY <1>2, <1>3, <1>6, <1>7 DEF RaceInv, ReapersClear, About
<1>9. QED
  BY <1>1, <1>8 DEF TwoCallers

\* A reaper has no claim that stands, and so does not go ahead.
LEMMA ReaperHasNone ==
  ASSUME RaceInv, NEW c \in Callers, pc[c] \in {"reaping", "settling"}
  PROVE  ~ Standing(c) /\ ~ Holds(c)
<1>1. ~ Standing(c)
  BY DEF RaceInv, ReapersClear, About, Standing, Kept
<1>2. QED
  BY <1>1, HolderStands DEF RaceInv

\* A claim that lapsed at the path is the only one there is.
LEMMA LapsedIsAlone ==
  ASSUME RaceInv, file # NoClaim, ~ IsActive(file), NEW c \in Callers
  PROVE  ~ Holds(c) /\ pc[c] \in {"idle", "reading", "reaping"}
<1>1. ~ Standing(c)
  BY DEF Standing, Kept
<1>2. ~ Holds(c)
  BY <1>1, HolderStands DEF RaceInv
<1>3. pc[c] \notin {"settling", "linking", "unlinking", "beating", "filling",
                    "renaming", "cleaning"}
  BY <1>1, <1>2 DEF RaceInv, ClearedStaysLive, Untorn, ActsOnOwn
<1>4. QED
  BY <1>2, <1>3 DEF RaceInv, TypeOK, Steps, AcquireSteps

\* No step of another caller loses a live claim.
LEMMA KeptStep ==
  ASSUME TwoCallers, SeparateOwners, Orderly, RaceInv,
         NEW x \in Claim, IsActive(x), Kept(x),
         NEW d \in Callers, d # x.by, Call(d) \/ Continue(d) \/ Crash(d)
  PROVE  Kept(x)'
<1>0. x # NoClaim /\ x.by \in Callers /\ TypeOK
  BY NotAClaim DEF Claim, RaceInv
<1>1. Standing(x.by)
  BY DEF Standing
<1>2. ~ Standing(d) /\ ~ Holds(d)
  BY <1>0, <1>1, OneStanding, HolderStands DEF RaceInv
<1>3. pc[d] \notin {"unlinking", "beating", "filling",
                    "renaming", "cleaning"}
  BY <1>2 DEF RaceInv, ActsOnOwn
<1>4. ~ Fault(d) /\ ~ Crash(d)
  BY <1>0, NoFault DEF Orderly, Crash, TypeOK
<1>5. ASSUME NEW e \in Callers, e # d
      PROVE  pc'[e] = pc[e] /\ tomb'[e] = tomb[e]
  BY <1>0, <1>5, OthersUntouched
<1>6. file = NoClaim => pc[d] = "settling" /\ tomb[d] = x
  <2>1. ASSUME file = NoClaim
        PROVE  pc[d] = "settling" /\ tomb[d] = x
    <3>1. PICK e \in Callers : pc[e] = "settling" /\ tomb[e] = x
      BY <1>0, <2>1 DEF Kept
    <3>2. e # x.by
      BY <3>1 DEF RaceInv, ReapersClear, About
    <3>3. QED
      BY <1>0, <3>1, <3>2 DEF TwoCallers
  <2>2. QED
    BY <2>1
<1>7. file = NoClaim \/ file = x
  BY DEF Kept
<1>8. CASE Reap(d)
  <2>1. file = x
    BY <1>7, <1>8 DEF Reap
  <2>2. file' = NoClaim /\ pc'[d] = "settling" /\ tomb'[d] = x
    BY <1>0, <1>8, <2>1 DEF Reap, Goto, TypeOK
  <2>3. QED
    BY <2>2 DEF Kept
<1>9. CASE SettleActive(d)
  <2>1. file' = x
    BY <1>6, <1>7, <1>9 DEF SettleActive, LinkedBack
  <2>2. QED
    BY <2>1 DEF Kept
<1>10. CASE pc[d] # "settling" /\ file' = file
  BY <1>0, <1>6, <1>7, <1>10 DEF Kept
<1>11. CASE SettleInactive(d)
  <2>1. file = x
    BY <1>6, <1>7, <1>11 DEF SettleInactive
  <2>2. QED
    BY <1>11, <2>1 DEF SettleInactive, Kept
<1>12. CASE Link(d)
  BY <1>6, <1>12 DEF Link
<1>13. QED
  BY <1>3, <1>4, <1>8, <1>9, <1>10, <1>11, <1>12
  DEF Call, Continue, Acquire, Release, ReleaseFails, Heartbeat, Cleanup,
      MayCall, ReadFree, ReadActive, ReadInactive, ReadFails, ReapMissing,
      ReapFails, SettleFails, Collide, LinkFails, ReleaseUnlink,
      HeartbeatOpen, HeartbeatWrite, HeartbeatRename, HeartbeatFails,
      CleanupUnlink

\* No two heartbeats overlap.
LEMMA AloneBeating ==
  ASSUME TwoCallers, RaceInv, NEW c \in Callers,
         pc[c] \in {"beating", "filling", "renaming"}
  PROVE  ~ OtherBeats(c)
<1>1. ASSUME NEW d \in Callers, d # c, pc[d] \in {"filling", "renaming"}
      PROVE  FALSE
  <2>1. Standing(c) /\ Standing(d)
    BY <1>1, HolderStands DEF RaceInv, ActsOnOwn
  <2>2. QED
    BY <1>1, <2>1, OneStanding
<1>2. QED
  BY <1>1 DEF OtherBeats

\* A heartbeat renews its own caller's claim.
LEMMA HeldStays ==
  ASSUME TwoCallers, RaceInv, NEW c \in Callers,
         HeartbeatWrite(c) \/ HeartbeatRename(c),
         NEW d \in Callers, d # c
  PROVE  held'[d] = held[d]
<1>1. CASE HeartbeatWrite(c)
  <2>1. beatTmp # NoClaim
    BY <1>1, RegistryAssumption
    DEF HeartbeatWrite, RaceInv, ActsOnOwn, RegistryAssumption
  <2>2. QED
    BY <1>1, <2>1, AloneBeating DEF HeartbeatWrite
<1>2. CASE HeartbeatRename(c)
  <2>1. beatTmp = mine[c] /\ SameClaim(mine[c], held[c])
    BY <1>2 DEF HeartbeatRename, RaceInv, ActsOnOwn
  <2>2. held[c].by = c /\ (held[d] \in Claim => held[d].by = d)
    BY <2>1 DEF RaceInv, HoldersKept, SameClaim
  <2>3. ~ SameClaim(held[d], beatTmp)
    BY <2>1, <2>2 DEF SameClaim
  <2>4. QED
    BY <1>2, <2>3 DEF HeartbeatRename, Renew
<1>3. QED
  BY <1>1, <1>2

LEMMA StandingStep ==
  ASSUME TwoCallers, SeparateOwners, Orderly, RaceInv,
         NEW c \in Callers, Standing(c),
         NEW d \in Callers, d # c, Call(d) \/ Continue(d) \/ Crash(d)
  PROVE  Standing(c)'
<1>1. PICK x \in Claim : x.by = c /\ IsActive(x) /\ Kept(x)
  BY DEF Standing
<1>2. Kept(x)'
  BY <1>1, KeptStep
<1>3. IsActive(x)'
  BY <1>1, NowStays DEF IsActive
<1>4. QED
  BY <1>1, <1>2, <1>3 DEF Standing

LEMMA HoldersKeptStep ==
  ASSUME TwoCallers, SeparateOwners, Orderly, RaceInv,
         NEW c \in Callers, Call(c) \/ Continue(c) \/ Crash(c)
  PROVE  HoldersKept'
<1>0. TypeOK
  BY DEF RaceInv
<1>1. ~ Fault(c) /\ ~ Crash(c)
  BY <1>0, NoFault DEF Orderly, Crash, TypeOK
<1>2. ASSUME NEW d \in Callers, d # c
      PROVE  /\ held'[d] \in Claim => held'[d].by = d
             /\ Holds(d)' => Kept(held[d])'
  <2>1. held'[d] = held[d]
    BY <1>0, <1>2, OthersUntouched, HeldStays
  <2>2. held[d] \in Claim => held[d].by = d
    BY DEF RaceInv, HoldersKept
  <2>3. Holds(d)' => Holds(d)
    BY <2>1, NowStays DEF Holds, IsActive
  <2>4. ASSUME Holds(d)
        PROVE  Kept(held[d])'
    <3>1. held[d] \in Claim /\ IsActive(held[d]) /\ Kept(held[d])
      BY <2>4, HolderStands DEF RaceInv
    <3>2. ASSUME NEW x \in Claim, x = held[d]
          PROVE  Kept(x)'
      BY <1>2, <2>2, <3>1, <3>2, KeptStep
    <3>3. QED
      BY <2>1, <3>1, <3>2 DEF Kept
  <2>5. QED
    BY <2>1, <2>2, <2>3, <2>4
<1>3. /\ held'[c] \in Claim => held'[c].by = c
      /\ Holds(c)' => Kept(held[c])'
  <2>1. CASE ReadActive(c)
    <3>1. held'[c] = NoClaim \/ (held'[c] = file /\ file.by = c)
      BY <1>0, <2>1, OwnIsMine
      DEF ReadActive, Grant, Refuse, Own, IsActive, TypeOK
    <3>2. file' = file
      BY <2>1 DEF ReadActive
    <3>3. Kept(file)'
      BY <3>2 DEF Kept
    <3>4. QED
      BY <3>1, <3>2, <3>3, NotAClaim DEF Holds, IsActive
  <2>2. CASE Link(c)
    <3>1. held'[c] = mine[c] /\ file' = mine[c]
      BY <1>0, <2>2 DEF Link, Grant, TypeOK
    <3>2. mine[c].by = c
      BY <2>2 DEF Link, RaceInv, ActsOnOwn, AcquireSteps
    <3>3. QED
      BY <3>1, <3>2 DEF Kept
  <2>3. CASE HeartbeatRename(c)
    <3>1. /\ Holds(c) /\ SameClaim(mine[c], held[c]) /\ beatTmp = mine[c]
          /\ mine[c] # NoClaim
      BY <2>3, NotAClaim DEF HeartbeatRename, RaceInv, ActsOnOwn, SameClaim
    <3>2. held'[c] = beatTmp /\ file' = beatTmp
      BY <1>0, <2>3, <3>1 DEF HeartbeatRename, Renew, SameClaim, TypeOK
    <3>3. held'[c].by = c
      BY <3>1, <3>2, HolderStands DEF SameClaim, RaceInv
    <3>4. QED
      BY <3>2, <3>3 DEF Kept
  <2>4. CASE SettleActive(c)
    <3>1. tomb[c] \in Claim /\ tomb[c].by # c
      BY <2>4 DEF SettleActive, IsActive, RaceInv, ReapersClear, About
    <3>2. ~ Own(tomb[c], c)
      BY <1>0, <3>1, OwnIsMine DEF Own
    <3>3. held'[c] = NoClaim
      BY <1>0, <2>4, <3>2 DEF SettleActive, Refuse, TypeOK
    <3>4. QED
      BY <3>3, NotAClaim DEF Holds, IsActive
  <2>5. CASE held'[c] = NoClaim
    BY <2>5, NotAClaim DEF Holds, IsActive
  <2>6. CASE held'[c] = held[c] /\ ~ Holds(c)
    BY <2>6, NowStays DEF RaceInv, HoldersKept, Holds, IsActive
  <2>7. CASE held'[c] = held[c] /\ file' = file /\ pc[c] # "settling"
    <3>1. held[c] \in Claim => held[c].by = c
      BY DEF RaceInv, HoldersKept
    <3>2. Holds(c)' => Holds(c)
      BY <2>7, NowStays DEF Holds, IsActive
    <3>3. ASSUME Holds(c)
          PROVE  Kept(held[c])'
      <4>1. Kept(held[c])
        BY <3>3, HolderStands DEF RaceInv
      <4>2. \A e \in Callers : pc[e] = "settling" =>
              pc'[e] = "settling" /\ tomb'[e] = tomb[e]
        BY <1>0, <2>7, OthersUntouched
      <4>3. QED
        BY <2>7, <4>1, <4>2 DEF Kept
    <3>4. QED
      BY <2>7, <3>1, <3>2, <3>3 DEF Kept
  <2>8. CASE pc[c] \in {"reaping", "settling", "unlinking"}
    <3>1. ~ Holds(c)
      BY <2>8, ReaperHasNone, NotAClaim DEF RaceInv, ActsOnOwn, Holds
    <3>2. held'[c] = held[c] \/ SettleActive(c)
      BY <1>1, <2>8
      DEF Call, Continue, Acquire, Release, ReleaseFails, Heartbeat, Cleanup,
          MayCall, ReadFree, ReadActive, ReadInactive, ReadFails, ReapMissing,
          Reap, ReapFails, SettleInactive, SettleFails, Link, Collide,
          LinkFails, ReleaseUnlink, HeartbeatOpen, HeartbeatWrite,
          HeartbeatRename,
          HeartbeatFails, CleanupUnlink, callVars
    <3>3. QED
      BY <2>4, <2>6, <3>1, <3>2
  <2>9. CASE Collide(c) \/ Release(c)
    <3>1. file' = file /\ pc[c] # "settling"
      BY <2>9 DEF Collide, Release, MayCall
    <3>2. held'[c] = NoClaim \/ held'[c] = held[c]
      BY <1>0, <2>9 DEF Collide, Release, Refuse, LetGo, TypeOK
    <3>3. QED
      BY <2>5, <2>7, <3>1, <3>2
  <2>10. CASE /\ held' = held /\ file' = file
              /\ pc[c] \notin {"reaping", "settling", "unlinking"}
    BY <2>7, <2>10
  <2>13. CASE HeartbeatWrite(c)
    <3>1. beatTmp # NoClaim /\ ~ OtherBeats(c)
      BY <2>13, AloneBeating, RegistryAssumption
      DEF HeartbeatWrite, RaceInv, ActsOnOwn, RegistryAssumption
    <3>2. held' = held /\ file' = file /\ pc[c] = "filling"
      BY <2>13, <3>1 DEF HeartbeatWrite
    <3>3. QED
      BY <2>10, <3>2
  <2>11. pc[c] # "cleaning"
    BY DEF RaceInv, ActsOnOwn
  <2>12. QED
    BY <1>1, <2>1, <2>2, <2>3, <2>8, <2>9, <2>10, <2>11, <2>13
    DEF Call, Continue, Acquire, Release, ReleaseFails, Heartbeat, Cleanup,
        MayCall, ReadFree, ReadActive, ReadInactive, ReadFails, ReapMissing,
        Reap, ReapFails, SettleInactive, SettleActive, SettleFails, Link,
        Collide, LinkFails, ReleaseUnlink, HeartbeatOpen, HeartbeatWrite,
        HeartbeatRename,
        HeartbeatFails, CleanupUnlink, callVars
<1>4. QED
  BY <1>2, <1>3 DEF HoldersKept

\* Only its own caller's call makes a claim appear.
LEMMA AboutStep ==
  ASSUME TwoCallers, Orderly, RaceInv,
         NEW x \in Claim, IsActive(x), About(x)',
         NEW c \in Callers, Call(c) \/ Continue(c) \/ Crash(c)
  PROVE  \/ About(x)
         \/ (Link(c) \/ HeartbeatRename(c)) /\ x.by = c
<1>0. TypeOK /\ HoldersKept /\ ActsOnOwn
  BY DEF RaceInv
<1>1. ~ Fault(c) /\ ~ Crash(c)
  BY <1>0, NoFault DEF Orderly, Crash, TypeOK
<1>2. CASE file' = x
  <2>1. CASE Link(c)
    BY <1>0, <1>2, <2>1 DEF Link, ActsOnOwn, AcquireSteps
  <2>2. CASE HeartbeatRename(c)
    <3>1. Holds(c) /\ SameClaim(mine[c], held[c]) /\ beatTmp = mine[c]
      BY <1>0, <2>2 DEF HeartbeatRename, ActsOnOwn
    <3>2. file' = mine[c] /\ mine[c] = x
      BY <1>2, <2>2, <3>1, NotAClaim DEF HeartbeatRename, SameClaim
    <3>3. QED
      BY <1>0, <2>2, <3>1, <3>2 DEF SameClaim, HoldersKept
  <2>3. CASE SettleActive(c)
    BY <1>2, <2>3 DEF SettleActive, LinkedBack, About
  <2>4. CASE file' = file
    BY <1>2, <2>4 DEF About
  <2>5. CASE file' = NoClaim
    BY <1>2, <2>5, NotAClaim
  <2>7. CASE HeartbeatWrite(c)
    <3>1. beatTmp # NoClaim /\ ~ OtherBeats(c)
      BY <2>7, AloneBeating, RegistryAssumption
      DEF HeartbeatWrite, RaceInv, ActsOnOwn, RegistryAssumption
    <3>2. QED
      BY <2>4, <2>7, <3>1 DEF HeartbeatWrite
  <2>6. QED
    BY <1>1, <2>1, <2>2, <2>3, <2>4, <2>5, <2>7
    DEF Call, Continue, Acquire, Release, ReleaseFails, Heartbeat, Cleanup,
        ReadFree, ReadActive, ReadInactive, ReadFails, ReapMissing, Reap,
        ReapFails, SettleInactive, SettleFails, Collide, LinkFails,
        ReleaseUnlink, HeartbeatOpen, HeartbeatWrite, HeartbeatFails,
        CleanupUnlink
<1>3. ASSUME NEW d \in Callers, pc'[d] = "settling", tomb'[d] = x
      PROVE  About(x)
  <2>1. CASE d # c
    BY <1>0, <1>3, <2>1, OthersUntouched DEF About
  <2>2. CASE d = c
    <3>1. Reap(c)
      BY <1>0, <1>1, <1>3, <2>2
      DEF TypeOK, Call, Continue, Acquire, Release, ReleaseFails, Heartbeat,
          Cleanup, ReadFree, ReadActive, ReadInactive, ReadFails, ReapMissing,
          ReapFails, SettleInactive, SettleActive, SettleFails, Link, Collide,
          LinkFails, ReleaseUnlink, HeartbeatOpen, HeartbeatWrite,
          HeartbeatRename,
          HeartbeatFails, CleanupUnlink, MayCall, Goto, EndCall, Grant, Refuse
    <3>2. QED
      BY <1>0, <1>3, <2>2, <3>1 DEF Reap, TypeOK, About
  <2>3. QED
    BY <2>1, <2>2
<1>4. QED
  BY <1>2, <1>3 DEF About

LEMMA ReapersClearStep ==
  ASSUME TwoCallers, Orderly, RaceInv,
         NEW c \in Callers, Call(c) \/ Continue(c) \/ Crash(c)
  PROVE  ReapersClear'
<1>0. TypeOK
  BY DEF RaceInv
<1>1. ~ Fault(c) /\ ~ Crash(c)
  BY <1>0, NoFault DEF Orderly, Crash, TypeOK
<1>2. SUFFICES ASSUME NEW d \in Callers, pc'[d] \in {"reaping", "settling"},
                      NEW x \in Claim, x.by = d, IsActive(x)'
               PROVE  ~ About(x)'
  BY DEF ReapersClear
<1>3. IsActive(x)
  BY <1>2, NowStays DEF IsActive
<1>4. CASE pc[d] \in {"reaping", "settling"}
  <2>1. ~ About(x)
    BY <1>2, <1>3, <1>4 DEF RaceInv, ReapersClear
  <2>2. ~ (d = c /\ (Link(c) \/ HeartbeatRename(c)))
    BY <1>4 DEF Link, HeartbeatRename
  <2>3. QED
    BY <1>2, <1>3, <2>1, <2>2, AboutStep
<1>5. CASE pc[d] \notin {"reaping", "settling"}
  <2>1. d = c
    BY <1>0, <1>2, <1>5, OthersUntouched
  <2>2. ReadInactive(c)
    BY <1>0, <1>1, <1>2, <1>5, <2>1
    DEF TypeOK, Call, Continue, Acquire, Release, ReleaseFails, Heartbeat,
        Cleanup, ReadFree, ReadActive, ReadFails, ReapMissing, Reap,
        ReapFails, SettleInactive, SettleActive, SettleFails, Link, Collide,
        LinkFails, ReleaseUnlink, HeartbeatOpen, HeartbeatWrite,
        HeartbeatRename,
        HeartbeatFails, CleanupUnlink, MayCall, Goto, EndCall, Grant, Refuse
  <2>3. file # NoClaim /\ ~ IsActive(file)
    BY <2>2 DEF ReadInactive
  <2>4. file # x /\ \A e \in Callers : pc[e] # "settling"
    BY <1>3, <2>3, LapsedIsAlone
  <2>5. ~ (Link(c) \/ HeartbeatRename(c))
    BY <2>2 DEF ReadInactive, Link, HeartbeatRename
  <2>6. QED
    BY <1>3, <2>4, <2>5, AboutStep DEF About
<1>6. QED
  BY <1>4, <1>5

LEMMA ActsOnOwnStep ==
  ASSUME TwoCallers, SeparateOwners, Orderly, RaceInv,
         NEW c \in Callers, Call(c) \/ Continue(c) \/ Crash(c)
  PROVE  ActsOnOwn'
<1>0. TypeOK
  BY DEF RaceInv
<1>1. ~ Fault(c) /\ ~ Crash(c)
  BY <1>0, NoFault DEF Orderly, Crash, TypeOK
<1>2. ASSUME NEW d \in Callers, d # c
      PROVE  /\ pc'[d] # "cleaning"
             /\ pc'[d] \in AcquireSteps => mine'[d].by = d
             /\ pc'[d] = "unlinking" => held'[d] = NoClaim /\ Standing(d)'
             /\ pc'[d] \in {"beating", "filling", "renaming"} =>
                  Holds(d)' /\ SameClaim(mine'[d], held'[d])
             /\ pc'[d] = "filling" => beatTmp' = Malformed
             /\ pc'[d] = "renaming" => beatTmp' = mine'[d]
  <2>1. pc'[d] = pc[d] /\ mine'[d] = mine[d] /\ held'[d] = held[d]
    BY <1>0, <1>2, OthersUntouched, HeldStays
  <2>2. Holds(d) => Holds(d)'
    BY <2>1, NowStays DEF Holds, IsActive
  <2>3. Standing(d) => Standing(d)'
    BY <1>2, StandingStep
  <2>4. pc[d] \in {"filling", "renaming"} => beatTmp' = beatTmp
    <3>1. SUFFICES ASSUME pc[d] \in {"filling", "renaming"}
                   PROVE  beatTmp' = beatTmp
      OBVIOUS
    <3>2. Standing(d)
      BY <3>1, HolderStands DEF RaceInv, ActsOnOwn
    <3>3. ~ Holds(c)
      BY <1>2, <3>2, OneStanding, HolderStands DEF RaceInv
    <3>4. pc[c] \notin {"beating", "filling", "renaming"}
      BY <3>3 DEF RaceInv, ActsOnOwn
    <3>5. QED
      BY <1>1, <3>4
      DEF Call, Continue, Acquire, Release, ReleaseFails, Heartbeat, Cleanup,
          ReadFree, ReadActive, ReadInactive, ReadFails, ReapMissing, Reap,
          ReapFails, SettleInactive, SettleActive, SettleFails, Link, Collide,
          LinkFails, ReleaseUnlink, HeartbeatOpen, HeartbeatWrite,
          HeartbeatRename,
          HeartbeatFails, CleanupUnlink
  <2>5. QED
    BY <2>1, <2>2, <2>3, <2>4 DEF RaceInv, ActsOnOwn
<1>3. /\ pc'[c] # "cleaning"
      /\ pc'[c] \in AcquireSteps => mine'[c].by = c
      /\ pc'[c] = "unlinking" => held'[c] = NoClaim /\ Standing(c)'
      /\ pc'[c] \in {"beating", "filling", "renaming"} =>
           Holds(c)' /\ SameClaim(mine'[c], held'[c])
      /\ pc'[c] = "filling" => beatTmp' = Malformed
      /\ pc'[c] = "renaming" => beatTmp' = mine'[c]
  <2>1. CASE Acquire(c)
    BY <1>0, <2>1 DEF Acquire, Goto, TypeOK, AcquireSteps
  <2>2. CASE Release(c)
    <3>1. CASE pc'[c] = "idle"
      BY <3>1 DEF AcquireSteps
    <3>2. CASE pc'[c] = "unlinking"
      <4>1. MayRelease(c)
        BY <2>2, <3>2 DEF Release, MayCall
      <4>2. file \in Claim /\ file # NoClaim
        BY <4>1, NotAClaim DEF MayRelease
      <4>3. IsActive(file)
        <5>1. CASE Holds(c)
          BY <4>2, <5>1, LapsedIsAlone
        <5>2. CASE now =< LateUntil /\ "release" \in LateCalls
          <6>1. now \in Nat /\ file.claimedAt \in Nat
            BY <1>0, <4>2 DEF TypeOK, Claim, Time
          <6>2. /\ LateUntil =< ClaimStale
                /\ LateUntil \in Nat /\ ClaimStale \in Nat
            BY <5>2, RegistryAssumption DEF Orderly, RegistryAssumption
          <6>3. now - file.claimedAt =< ClaimStale
            BY <5>2, <6>1, <6>2
          <6>4. QED
            BY <4>2, <6>3 DEF IsActive
        <5>3. QED
          BY <2>2, <5>1, <5>2 DEF Release, MayCall
      <4>4. file.by = c
        BY <1>0, <4>1, <4>2, <4>3, OwnIsMine DEF MayRelease
      <4>5. file' = file /\ now' = now
        BY <2>2 DEF Release
      <4>6. IsActive(file)' /\ Kept(file)'
        BY <4>3, <4>5 DEF IsActive, Kept
      <4>7. Standing(c)'
        BY <4>2, <4>4, <4>5, <4>6 DEF Standing
      <4>8. held'[c] = NoClaim
        BY <1>0, <2>2 DEF Release, LetGo, TypeOK
      <4>9. QED
        BY <3>2, <4>7, <4>8 DEF AcquireSteps
    <3>3. QED
      BY <1>0, <2>2, <3>1, <3>2 DEF Release, MayCall, Goto, TypeOK
  <2>3. CASE Heartbeat(c)
    <3>1. Holds(c)
      BY <2>3 DEF Heartbeat, MayCall, Orderly
    <3>2. Kept(held[c]) /\ held[c] \in Claim
      BY <3>1, HolderStands DEF RaceInv
    <3>3. file = held[c] /\ file \in Claim
      BY <2>3, <3>2, NotAClaim DEF Heartbeat, Kept
    <3>4. [file EXCEPT !.beatAt = now] \in Claim
      BY <1>0, <3>3 DEF Claim, TypeOK
    <3>5. SameClaim([file EXCEPT !.beatAt = now], held[c])
      BY <3>3, <3>4 DEF SameClaim, Claim
    <3>6. /\ pc'[c] = "beating" /\ held'[c] = held[c]
          /\ mine'[c] = [file EXCEPT !.beatAt = now]
      BY <1>0, <2>3 DEF Heartbeat, Goto, TypeOK
    <3>7. Holds(c)'
      BY <3>1, <3>6, NowStays DEF Holds, IsActive
    <3>8. QED
      BY <3>5, <3>6, <3>7 DEF AcquireSteps
  <2>4. CASE HeartbeatWrite(c)
    <3>0. beatTmp = Malformed /\ ~ OtherBeats(c) /\ Malformed # NoClaim
      BY <2>4, AloneBeating, RegistryAssumption
      DEF HeartbeatWrite, RaceInv, ActsOnOwn, RegistryAssumption
    <3>1. /\ pc'[c] = "renaming" /\ held'[c] = held[c] /\ mine'[c] = mine[c]
          /\ beatTmp' = mine[c]
      BY <1>0, <2>4, <3>0 DEF HeartbeatWrite, Goto, TypeOK, callVars
    <3>2. Holds(c) /\ SameClaim(mine[c], held[c])
      BY <2>4 DEF HeartbeatWrite, RaceInv, ActsOnOwn
    <3>3. Holds(c)'
      BY <3>1, <3>2, NowStays DEF Holds, IsActive
    <3>4. QED
      BY <3>1, <3>2, <3>3 DEF AcquireSteps
  <2>9. CASE HeartbeatOpen(c)
    <3>1. /\ pc'[c] = "filling" /\ held'[c] = held[c] /\ mine'[c] = mine[c]
          /\ beatTmp' = Malformed
      BY <1>0, <2>9 DEF HeartbeatOpen, Goto, TypeOK, callVars
    <3>2. Holds(c) /\ SameClaim(mine[c], held[c])
      BY <2>9 DEF HeartbeatOpen, RaceInv, ActsOnOwn
    <3>3. Holds(c)'
      BY <3>1, <3>2, NowStays DEF Holds, IsActive
    <3>4. QED
      BY <3>1, <3>2, <3>3 DEF AcquireSteps
  <2>5. ~ Cleanup(c)
    <3>1. SUFFICES ASSUME Cleanup(c)
                   PROVE  FALSE
      OBVIOUS
    <3>2. file \in Claim /\ file # NoClaim /\ ~ IsActive(file)
      BY <3>1, NotAClaim DEF Cleanup
    <3>3. now =< LateUntil /\ "cleanup" \in LateCalls
      BY <3>1, <3>2, LapsedIsAlone DEF Cleanup, MayCall
    <3>4. now \in Nat /\ file.claimedAt \in Nat
      BY <1>0, <3>2 DEF TypeOK, Claim, Time
    <3>5. LateUntil =< ClaimStale /\ LateUntil \in Nat /\ ClaimStale \in Nat
      BY <3>3, RegistryAssumption DEF Orderly, RegistryAssumption
    <3>6. now - file.claimedAt =< ClaimStale
      BY <3>3, <3>4, <3>5
    <3>7. QED
      BY <3>2, <3>6 DEF IsActive
  <2>6. CASE pc'[c] = "idle"
    BY <2>6 DEF AcquireSteps
  <2>7. CASE pc[c] \in AcquireSteps /\ pc'[c] \in AcquireSteps
             /\ mine'[c] = mine[c]
    BY <2>7 DEF AcquireSteps, RaceInv, ActsOnOwn
  <2>8. QED
    <3>1. CASE Call(c)
      BY <1>1, <2>1, <2>2, <2>3, <2>5, <3>1 DEF Call, ReleaseFails
    <3>2. CASE Continue(c)
      <4>1. \/ HeartbeatOpen(c)
            \/ HeartbeatWrite(c)
            \/ pc'[c] = "idle"
            \/ pc[c] \in AcquireSteps /\ pc'[c] \in AcquireSteps
               /\ mine'[c] = mine[c]
        BY <1>0, <1>1, <3>2
        DEF TypeOK, Continue, ReadFree, ReadActive, ReadInactive, ReadFails,
            ReapMissing, Reap, ReapFails, SettleInactive, SettleActive,
            SettleFails, Link, Collide, LinkFails, ReleaseUnlink,
            HeartbeatRename, HeartbeatFails, CleanupUnlink, callVars,
            Goto, EndCall, Grant, Refuse, AcquireSteps
      <4>2. QED
        BY <2>4, <2>6, <2>7, <2>9, <4>1
    <3>3. QED
      BY <1>1, <3>1, <3>2
<1>4. ASSUME NEW d \in Callers
      PROVE  /\ pc'[d] # "cleaning"
             /\ pc'[d] \in AcquireSteps => mine'[d].by = d
             /\ pc'[d] = "unlinking" => held'[d] = NoClaim /\ Standing(d)'
             /\ pc'[d] \in {"beating", "filling", "renaming"} =>
                  Holds(d)' /\ SameClaim(mine'[d], held'[d])
             /\ pc'[d] = "filling" => beatTmp' = Malformed
             /\ pc'[d] = "renaming" => beatTmp' = mine'[d]
  BY <1>2, <1>3
<1>5. QED
  BY <1>4 DEF ActsOnOwn, SameClaim

LEMMA UntornStep ==
  ASSUME RaceInv, Orderly, NEW c \in Callers,
         Call(c) \/ Continue(c) \/ Crash(c)
  PROVE  Untorn'
<1>0. TypeOK /\ ~ Fault(c)
  BY NoFault DEF RaceInv, Orderly
<1>1. file' = Malformed => file = Malformed
  <2>1. CASE HeartbeatRename(c)
    BY <2>1, ContentAssumption
    DEF HeartbeatRename, RaceInv, ActsOnOwn, SameClaim, ContentAssumption
  <2>2. CASE HeartbeatWrite(c)
    BY <2>2, ContentAssumption
    DEF HeartbeatWrite, RaceInv, ActsOnOwn, SameClaim, ContentAssumption
  <2>3. CASE Link(c)
    BY <2>3, ContentAssumption
    DEF Link, RaceInv, Carrying, AcquireSteps, ContentAssumption
  <2>4. CASE SettleActive(c)
    BY <2>4, ContentAssumption
    DEF SettleActive, LinkedBack, IsActive, ContentAssumption
  <2>5. QED
    BY <1>0, <2>1, <2>2, <2>3, <2>4, RegistryAssumption
    DEF RegistryAssumption, Call, Continue, Crash, Acquire, Release,
        ReleaseFails, Heartbeat, Cleanup, ReadFree, ReadActive, ReadInactive,
        ReadFails, ReapMissing, Reap, ReapFails, SettleInactive, SettleFails,
        Collide, LinkFails, ReleaseUnlink, HeartbeatOpen, HeartbeatFails,
        CleanupUnlink
<1>2. ASSUME NEW d \in Callers, d # c, pc'[d] \in {"settling", "linking"}
      PROVE  file' # Malformed
  BY <1>0, <1>1, <1>2, OthersUntouched DEF RaceInv, Untorn
<1>3. ASSUME pc'[c] \in {"settling", "linking"}
      PROVE  file' # Malformed
  <2>1. \/ ReadFree(c) \/ ReapMissing(c) \/ Reap(c) \/ SettleInactive(c)
    BY <1>0, <1>3
    DEF TypeOK, Call, Continue, Crash, Acquire, Release, ReleaseFails,
        Heartbeat, Cleanup, ReadActive, ReadInactive, ReadFails,
        ReapFails, SettleActive, SettleFails, Link, Collide, LinkFails,
        ReleaseUnlink, HeartbeatOpen, HeartbeatWrite, HeartbeatRename,
        HeartbeatFails, CleanupUnlink, MayCall, Goto, EndCall, Grant, Refuse
  <2>2. QED
    BY <2>1, RegistryAssumption
    DEF RegistryAssumption, ReadFree, ReapMissing, Reap, SettleInactive,
        RaceInv, Untorn
<1>4. QED
  BY <1>2, <1>3 DEF Untorn

LEMMA RaceStep ==
  ASSUME TwoCallers, SeparateOwners, Orderly, RaceInv, [Next]_vars
  PROVE  RaceInv'
<1>0. TypeOK' /\ Carrying'
  BY StepTypeOK, StepCarrying DEF RaceInv
<1>1. CASE UNCHANGED vars
  BY <1>0, <1>1
  DEF vars, callVars, RaceInv, Stamped, ClearedStaysLive, Untorn, HoldersKept,
      ReapersClear, ActsOnOwn, Standing, Kept, About, Holds, IsActive
<1>2. CASE Tick
  <2>1. \A c \in Callers : pc[c] = "idle" /\ pc'[c] = "idle"
    BY <1>2 DEF Tick, Orderly
  <2>2. /\ Stamped' /\ ClearedStaysLive' /\ Untorn'
        /\ ReapersClear' /\ ActsOnOwn'
    BY <2>1
    DEF Stamped, ClearedStaysLive, Untorn, ReapersClear, ActsOnOwn, AcquireSteps
  <2>3. ASSUME NEW c \in Callers
        PROVE  /\ held'[c] \in Claim => held'[c].by = c
               /\ Holds(c)' => Kept(held[c])'
    <3>1. held'[c] = held[c] /\ file' = file
      BY <1>2 DEF Tick
    <3>2. held[c] \in Claim => held[c].by = c
      BY DEF RaceInv, HoldersKept
    <3>3. ASSUME Holds(c)'
          PROVE  Kept(held[c])'
      <4>1. held[c] \in Claim /\ now \in Nat /\ now' = now + 1
        BY <1>2, <3>1, <3>3 DEF Holds, IsActive, Tick, RaceInv, TypeOK, Time
      <4>2. held[c].beatAt \in Nat /\ held[c].claimedAt \in Nat
        BY <4>1 DEF Claim, Time
      <4>3. Holds(c)
        BY <3>1, <3>3, <4>1, <4>2, RegistryAssumption
        DEF Holds, IsActive, RegistryAssumption
      <4>4. Kept(held[c])
        BY <4>3 DEF RaceInv, HoldersKept
      <4>5. file = held[c]
        BY <2>1, <4>4 DEF Kept
      <4>6. QED
        BY <3>1, <4>5 DEF Kept
    <3>4. QED
      BY <3>1, <3>2, <3>3
  <2>4. HoldersKept'
    BY <1>2, <2>3 DEF HoldersKept, Kept, Tick
  <2>5. QED
    BY <1>0, <2>2, <2>4 DEF RaceInv
<1>3. ASSUME NEW c \in Callers, Call(c) \/ Continue(c) \/ Crash(c)
      PROVE  RaceInv'
  <2>1. Stamped'
    BY <1>0, <1>3, StampedStep DEF RaceInv
  <2>2. ClearedStaysLive'
    <3>1. IsActive(file') <=> IsActive(file)'
      BY <1>3, NowStays DEF IsActive
    <3>2. QED
      BY <1>3, <3>1, ClearedStep DEF RaceInv, ClearedStaysLive, Orderly
  <2>3. HoldersKept' /\ ReapersClear' /\ ActsOnOwn'
    BY <1>3, HoldersKeptStep, ReapersClearStep, ActsOnOwnStep
  <2>5. Untorn'
    BY <1>3, UntornStep
  <2>4. QED
    BY <1>0, <2>1, <2>2, <2>3, <2>5 DEF RaceInv
<1>4. QED
  BY <1>1, <1>2, <1>3 DEF Next

LEMMA RaceInvariant ==
  ASSUME TwoCallers, SeparateOwners, Orderly
  PROVE  Spec => []RaceInv
<1>1. RaceInv /\ [Next]_vars => RaceInv'
  BY RaceStep
<1>2. QED
  BY <1>1, RaceInit, PTL DEF Spec

\* What the invariant says of the claims two owners hold.
LEMMA RaceExcludes ==
  ASSUME TwoCallers, RaceInv
  PROVE  MutualExclusion /\ RacingClaimPreserved
<1>1. ASSUME NEW c \in Callers, NEW d \in Callers, Holds(c), Holds(d)
      PROVE  SameOwner(c, d)
  <2>1. c = d
    BY <1>1, HolderStands, OneStanding DEF RaceInv
  <2>2. QED
    BY <2>1 DEF SameOwner
<1>2. ASSUME NEW c \in Callers, Holds(c)
      PROVE  \/ SameClaim(file, held[c])
             \/ \E d \in Callers : SameClaim(tomb[d], held[c])
  <2>1. held[c] \in Claim /\ Kept(held[c])
    BY <1>2, HolderStands DEF RaceInv
  <2>2. SameClaim(held[c], held[c])
    BY <2>1 DEF SameClaim
  <2>3. QED
    BY <2>1, <2>2 DEF Kept
<1>3. QED
  BY <1>1, <1>2 DEF MutualExclusion, RacingClaimPreserved

(* For any thresholds and any number of attempts: two callers that do not   *)
(* pass for each other never go ahead at once, claims that lapse and are   *)
(* reaped under a racing caller included.                                  *)
THEOREM ExclusiveAcrossLapse ==
  ASSUME TwoCallers, SeparateOwners, Orderly
  PROVE  Spec => []MutualExclusion
<1>1. RaceInv => MutualExclusion
  BY RaceExcludes
<1>2. QED
  BY <1>1, RaceInvariant, PTL

(* ... and the claim one of them goes ahead on is never lost: a reaper that *)
(* took it aside by mistake still has it, and puts it back.                *)
THEOREM RacingClaimComesBack ==
  ASSUME TwoCallers, SeparateOwners, Orderly
  PROVE  Spec => []RacingClaimPreserved
<1>1. RaceInv => RacingClaimPreserved
  BY RaceExcludes
<1>2. QED
  BY <1>1, RaceInvariant, PTL
=============================================================================
