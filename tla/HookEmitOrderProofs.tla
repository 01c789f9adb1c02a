------------------------- MODULE HookEmitOrderProofs -------------------------
(***************************************************************************)
(* Proofs about what a drain cycle decides: what it evicts, what it takes  *)
(* as evidence that the broker answers, what it sets aside, and in which   *)
(* order it publishes.  Each rests on DeliveryInv of HookEmitProofs and an *)
(* inductive invariant of its own.                                         *)
(***************************************************************************)
EXTENDS HookEmitOrdering, HookEmitProofs, FiniteSetTheorems, WellFoundedInduction

USE DEF faultVars

----------------------------------------------------------------------------
(* Records are finitely many, and FirstOf takes no more than it is asked   *)
(* for.                                                                    *)

LEMMA Least ==
  ASSUME NEW S, S \subseteq Nat, S # {}
  PROVE  \E m \in S : \A k \in S : m <= k
<1> DEFINE R == {ss \in Nat \X Nat : ss[1] < ss[2]}
<1>1. IsWellFoundedOn(R, Nat)
  BY NatLessThanWellFounded, Zenon DEF OpToRel
<1>2. PICK m \in S : \A k \in S : <<k, m>> \notin R
  BY <1>1, WFMin
<1>3. \A k \in S : ~ k < m
  BY <1>2
<1>4. \A k \in S : m <= k
  BY <1>3
<1>5. QED
  BY <1>4

LEMMA RecordsFinite ==
  ASSUME NEW S, S \subseteq Records
  PROVE  IsFiniteSet(S) /\ Cardinality(S) \in Nat
<1>1. IsFiniteSet(Records)
  BY JournalAssumption, FS_Interval DEF JournalAssumption, Records
<1>2. QED
  BY <1>1, FS_Subset, FS_CardinalityType

LEMMA Newest ==
  ASSUME NEW S, S \subseteq Records, S # {}
  PROVE  \E m \in S : \A s \in S : s <= m
<1> DEFINE U == {n \in Nat : \A s \in S : s <= n}
<1>1. NumRecords \in U
  BY JournalAssumption DEF JournalAssumption, Records
<1>2. U \subseteq Nat /\ \A n \in Nat : n \in U <=> \A s \in S : s <= n
  OBVIOUS
<1> HIDE DEF U
<1>3. PICK m \in U : \A k \in U : m <= k
  BY <1>1, <1>2, Least
<1>4. m \in Nat /\ \A s \in S : s <= m /\ s \in Nat /\ s >= 1
  BY <1>2, <1>3 DEF Records
<1>5. CASE m \in S
  BY <1>4, <1>5
<1>6. CASE m \notin S
  <2>1. \A s \in S : s <= m - 1
    BY <1>4, <1>6
  <2>2. m - 1 \in Nat
    BY <1>4, <2>1
  <2>3. m - 1 \in U
    BY <1>2, <2>1, <2>2
  <2>4. QED
    BY <1>3, <1>4, <2>3
<1>7. QED
  BY <1>5, <1>6

LEMMA FirstOfAtMost ==
  ASSUME NEW S, S \subseteq Records, NEW n \in Nat
  PROVE  /\ FirstOf(n, S) \subseteq S
         /\ Cardinality(FirstOf(n, S)) <= n
<1> DEFINE F == FirstOf(n, S)
<1>1. F \subseteq S /\ \A r \in F : Cardinality({s \in S : s < r}) < n
  BY DEF FirstOf
<1> HIDE DEF F
<1>2. CASE F = {}
  BY <1>1, <1>2, FS_EmptySet DEF F
<1>3. CASE F # {}
  <2>1. PICK m \in F : \A s \in F : s <= m
    BY <1>1, <1>3, Newest
  <2>2. F \ {m} \subseteq {s \in S : s < m}
    BY <1>1, <2>1 DEF Records
  <2>3. Cardinality(F \ {m}) <= Cardinality({s \in S : s < m})
    BY <2>2, RecordsFinite, FS_Subset
  <2>4. Cardinality(F) = Cardinality(F \ {m}) + 1
    BY <1>1, <2>1, RecordsFinite, FS_RemoveElement
  <2>5. Cardinality({s \in S : s < m}) < n
    BY <1>1, <2>1
  <2>6. Cardinality(F \ {m}) \in Nat /\ Cardinality({s \in S : s < m}) \in Nat
    BY <1>1, RecordsFinite
  <2>7. Cardinality(F) <= n
    BY <2>3, <2>4, <2>5, <2>6
  <2>8. QED
    BY <1>1, <2>7 DEF F
<1>4. QED
  BY <1>2, <1>3

\* No step takes a record back before its writing, or a fault back.
LEMMA OnlyForward ==
  ASSUME TypeOK, [Next]_vars
  PROVE  /\ faults <= faults'
         /\ \A r \in Records : place'[r] = "unwritten" => place[r] = "unwritten"
<1> DEFINE Forward == /\ faults <= faults'
                      /\ \A r \in Records :
                           place'[r] = "unwritten" => place[r] = "unwritten"
<1> USE DEF journalVars, Fault, NoFault
<1>1. faults \in Nat /\ faults <= faults /\ faults <= faults + 1
  BY DEF TypeOK, FaultTypeOK
<1>2. ASSUME UNCHANGED place \/ Unlink(cur) \/ SetAside(cur)
             \/ \E r \in Records : Unlink(r) \/ SetAside(r),
             faults' \in {faults, faults + 1}
      PROVE  Forward
  BY <1>1, <1>2 DEF Unlink, SetAside, TypeOK, JournalTypeOK
<1>3. CASE Start \/ MigrateRecordLoss \/ MigrateDone \/ CheckSources \/ EnforceBound
           \/ SkipBound \/ EvictUnlink \/ EvictFails \/ EvictDone \/ Ack \/ BatchDone
  BY <1>2, <1>3 DEF Start, MigrateRecordLoss, LossLine, MigrateDone, CheckSources,
     EnforceBound, SkipBound, ListNow, EvictUnlink, EvictFails, EvictDone, Ack,
     BatchDone
<1>4. CASE ProbeUnanswered \/ ProbeAck \/ WriteReason \/ MoveAside \/ DeadLetterLoss
           \/ RecordCycle
  BY <1>2, <1>4 DEF ProbeUnanswered, ProbeAck, WriteReason, MoveAside, DeadLetterLoss,
     RecordCycle, LossLine, TypeOK, CycleTypeOK
<1>5. CASE ReleaseDeferred
  BY <1>1, <1>5 DEF ReleaseDeferred, ReleaseAll
<1>6. ASSUME NEW r \in Records, OnRecord(r) PROVE Forward
  <2>1. CASE MigrateConvert(r) \/ MigrateSetAside(r) \/ MigrateFails(r)
             \/ EvictRecordLoss(r)
    BY <1>2, <2>1 DEF MigrateConvert, MigrateSetAside, MigrateFails, EvictRecordLoss,
       LossLine
  <2>2. CASE Publish(r) \/ ProbeAnswers(r)
    BY <1>2, <2>2 DEF Publish, ProbeAnswers, PublishSucceeds, LossLine
  <2>3. CASE PublishFailure(r) \/ ProbeRefused(r)
    BY <1>2, <2>3 DEF PublishFailure, ProbeRefused, NotConfirmed
  <2>4. QED
    BY <1>6, <2>1, <2>2, <2>3 DEF OnRecord, PassOver, StandDown, HaltBatch
<1>7. CASE Environment
  <2>1. ASSUME NEW r \in Records, Replay(r) PROVE Forward
    BY <1>1, <2>1 DEF Replay, TypeOK, JournalTypeOK
  <2>2. QED
    BY <1>2, <1>7, <2>1 DEF Environment, Crash, Signal, BrokerDown, BrokerUp, Tear,
       InstallRegistry, Provision
<1>8. ASSUME NEW r \in Records, Writer(r) PROVE Forward
  BY <1>1, <1>8 DEF Writer, BeginWrite, LandWrite, FailWrite, TypeOK, JournalTypeOK
<1>9. CASE UNCHANGED vars
  BY <1>2, <1>9 DEF vars
<1>10. QED
  BY <1>3, <1>4, <1>5, <1>6, <1>7, <1>8, <1>9 DEF Next, Drainer

----------------------------------------------------------------------------
(* Eviction.                                                               *)

(* While records are evicted, the journal holds at least the ones still to *)
(* go and JournalBound others.                                             *)
EvictInv ==
  /\ pc \in {"evict", "evictUnlink"}
       => Cardinality(batch) + JournalBound <= Cardinality(InPlace("journal"))
  /\ pc = "evictUnlink" => cur \in batch

LEMMA JournalGrows ==
  ASSUME TypeOK, InPlace("journal") \subseteq InPlace("journal")'
  PROVE  /\ Cardinality(InPlace("journal")) \in Nat
         /\ Cardinality(InPlace("journal"))' \in Nat
         /\ Cardinality(InPlace("journal")) <= Cardinality(InPlace("journal"))'
<1>1. InPlace("journal") \subseteq Records /\ InPlace("journal")' \subseteq Records
  BY DEF InPlace
<1>2. QED
  BY <1>1, RecordsFinite, FS_Subset

\* Steps that neither evict nor publish a record leave an eviction as it is.
LEMMA EvictionKept ==
  ASSUME TypeOK, EvictInv, UNCHANGED <<pc, batch, cur>>,
         InPlace("journal") \subseteq InPlace("journal")'
  PROVE  EvictInv'
<1>1. batch \subseteq Records
  BY DEF TypeOK, CycleTypeOK
<1>2. Cardinality(batch) \in Nat /\ JournalBound \in Nat
  BY <1>1, RecordsFinite, JournalAssumption DEF JournalAssumption
<1>3. QED
  BY <1>2, JournalGrows DEF EvictInv

LEMMA EvictStep ==
  ASSUME TypeOK, DeliveryInv, EvictInv, [Next]_vars
  PROVE  EvictInv'
<1> USE DEF journalVars, cycleVars, brokerVars, diskVars
<1> DEFINE J == InPlace("journal")
<1>1. J \subseteq Records /\ batch \subseteq Records
  BY DEF InPlace, TypeOK, CycleTypeOK
<1>2. /\ Cardinality(J) \in Nat /\ Cardinality(batch) \in Nat
      /\ JournalBound \in Nat \ {0}
  BY <1>1, RecordsFinite, JournalAssumption DEF JournalAssumption
<1>3. CASE EnforceBound
  <2>1. Excess \in Nat /\ Excess + JournalBound = Cardinality(J)
    BY <1>2, <1>3 DEF EnforceBound, Excess
  <2>2. PICK S \in SUBSET Records : batch' = FirstOf(Excess, S)
    <3>1. /\ Evictable \subseteq Records
          /\ \A r \in J : Evictable \cup {r} \subseteq Records
      BY DEF Evictable, InPlace
    <3>2. QED
      BY <1>3, <3>1 DEF EnforceBound
  <2>3. FirstOf(Excess, S) \subseteq Records
    BY <2>2 DEF FirstOf
  <2>4. Cardinality(batch') <= Excess /\ Cardinality(batch') \in Nat
    BY <2>1, <2>2, <2>3, FirstOfAtMost, RecordsFinite
  <2>5. J' = J /\ pc' = "evict"
    BY <1>3 DEF EnforceBound, InPlace
  <2>6. QED
    BY <1>2, <2>1, <2>4, <2>5 DEF EvictInv
<1>4. ASSUME NEW r \in Records, EvictRecordLoss(r) PROVE EvictInv'
  <2>1. /\ pc = "evict" /\ r \in batch /\ cur' = r /\ pc' = "evictUnlink"
        /\ batch' = batch /\ J' = J
    BY <1>4 DEF EvictRecordLoss, IsOldest, InPlace
  <2>2. QED
    BY <2>1 DEF EvictInv
<1>5. CASE EvictUnlink
  <2>1. pc = "evictUnlink" /\ batch' = batch \ {cur} /\ pc' = "evict"
    BY <1>5 DEF EvictUnlink, Passed
  <2>2. cur \in batch /\ cur \in J
    BY <2>1, <1>1 DEF EvictInv, DeliveryInv, InFlight, InPlace
  <2>3. J' = J \ {cur}
    BY <1>5 DEF EvictUnlink, Unlink, InPlace, TypeOK, JournalTypeOK
  <2>4. Cardinality(batch') = Cardinality(batch) - 1
        /\ Cardinality(J') = Cardinality(J) - 1
    BY <1>1, <2>1, <2>2, <2>3, RecordsFinite, FS_RemoveElement
  <2>5. QED
    BY <1>2, <2>1, <2>4 DEF EvictInv
<1>6. CASE UNCHANGED <<pc, batch, cur, place>>
  BY <1>6, EvictionKept DEF InPlace
<1>7. ASSUME NEW r \in Records, Replay(r) PROVE EvictInv'
  BY <1>7, EvictionKept DEF Replay, InPlace, TypeOK, JournalTypeOK
<1>8. ASSUME NEW r \in Records, Writer(r) PROVE EvictInv'
  BY <1>8, EvictionKept
     DEF Writer, BeginWrite, LandWrite, FailWrite, InPlace, TypeOK, JournalTypeOK
<1>9. CASE pc' \notin {"evict", "evictUnlink"}
  BY <1>9 DEF EvictInv
<1>10. CASE UNCHANGED vars
  BY <1>6, <1>10 DEF vars
<1>11. CASE Environment
  BY <1>6, <1>7, <1>9, <1>11
     DEF Environment, Crash, ProcessEnds, Signal, BrokerDown, BrokerUp, Tear,
         InstallRegistry, Provision
<1>12. ASSUME NEW r \in Records, OnRecord(r) PROVE EvictInv'
  <2>1. CASE MigrateConvert(r) \/ MigrateFails(r) \/ PassOver(r)
             \/ ProbeRefused(r)
    BY <1>9, <2>1 DEF MigrateConvert, MigrateFails, PassOver, PublishFailure,
                      ProbeRefused
  <2>2. CASE MigrateSetAside(r) \/ Publish(r) \/ StandDown(r) \/ HaltBatch(r)
             \/ ProbeAnswers(r)
    BY <1>9, <2>2 DEF MigrateSetAside, Publish, StandDown, HaltBatch, Goto, ProbeAnswers
  <2>3. QED
    BY <1>4, <1>12, <2>1, <2>2 DEF OnRecord
<1>13. CASE Drainer
  <2>1. CASE Start \/ MigrateRecordLoss \/ MigrateDone \/ CheckSources
             \/ ReleaseDeferred \/ SkipBound \/ EvictFails \/ EvictDone
    BY <1>9, <2>1 DEF Start, MigrateRecordLoss, MigrateDone, CheckSources, Goto,
       ProcessEnds, ReleaseDeferred, SkipBound, ListNow, List, EvictFails, EvictDone
  <2>2. CASE Ack \/ BatchDone \/ ProbeUnanswered \/ ProbeAck \/ WriteReason
             \/ MoveAside \/ DeadLetterLoss \/ RecordCycle
    BY <1>9, <2>2 DEF Ack, BatchDone, Goto, ProbeUnanswered, ProbeAck, WriteReason,
       MoveAside, DeadLetterLoss, RecordCycle, ProcessEnds
  <2>3. QED
    BY <1>3, <1>5, <1>12, <1>13, <2>1, <2>2 DEF Drainer
<1>14. QED
  BY <1>8, <1>10, <1>11, <1>13 DEF Next

(***************************************************************************)
(* For any number of records and any bound, no record is evicted while the *)
(* journal holds JournalBound records or fewer, although hooks append and  *)
(* operators replay while the drainer evicts (enforce_bound).              *)
(***************************************************************************)
THEOREM EvictsOnlyOverBound == Spec => EvictionOnlyOverBound
<1>1. Init => EvictInv
  BY DEF Init, EvictInv
<1>2. TypeOK /\ EvictInv => (pc = "evictUnlink"
                              => Cardinality(InPlace("journal")) > JournalBound)
  <2> SUFFICES ASSUME TypeOK, EvictInv, pc = "evictUnlink"
               PROVE  Cardinality(InPlace("journal")) > JournalBound
    OBVIOUS
  <2>1. batch \subseteq Records /\ InPlace("journal") \subseteq Records /\ batch # {}
    BY DEF TypeOK, CycleTypeOK, InPlace, EvictInv
  <2>2. /\ Cardinality(batch) \in Nat /\ Cardinality(batch) # 0
        /\ Cardinality(InPlace("journal")) \in Nat /\ JournalBound \in Nat
    BY <2>1, RecordsFinite, FS_EmptySet, JournalAssumption DEF JournalAssumption
  <2>3. QED
    BY <2>2 DEF EvictInv
<1>3. (pc = "evictUnlink" => Cardinality(InPlace("journal")) > JournalBound)
      => [pc = "evictUnlink" /\ place' # place
           => Cardinality(InPlace("journal")) > JournalBound]_vars
  OBVIOUS
<1>4. TypeOK /\ DeliveryInv /\ EvictInv /\ [Next]_vars => EvictInv'
  BY EvictStep
<1>5. Spec => [](TypeOK /\ DeliveryInv /\ EvictInv)
  BY <1>1, <1>4, DeliveryInvariant, PTL DEF Spec
<1>6. QED
  BY <1>2, <1>3, <1>5, PTL DEF EvictionOnlyOverBound

----------------------------------------------------------------------------
(* The probe.                                                              *)

(* The record that let another be overtaken was answered for. *)
ProbeInv ==
  pc \in {"probeAck", "reason", "move", "deadLetterLoss"}
    => /\ probes # {}
       /\ \A p \in probes : p # cur /\ Acknowledged(p) /\ place[p] # "unwritten"

LEMMA ProbeStep ==
  ASSUME TypeOK, DeliveryInv, ProbeInv, [Next]_vars
  PROVE  ProbeInv'
<1> USE DEF ProbeInv, Acknowledged, Malformed, LossReported, Goto, journalVars,
            cycleVars, brokerVars, diskVars
<1>1. ASSUME NEW p \in Records, ProbeAnswers(p) PROVE ProbeInv'
  <2>1. place[p] # "unwritten" /\ p # cur
    BY <1>1 DEF ProbeAnswers, IsOldest, DeliveryInv, InFlight, InPlace
  <2>2. QED
    BY <1>1, <2>1 DEF ProbeAnswers, PublishSucceeds, Confirmed, LossLine, RecordLoss
<1>2. CASE ProbeAck
  BY <1>2 DEF ProbeAck, Unlink, TypeOK, JournalTypeOK, CycleTypeOK
<1>3. CASE WriteReason
  BY <1>3 DEF WriteReason
<1>4. CASE MoveAside
  BY <1>4 DEF MoveAside, SetAside, TypeOK, JournalTypeOK, CycleTypeOK
<1>5. CASE UNCHANGED <<pc, probes, cur, place, etype, lossLog, unlogged, delivered>>
  BY <1>5
<1>6. ASSUME NEW r \in Records, Replay(r) PROVE ProbeInv'
  BY <1>6 DEF Replay, TypeOK, JournalTypeOK, CycleTypeOK
<1>7. ASSUME NEW r \in Records, Writer(r) PROVE ProbeInv'
  BY <1>7 DEF Writer, BeginWrite, LandWrite, FailWrite, TypeOK, JournalTypeOK,
              CycleTypeOK
<1>8. CASE pc' \notin {"probeAck", "reason", "move", "deadLetterLoss"}
  BY <1>8
<1>9. CASE Environment
  BY <1>5, <1>6, <1>8, <1>9
     DEF Environment, Crash, ProcessEnds, Signal, BrokerDown, BrokerUp, Tear,
         InstallRegistry, Provision
<1>10. ASSUME NEW r \in Records, OnRecord(r) PROVE ProbeInv'
  <2>1. CASE MigrateConvert(r) \/ MigrateFails(r) \/ MigrateSetAside(r)
             \/ EvictRecordLoss(r)
    BY <1>8, <2>1 DEF MigrateConvert, MigrateFails, MigrateSetAside, EvictRecordLoss
  <2>2. CASE Publish(r) \/ PassOver(r) \/ StandDown(r) \/ HaltBatch(r)
             \/ ProbeRefused(r)
    BY <1>8, <2>2 DEF Publish, PassOver, StandDown, HaltBatch, PublishFailure,
                      ProbeRefused
  <2>3. QED
    BY <1>1, <1>10, <2>1, <2>2 DEF OnRecord
<1>11. CASE Drainer
  <2>1. CASE Start \/ MigrateRecordLoss \/ MigrateDone \/ CheckSources
             \/ ReleaseDeferred \/ EnforceBound \/ SkipBound \/ EvictUnlink
             \/ EvictFails \/ EvictDone
    BY <1>8, <2>1 DEF Start, MigrateRecordLoss, MigrateDone, CheckSources,
       ProcessEnds, ReleaseDeferred, EnforceBound, SkipBound, ListNow, List, EvictUnlink,
       EvictFails, EvictDone
  <2>2. CASE Ack \/ BatchDone \/ ProbeUnanswered \/ DeadLetterLoss \/ RecordCycle
    BY <1>8, <2>2 DEF Ack, BatchDone, ProbeUnanswered, DeadLetterLoss, RecordCycle,
       ProcessEnds
  <2>3. QED
    BY <1>2, <1>3, <1>4, <1>10, <1>11, <2>1, <2>2 DEF Drainer
<1>12. QED
  BY <1>5, <1>7, <1>9, <1>11 DEF Next, vars

(***************************************************************************)
(* Whatever the hooks write, a record is set aside only after another one  *)
(* behind it was answered for: the broker had it, or no request could be   *)
(* made of it and its loss was reported (_broker_answers_behind_the_head   *)
(* takes publish's True for evidence).                                     *)
(***************************************************************************)
THEOREM AnswerBeforeSetAside == Spec => []SetAsideAfterAnswer
<1>1. Init => ProbeInv
  BY DEF Init, ProbeInv
<1>2. TypeOK /\ DeliveryInv /\ ProbeInv /\ [Next]_vars => ProbeInv'
  BY ProbeStep
<1>3. ProbeInv => SetAsideAfterAnswer
  BY DEF ProbeInv, SetAsideAfterAnswer
<1>4. QED
  BY <1>1, <1>2, <1>3, DeliveryInvariant, PTL DEF Spec

----------------------------------------------------------------------------
(* The dead letter.                                                        *)

(* The broker stays reachable, its grants stay as they are, and fewer      *)
(* answers are lost than a record needs failures.                          *)
Reachable ==
  MaxOutages = 0 /\ Provisionable = {} /\ MaxFaults < QuarantineAfter

SetAsideInv ==
  /\ up /\ granted = Granted
  /\ \A r \in Records :
       /\ etype[r] \in granted \cap known => counts[r] <= faults
       /\ place[r] = "unwritten" => counts[r] = 0
  /\ refused \cap granted \cap known = {}
  /\ pc \in {"off", "migrate", "migrateLoss"}
       => refused = {} /\ \A r \in Records : counts[r] = 0
  /\ pc \in {"probe", "probeAck", "reason", "move", "deadLetterLoss"}
       => etype[cur] \notin granted \cap known

\* A failure of a record the broker would accept is a lost answer, or one of
\* a record no request can be made of.
LEMMA FailureCosts ==
  ASSUME up, NEW r \in Records, NotConfirmed(r), etype[r] \in granted \cap known
  PROVE  Fault
  BY DEF NotConfirmed, Accepts

\* Steps that touch neither the counters, the refused classes, the types the
\* process knows nor those of the records.
LEMMA SetAsideKept ==
  ASSUME TypeOK, TypeOK', SetAsideInv, faults <= faults',
         UNCHANGED <<counts, refused, known, etype, up, granted>>,
         \A r \in Records : place'[r] = "unwritten" => place[r] = "unwritten",
         pc' \in {"off", "migrate", "migrateLoss"}
           => pc \in {"off", "migrate", "migrateLoss"},
         pc' \in {"probe", "probeAck", "reason", "move", "deadLetterLoss"}
           => /\ pc \in {"probe", "probeAck", "reason", "move", "deadLetterLoss"}
              /\ cur' = cur
  PROVE  SetAsideInv'
<1>1. \A r \in Records : counts[r] <= faults => counts[r] <= faults'
  BY DEF TypeOK, ProcessTypeOK, FaultTypeOK
<1>2. QED
  BY <1>1 DEF SetAsideInv

\* A process that has just ended knows nothing and has counted nothing.
LEMMA SetAsideEnds ==
  ASSUME TypeOK, TypeOK', ProcessEnds, up', granted' = Granted
  PROVE  SetAsideInv'
<1>1. \A r \in Records : counts'[r] = 0
  BY DEF ProcessEnds
<1>2. refused' = {} /\ known' = {} /\ pc' = "off"
  BY DEF ProcessEnds
<1>3. QED
  BY <1>1, <1>2 DEF SetAsideInv

\* Start, migration and the top of the loop.
LEMMA StartSetAside ==
  ASSUME TypeOK, TypeOK', DeliveryInv, SetAsideInv, faults <= faults',
         \A r \in Records : place'[r] = "unwritten" => place[r] = "unwritten",
         \/ Start \/ MigrateRecordLoss \/ MigrateDone \/ CheckSources
         \/ \E r \in Records : \/ MigrateConvert(r) \/ MigrateSetAside(r)
                                \/ MigrateFails(r)
  PROVE  SetAsideInv'
<1> USE DEF journalVars, processVars, brokerVars, Goto
<1>1. faults' \in Nat
  BY DEF TypeOK, FaultTypeOK
<1>2. CASE Start
  BY <1>1, <1>2 DEF Start, SetAsideInv
<1>3. CASE MigrateRecordLoss
  BY <1>3, SetAsideKept DEF MigrateRecordLoss
<1>4. CASE MigrateDone
  BY <1>1, <1>4 DEF MigrateDone, SetAsideInv
<1>5. CASE CheckSources
  <2>1. CASE ProcessEnds
    BY <1>5, <2>1, SetAsideEnds DEF CheckSources, SetAsideInv
  <2>2. CASE ~ProcessEnds
    BY <1>5, <2>2, SetAsideKept DEF CheckSources
  <2>3. QED
    BY <2>1, <2>2
<1>6. ASSUME NEW r \in Records, MigrateConvert(r) PROVE SetAsideInv'
  BY <1>1, <1>6 DEF MigrateConvert, SetAsideInv
<1>7. ASSUME NEW r \in Records, MigrateSetAside(r) PROVE SetAsideInv'
  BY <1>7, SetAsideKept DEF MigrateSetAside
<1>8. ASSUME NEW r \in Records, MigrateFails(r) PROVE SetAsideInv'
  BY <1>8, SetAsideKept DEF MigrateFails
<1>9. QED
  BY <1>2, <1>3, <1>4, <1>5, <1>6, <1>7, <1>8

\* Release, eviction and listing.
LEMMA BoundSetAside ==
  ASSUME TypeOK, TypeOK', SetAsideInv, faults <= faults',
         \A r \in Records : place'[r] = "unwritten" => place[r] = "unwritten",
         \/ ReleaseDeferred \/ EnforceBound \/ SkipBound
         \/ EvictUnlink \/ EvictFails \/ EvictDone
         \/ \E r \in Records : EvictRecordLoss(r)
  PROVE  SetAsideInv'
  BY SetAsideKept
     DEF journalVars, processVars, brokerVars, Goto, ListNow, List, ReleaseDeferred,
         EnforceBound, SkipBound, EvictUnlink, EvictFails, EvictDone, EvictRecordLoss

\* Counting a failure of r, and a record stood down for it.
LEMMA FailureSetAside ==
  ASSUME Reachable, TypeOK, TypeOK', SetAsideInv, faults <= faults',
         NEW r \in Records, PublishFailure(r), place[r] # "unwritten",
         cur' \in {r, cur},
         pc' \in {"off", "migrate", "migrateLoss"} => FALSE,
         pc' \in {"probe", "probeAck", "reason", "move", "deadLetterLoss"}
           => cur' = r /\ (ProvenRefused(r) \/ counts'[r] >= QuarantineAfter)
  PROVE  SetAsideInv'
<1>1. /\ \A s \in Records : counts[s] \in Nat /\ counts'[s] \in Nat
      /\ faults \in Nat /\ faults' \in 0..MaxFaults
      /\ MaxFaults \in Nat /\ QuarantineAfter \in Nat
  BY DrainerAssumption DEF DrainerAssumption, TypeOK, ProcessTypeOK, FaultTypeOK
<1>2. /\ UNCHANGED <<etype, refused, known, granted, up, place>> /\ NotConfirmed(r)
      /\ \A s \in Records \ {r} : counts'[s] = counts[s]
      /\ counts'[r] <= counts[r] + 1
  BY <1>1 DEF PublishFailure, journalVars, CountFailure, TypeOK, ProcessTypeOK
<1>3. ASSUME etype[r] \in granted \cap known PROVE counts'[r] <= faults'
  <2>1. faults' = faults + 1
    BY <1>2, <1>3, FailureCosts DEF SetAsideInv, Fault
  <2>2. counts[r] <= faults
    BY <1>3 DEF SetAsideInv
  <2>3. QED
    BY <1>1, <1>2, <2>1, <2>2
<1>4. ASSUME NEW s \in Records
      PROVE  /\ etype[s] \in granted \cap known => counts'[s] <= faults'
             /\ place[s] = "unwritten" => counts'[s] = 0
  BY <1>1, <1>2, <1>3 DEF SetAsideInv
<1>5. ASSUME ProvenRefused(r) \/ counts'[r] >= QuarantineAfter
      PROVE  etype[r] \notin granted \cap known
  BY <1>1, <1>3, <1>5 DEF SetAsideInv, ProvenRefused, Reachable
<1>6. QED
  BY <1>2, <1>4, <1>5 DEF SetAsideInv

\* The publish loop.
LEMMA PublishSetAside ==
  ASSUME Reachable, TypeOK, TypeOK', DeliveryInv, SetAsideInv, faults <= faults',
         \A r \in Records : place'[r] = "unwritten" => place[r] = "unwritten",
         \/ Ack \/ BatchDone
         \/ \E r \in Records : \/ Publish(r) \/ PassOver(r) \/ StandDown(r)
                                \/ HaltBatch(r)
  PROVE  SetAsideInv'
<1> USE DEF journalVars, processVars, brokerVars, Goto
<1>1. CASE Ack
  <2>1. \A r \in Records : counts'[r] \in {0, counts[r]}
    BY <1>1 DEF Ack, Forget, TypeOK, ProcessTypeOK
  <2>2. \A r \in Records : counts[r] <= faults => counts'[r] <= faults'
    BY <2>1 DEF TypeOK, ProcessTypeOK, FaultTypeOK
  <2>3. QED
    BY <1>1, <2>1, <2>2 DEF Ack, SetAsideInv
<1>2. CASE BatchDone
  BY <1>2, SetAsideKept DEF BatchDone
<1>3. ASSUME NEW r \in Records, Publish(r) PROVE SetAsideInv'
  BY <1>3, SetAsideKept DEF Publish
<1>4. ASSUME NEW r \in Records, PublishFailure(r) PROVE place[r] # "unwritten"
  BY <1>4 DEF PublishFailure, IsOldest, DeliveryInv, InFlight, InPlace
<1>5. ASSUME NEW r \in Records, PassOver(r) PROVE SetAsideInv'
  BY <1>4, <1>5, FailureSetAside DEF PassOver, PublishFailure
<1>6. ASSUME NEW r \in Records, StandDown(r) PROVE SetAsideInv'
  BY <1>4, <1>6, FailureSetAside DEF StandDown
<1>7. ASSUME NEW r \in Records, HaltBatch(r) PROVE SetAsideInv'
  BY <1>4, <1>7, FailureSetAside DEF HaltBatch
<1>8. QED
  BY <1>1, <1>2, <1>3, <1>5, <1>6, <1>7

\* The stand-down probe and the dead letter.
LEMMA DeadLetterSetAside ==
  ASSUME TypeOK, TypeOK', DeliveryInv, SetAsideInv, faults <= faults',
         \A r \in Records : place'[r] = "unwritten" => place[r] = "unwritten",
         \/ ProbeUnanswered \/ ProbeAck \/ WriteReason \/ MoveAside
         \/ DeadLetterLoss \/ RecordCycle
         \/ \E r \in Records : ProbeAnswers(r) \/ ProbeRefused(r)
  PROVE  SetAsideInv'
<1> USE DEF journalVars, processVars, brokerVars, Goto
<1>1. ASSUME \A r \in Records : counts'[r] \in {0, counts[r]}
      PROVE  \A r \in Records : counts[r] <= faults => counts'[r] <= faults'
  BY <1>1 DEF TypeOK, ProcessTypeOK, FaultTypeOK
<1>2. CASE ProbeUnanswered
  BY <1>2, SetAsideKept DEF ProbeUnanswered
<1>3. CASE ProbeAck
  <2>1. \A r \in Records : counts'[r] \in {0, counts[r]}
    BY <1>3 DEF ProbeAck, Forget, TypeOK, ProcessTypeOK
  <2>2. QED
    BY <1>1, <1>3, <2>1 DEF ProbeAck, SetAsideInv
<1>4. CASE WriteReason
  BY <1>4, SetAsideKept DEF WriteReason
<1>5. CASE MoveAside
  BY <1>5, SetAsideKept DEF MoveAside
<1>6. CASE DeadLetterLoss
  <2>1. \A r \in Records : counts'[r] \in {0, counts[r]}
    BY <1>6 DEF DeadLetterLoss, Forget, TypeOK, ProcessTypeOK
  <2>2. refused' \cap granted \cap known = {}
    BY <1>6 DEF DeadLetterLoss, SetAsideInv
  <2>3. QED
    BY <1>1, <1>6, <2>1, <2>2 DEF DeadLetterLoss, SetAsideInv
<1>7. CASE RecordCycle
  <2>1. CASE ProcessEnds
    BY <1>7, <2>1, SetAsideEnds DEF RecordCycle, SetAsideInv
  <2>2. CASE ~ProcessEnds
    BY <1>7, <2>2, SetAsideKept DEF RecordCycle
  <2>3. QED
    BY <2>1, <2>2
<1>8. ASSUME NEW p \in Records, ProbeAnswers(p) PROVE SetAsideInv'
  BY <1>8, SetAsideKept DEF ProbeAnswers
<1>9. ASSUME NEW p \in Records, ProbeRefused(p) PROVE SetAsideInv'
  BY <1>9, SetAsideKept DEF ProbeRefused
<1>10. QED
  BY <1>2, <1>3, <1>4, <1>5, <1>6, <1>7, <1>8, <1>9

\* Hook processes and the environment.
LEMMA OutsideSetAside ==
  ASSUME Reachable, TypeOK, TypeOK', DeliveryInv, SetAsideInv, faults <= faults',
         \A r \in Records : place'[r] = "unwritten" => place[r] = "unwritten",
         Environment \/ \E r \in Records : Writer(r)
  PROVE  SetAsideInv'
<1> USE DEF journalVars, cycleVars, processVars, brokerVars, diskVars
<1>1. CASE Crash
  BY <1>1, SetAsideEnds DEF Crash, SetAsideInv
<1>2. CASE Signal
  BY <1>2, SetAsideKept DEF Signal
<1>3. CASE BrokerDown \/ BrokerUp
  BY <1>3 DEF BrokerDown, BrokerUp, Reachable, SetAsideInv, TypeOK, BrokerTypeOK
<1>4. ASSUME NEW r \in Records, Tear(r) PROVE SetAsideInv'
  BY <1>4, SetAsideKept DEF Tear
<1>5. ASSUME NEW r \in Records, Replay(r) PROVE SetAsideInv'
  BY <1>5, SetAsideKept DEF Replay
<1>6. ASSUME NEW R \in Registries, InstallRegistry(R) PROVE SetAsideInv'
  BY <1>6, SetAsideKept DEF InstallRegistry
<1>7. ASSUME NEW t \in EventTypes, Provision(t) PROVE SetAsideInv'
  BY <1>7 DEF Provision, Reachable
<1>8. ASSUME NEW r \in Records, Writer(r) PROVE SetAsideInv'
  <2>1. ASSUME NEW t \in WriterTypes, BeginWrite(r, t) PROVE SetAsideInv'
    <3>1. counts[r] = 0 /\ faults \in Nat /\ place[r] = "unwritten"
      BY <2>1 DEF BeginWrite, SetAsideInv, TypeOK, FaultTypeOK
    <3>2. /\ UNCHANGED <<counts, refused, known, up, granted, pc, cur, faults>>
          /\ \A s \in Records \ {r} : etype'[s] = etype[s]
      BY <1>8, <2>1 DEF Writer, BeginWrite, TypeOK, JournalTypeOK
    <3>3. pc \in {"probe", "probeAck", "reason", "move", "deadLetterLoss"}
            => cur \in Records \ {r}
      BY <3>1 DEF DeliveryInv, InFlight, TypeOK, CycleTypeOK, Settling
    <3>4. QED
      BY <3>1, <3>2, <3>3 DEF SetAsideInv
  <2>2. CASE LandWrite(r) \/ FailWrite(r)
    BY <1>8, <2>2, SetAsideKept DEF Writer, LandWrite, FailWrite
  <2>3. QED
    BY <1>8, <2>1, <2>2 DEF Writer
<1>9. QED
  BY <1>1, <1>2, <1>3, <1>4, <1>5, <1>6, <1>7, <1>8 DEF Environment

(***************************************************************************)
(* While the broker stays reachable, its grants do not change and fewer    *)
(* answers are lost than a record needs failures, no record the broker and *)
(* the registry would take is ever dead-lettered, whatever is installed,   *)
(* replayed, restarted or written meanwhile (drain_once's quarantine).     *)
(***************************************************************************)
THEOREM SetsAsideOnlyRefused ==
  ASSUME Reachable PROVE Spec => OnlyRefusedSetAside
<1>1. Init => SetAsideInv
  BY DEF Init, JournalInit, SetAsideInv
<1>2. TypeOK /\ TypeOK' /\ DeliveryInv /\ SetAsideInv /\ [Next]_vars => SetAsideInv'
  <2> SUFFICES ASSUME TypeOK, TypeOK', DeliveryInv, SetAsideInv, [Next]_vars
               PROVE  SetAsideInv'
    OBVIOUS
  <2>1. CASE UNCHANGED vars
    BY <2>1 DEF vars, journalVars, cycleVars, processVars, brokerVars, SetAsideInv
  <2>2. CASE Drainer
    BY <2>2, OnlyForward, StartSetAside, BoundSetAside, PublishSetAside,
       DeadLetterSetAside DEF Drainer, OnRecord
  <2>3. CASE Environment \/ \E r \in Records : Writer(r)
    BY <2>3, OnlyForward, OutsideSetAside
  <2>4. QED
    BY <2>1, <2>2, <2>3 DEF Next
<1>3. TypeOK /\ DeliveryInv /\ SetAsideInv /\ [Next]_vars
        => [\A r \in Records :
              pc = "move" /\ place[r] = "journal" /\ place'[r] = "quarantine"
                => etype[r] \notin granted \cap known]_vars
  <2> SUFFICES ASSUME TypeOK, SetAsideInv, Next, NEW r \in Records,
                      pc = "move", place[r] = "journal", place'[r] = "quarantine"
               PROVE  etype[r] \notin granted \cap known
    BY DEF vars
  <2>1. CASE MoveAside
    BY <2>1 DEF MoveAside, SetAside, SetAsideInv, TypeOK, JournalTypeOK
  <2>2. CASE Environment \/ \E s \in Records : Writer(s)
    BY <2>2 DEF Environment, Crash, Signal, BrokerDown, BrokerUp, Tear, Replay,
       InstallRegistry, Provision, Writer, BeginWrite, LandWrite, FailWrite,
       journalVars, TypeOK, JournalTypeOK
  <2>3. CASE Drainer
    BY <2>1, <2>3 DEF Drainer, OnRecord, Start, MigrateRecordLoss, MigrateDone,
       CheckSources, ReleaseDeferred, EnforceBound, SkipBound, EvictUnlink,
       EvictFails, EvictDone, Ack, BatchDone, ProbeUnanswered, ProbeAck, WriteReason,
       DeadLetterLoss, RecordCycle, MigrateConvert, MigrateSetAside, MigrateFails,
       EvictRecordLoss, Publish, PassOver, StandDown, HaltBatch, PublishFailure,
       ProbeAnswers, ProbeRefused
  <2>4. QED
    BY <2>2, <2>3 DEF Next
<1>4. QED
  BY <1>1, <1>2, <1>3, TypeCorrect, DeliveryInvariant, PTL DEF Spec, OnlyRefusedSetAside

----------------------------------------------------------------------------
(* Order.                                                                  *)

OrderInv ==
  /\ listed \subseteq Records
  /\ \A s \in listed : place[s] # "unwritten"
  /\ pc \in {"publish", "ack", "probe"}
       => /\ batch \subseteq listed
          /\ \A s \in listed \ batch : Settled(s) \/ ProvenRefused(s)
  /\ pc = "probe"
       => /\ cur \in batch /\ probes \subseteq batch
          /\ ProvenRefused(cur) \/ counts[cur] >= QuarantineAfter
          /\ \A p \in probes, q \in batch :
               q < p => ProvenRefused(q) \/ etype[q] # etype[p]

\* What a record was settled with stays: the broker keeps what it has, and
\* no line is taken out of the loss log.
LEMMA SettledStays ==
  ASSUME [Next]_vars, NEW s \in Records, Settled(s)
  PROVE  Settled(s)'
<1> USE DEF Settled, LossReported, journalVars, brokerVars
<1>1. ASSUME NEW r \in Records, OnRecord(r) PROVE Settled(s)'
  BY <1>1 DEF OnRecord, MigrateConvert, MigrateSetAside, MigrateFails, EvictRecordLoss,
     LossLine, RecordLoss, Publish, PublishSucceeds, Confirmed, PassOver, StandDown,
     HaltBatch, PublishFailure, NotConfirmed, ProbeAnswers, ProbeRefused
<1>2. CASE Drainer
  BY <1>1, <1>2 DEF Drainer, Start, MigrateRecordLoss, LossLine, RecordLoss, MigrateDone,
     CheckSources, ReleaseDeferred, EnforceBound, SkipBound, EvictUnlink, EvictFails,
     EvictDone, Ack, BatchDone, ProbeUnanswered, ProbeAck, WriteReason, MoveAside,
     DeadLetterLoss, RecordCycle
<1>3. CASE Environment
  BY <1>3 DEF Environment, Crash, Signal, BrokerDown, BrokerUp, Tear, Replay,
     InstallRegistry, Provision
<1>4. ASSUME NEW r \in Records, Writer(r) PROVE Settled(s)'
  BY <1>4 DEF Writer, BeginWrite, LandWrite, FailWrite
<1>5. QED
  BY <1>2, <1>3, <1>4 DEF Next, vars

\* The type of a written record changes only while legacy records are
\* converted.
LEMMA TypeStays ==
  ASSUME TypeOK, [Next]_vars, pc # "migrate",
         NEW s \in Records, place[s] # "unwritten"
  PROVE  etype'[s] = etype[s]
<1> USE DEF journalVars
<1>1. ASSUME NEW r \in Records, OnRecord(r) PROVE UNCHANGED etype
  BY <1>1 DEF OnRecord, MigrateConvert, MigrateSetAside, MigrateFails, EvictRecordLoss,
     Publish, PassOver, StandDown, HaltBatch, PublishFailure, ProbeAnswers, ProbeRefused
<1>2. CASE Drainer
  BY <1>1, <1>2 DEF Drainer, Start, MigrateRecordLoss, MigrateDone,
     CheckSources, ReleaseDeferred, EnforceBound, SkipBound, EvictUnlink, EvictFails,
     EvictDone, Ack, BatchDone, ProbeUnanswered, ProbeAck, WriteReason, MoveAside,
     DeadLetterLoss, RecordCycle
<1>3. CASE Environment
  BY <1>3 DEF Environment, Crash, Signal, BrokerDown, BrokerUp, Tear, Replay,
     InstallRegistry, Provision
<1>4. ASSUME NEW r \in Records, Writer(r) PROVE etype'[s] = etype[s]
  BY <1>4 DEF Writer, BeginWrite, LandWrite, FailWrite, TypeOK, JournalTypeOK
<1>5. QED
  BY <1>2, <1>3, <1>4 DEF Next, vars

\* What holds of listed records after any step, once they are listed.
LEMMA ListedStays ==
  ASSUME TypeOK, OrderInv, [Next]_vars, pc # "migrate", NEW s \in listed
  PROVE  /\ s \in Records /\ place'[s] # "unwritten"
         /\ etype'[s] = etype[s]
         /\ Settled(s) => Settled(s)'
  BY OnlyForward, SettledStays, TypeStays DEF OrderInv

\* A step that starts no loop and passes no record.
LEMMA OrderStays ==
  ASSUME TypeOK, OrderInv, [Next]_vars, UNCHANGED listed,
         pc' \in {"publish", "ack", "probe"}
           => /\ UNCHANGED <<pc, batch, cur, refused, counts>>
              /\ probes' \subseteq probes
  PROVE  OrderInv'
<1>1. /\ listed' \subseteq Records
      /\ \A s \in listed' : place'[s] # "unwritten"
  BY OnlyForward DEF OrderInv
<1>2. ASSUME pc' \in {"publish", "ack", "probe"}
      PROVE  /\ batch' \subseteq listed'
             /\ \A s \in listed' \ batch' : Settled(s)' \/ ProvenRefused(s)'
  BY <1>2, ListedStays DEF OrderInv, ProvenRefused
<1>3. ASSUME pc' = "probe"
      PROVE  /\ ProvenRefused(cur)' \/ counts'[cur'] >= QuarantineAfter
             /\ \A p \in probes', q \in batch' :
                  q < p => ProvenRefused(q)' \/ etype'[q] # etype'[p]
  <2>1. pc = "probe" /\ UNCHANGED <<batch, cur, refused, counts>> /\ probes' \subseteq probes
    BY <1>3
  <2>2. cur \in batch /\ probes \subseteq batch
    BY <2>1 DEF OrderInv
  <2>3. \A q \in batch : etype'[q] = etype[q]
    BY <2>1, ListedStays DEF OrderInv
  <2>4. QED
    BY <2>1, <2>2, <2>3 DEF OrderInv, ProvenRefused
<1>4. QED
  BY <1>1, <1>2, <1>3 DEF OrderInv

\* The candidates that ProbeOrder gives are behind no record of their own
\* class but proven refused ones, and none is of the head's class.
LEMMA ProbeOrderSorted ==
  ASSUME NEW r \in batch, batch \subseteq Records
  PROVE  /\ ProbeOrder(r) \subseteq batch
         /\ \A p \in ProbeOrder(r), q \in batch :
              q < p => ProvenRefused(q) \/ etype[q] # etype[p]
  BY DEF ProbeOrder, FirstOf

LEMMA OrderStep ==
  ASSUME TypeOK, TypeOK', DeliveryInv, OrderInv, [OrderNext]_orderVars
  PROVE  OrderInv'
<1> USE DEF journalVars, cycleVars, Goto
<1>1. [Next]_vars
  BY DEF OrderNext, orderVars, vars
<1>2. CASE UNCHANGED orderVars
  BY <1>1, <1>2, OrderStays DEF orderVars, vars, processVars
<1>3. CASE OrderNext /\ pc' \in {"off", "check"}
  BY <1>3 DEF OrderNext, ListsNow, OrderInv
<1>4. CASE OrderNext /\ ListsNow
  <2>1. SkipBound \/ EvictFails \/ EvictDone
    BY <1>4 DEF ListsNow, OrderNext, Next, Drainer, OnRecord, Environment, Start, MigrateRecordLoss,
       MigrateDone, CheckSources, ProcessEnds, ReleaseDeferred, EnforceBound,
       EvictUnlink, Ack, BatchDone, ProbeUnanswered, ProbeAck, WriteReason, MoveAside,
       DeadLetterLoss, RecordCycle, MigrateConvert, MigrateSetAside, MigrateFails,
       EvictRecordLoss, Publish, PassOver, StandDown, HaltBatch, PublishFailure,
       ProbeAnswers, ProbeRefused, Crash, Signal, BrokerDown, BrokerUp, Tear, Replay,
       InstallRegistry, Provision, Writer
  <2>2. batch' \subseteq InPlace("journal") /\ place' = place /\ pc' = "publish"
    BY <2>1 DEF SkipBound, EvictFails, EvictDone, ListNow, List, ListPending, FirstOf
  <2>3. listed' = batch'
    BY <1>4 DEF OrderNext
  <2>4. QED
    BY <2>2, <2>3 DEF OrderInv, InPlace
<1>5. CASE OrderNext /\ ~ListsNow /\ pc' \notin {"off", "check"}
  <2>1. listed' = listed
    BY <1>5 DEF OrderNext
  <2>2. CASE pc' \notin {"publish", "ack", "probe"}
    BY <1>1, <2>1, <2>2, OrderStays
  <2>3. CASE UNCHANGED <<cycleVars, processVars>>
    BY <1>1, <2>1, <2>3, OrderStays DEF processVars
  <2>4. ASSUME pc \in {"publish", "ack"}
        PROVE  /\ \A s \in listed : /\ s \in Records /\ place'[s] # "unwritten"
                                    /\ etype'[s] = etype[s]
                                    /\ Settled(s) => Settled(s)'
               /\ batch \subseteq listed
               /\ \A s \in listed \ batch : Settled(s) \/ ProvenRefused(s)
    BY <1>1, <2>4, ListedStays DEF OrderInv
  <2>5. ASSUME NEW r \in Records, Publish(r) PROVE OrderInv'
    <3>1. pc = "publish" /\ UNCHANGED <<batch, refused>> /\ pc' = "ack"
      BY <2>5 DEF Publish, processVars
    <3>2. QED
      BY <2>1, <2>4, <3>1 DEF OrderInv, ProvenRefused
  <2>6. CASE Ack
    <3>1. /\ pc = "ack" /\ UNCHANGED refused /\ pc' = "publish"
          /\ batch' = batch \ {cur}
      BY <2>6 DEF Ack, Passed
    <3>2. Settled(cur)
      BY <3>1 DEF DeliveryInv, Justified, Acknowledged, Settled
    <3>3. QED
      BY <2>1, <2>4, <3>1, <3>2 DEF OrderInv, ProvenRefused
  <2>7. ASSUME NEW r \in Records, PassOver(r) PROVE OrderInv'
    <3>1. /\ pc = "publish" /\ UNCHANGED refused /\ pc' = "publish"
          /\ batch' = batch \ {r} /\ ProvenRefused(r)
      BY <2>7 DEF PassOver, PublishFailure, Passed
    <3>2. QED
      BY <2>1, <2>4, <3>1 DEF OrderInv, ProvenRefused
  <2>8. ASSUME NEW r \in Records, StandDown(r) PROVE OrderInv'
    <3>1. /\ pc = "publish" /\ UNCHANGED <<refused, batch, etype>> /\ pc' = "probe"
          /\ cur' = r /\ r \in batch /\ probes' = ProbeOrder(r)
          /\ ProvenRefused(r) \/ counts'[r] >= QuarantineAfter
      BY <2>8 DEF StandDown, PublishFailure, IsOldest
    <3>2. batch \subseteq Records
      BY DEF TypeOK, CycleTypeOK
    <3>3. /\ probes' \subseteq batch
          /\ \A p \in probes', q \in batch :
               q < p => ProvenRefused(q) \/ etype[q] # etype[p]
      BY <3>1, <3>2, ProbeOrderSorted
    <3>4. QED
      BY <2>1, <2>4, <3>1, <3>3 DEF OrderInv, ProvenRefused
  <2>9. ASSUME NEW r \in Records, OnRecord(r) PROVE OrderInv'
    <3>1. CASE MigrateConvert(r) \/ MigrateSetAside(r) \/ MigrateFails(r)
               \/ EvictRecordLoss(r) \/ HaltBatch(r) \/ ProbeAnswers(r)
      BY <2>2, <3>1 DEF MigrateConvert, MigrateSetAside, MigrateFails, EvictRecordLoss,
         HaltBatch, ProbeAnswers
    <3>2. CASE ProbeRefused(r)
      BY <1>1, <2>1, <3>2, OrderStays DEF ProbeRefused, processVars
    <3>3. QED
      BY <2>5, <2>7, <2>8, <2>9, <3>1, <3>2 DEF OnRecord
  <2>10. CASE Drainer
    BY <1>5, <2>2, <2>6, <2>9, <2>10
       DEF Drainer, ListsNow, Start, MigrateRecordLoss, MigrateDone, CheckSources,
           ProcessEnds, ReleaseDeferred, EnforceBound, SkipBound, ListNow, List, EvictUnlink,
           EvictFails, EvictDone, BatchDone, ProbeUnanswered, ProbeAck, WriteReason,
           MoveAside, DeadLetterLoss, RecordCycle
  <2>11. CASE Environment
    <3>1. CASE Signal
      BY <1>1, <2>1, <3>1, OrderStays DEF Signal
    <3>2. QED
      BY <1>5, <2>3, <2>11, <3>1 DEF Environment, Crash, ProcessEnds, BrokerDown,
         BrokerUp, Tear, Replay, InstallRegistry, Provision
  <2>12. ASSUME NEW r \in Records, Writer(r) PROVE OrderInv'
    BY <2>3, <2>12 DEF Writer
  <2>13. QED
    BY <1>5, <2>10, <2>11, <2>12 DEF OrderNext, Next
<1>6. QED
  BY <1>2, <1>3, <1>4, <1>5

\* The publish of p that this step confirms is that of the record the step
\* is about.
LEMMA PublishesOldest ==
  ASSUME TypeOK, [Next]_vars, NEW r \in Records, PublishesNow(r)
  PROVE  \/ pc = "publish" /\ IsOldest(r, batch)
         \/ pc = "probe" /\ IsOldest(r, probes)
<1> USE DEF PublishesNow, journalVars, cycleVars, Goto
<1>1. ASSUME NEW s \in Records, OnRecord(s)
      PROVE  \/ pc = "publish" /\ IsOldest(r, batch)
             \/ pc = "probe" /\ IsOldest(r, probes)
  <2>1. CASE Publish(s)
    BY <2>1 DEF Publish
  <2>2. CASE ProbeAnswers(s)
    BY <2>2 DEF ProbeAnswers
  <2>3. QED
    BY <1>1, <2>1, <2>2 DEF OnRecord, MigrateConvert, MigrateSetAside, MigrateFails,
       EvictRecordLoss, PassOver, StandDown, HaltBatch, PublishFailure, ProbeRefused
<1>2. CASE Drainer
  BY <1>1, <1>2 DEF Drainer, Start, MigrateRecordLoss, MigrateDone, CheckSources,
     ProcessEnds, ReleaseDeferred, EnforceBound, SkipBound, ListNow, List, EvictUnlink,
     EvictFails, EvictDone, Ack, BatchDone, ProbeUnanswered, ProbeAck, WriteReason,
     MoveAside, DeadLetterLoss, RecordCycle
<1>3. CASE Environment \/ (\E s \in Records : Writer(s)) \/ UNCHANGED vars
  BY <1>3 DEF Environment, Crash, ProcessEnds, Signal, BrokerDown, BrokerUp, Tear,
     Replay, InstallRegistry, Provision, Writer, vars
<1>4. QED
  BY <1>2, <1>3 DEF Next

(***************************************************************************)
(* For any number of records, batch limit, threshold and faults: a record  *)
(* goes out ahead of an older one of its batch only over one of a class    *)
(* proven refused, or on the probe of a head at its threshold, and then    *)
(* never over one of its own class (drain_once, the probe's order).        *)
(***************************************************************************)
THEOREM OrderIsKept == OrderSpec => OrderKept
<1>1. OrderInit => Init /\ OrderInv
  BY DEF OrderInit, OrderInv, Init
<1>2. [OrderNext]_orderVars => [Next]_vars
  BY DEF OrderNext, orderVars, vars
<1>3. OrderSpec => Spec
  BY <1>1, <1>2, PTL DEF OrderSpec, Spec
<1>4. TypeOK /\ TypeOK' /\ DeliveryInv /\ OrderInv /\ [OrderNext]_orderVars => OrderInv'
  BY OrderStep
<1>5. OrderSpec => [](TypeOK /\ OrderInv)
  BY <1>1, <1>3, <1>4, DeliveryInvariant, PTL DEF OrderSpec
<1>6. TypeOK /\ OrderInv /\ [OrderNext]_orderVars
        => [\A r \in Records, s \in listed :
              PublishesNow(r) /\ s < r /\ place[s] = "journal" /\ ~Settled(s)
                => \/ ProvenRefused(s)
                   \/ /\ pc = "probe"
                      /\ ProvenRefused(cur) \/ counts[cur] >= QuarantineAfter
                      /\ etype[s] # etype[r]]_orderVars
  <2> SUFFICES ASSUME TypeOK, OrderInv, OrderNext, NEW r \in Records, NEW s \in listed,
                      PublishesNow(r), s < r, ~Settled(s), ~ProvenRefused(s)
               PROVE  /\ pc = "probe"
                      /\ ProvenRefused(cur) \/ counts[cur] >= QuarantineAfter
                      /\ etype[s] # etype[r]
    OBVIOUS
  <2>1. \/ pc = "publish" /\ IsOldest(r, batch)
        \/ pc = "probe" /\ IsOldest(r, probes)
    BY PublishesOldest DEF OrderNext
  <2>2. s \in Records /\ s \in batch
    BY <2>1 DEF OrderInv
  <2>3. ~IsOldest(r, batch)
    BY <2>2 DEF IsOldest, Records
  <2>4. pc = "probe" /\ r \in probes
    BY <2>1, <2>3 DEF IsOldest
  <2>5. QED
    BY <2>2, <2>4 DEF OrderInv
<1>7. QED
  BY <1>3, <1>5, <1>6, PTL DEF OrderSpec, OrderKept

============================================================================
