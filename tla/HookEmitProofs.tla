--------------------------- MODULE HookEmitProofs ---------------------------
(***************************************************************************)
(* Proofs about the hook-emit journal and drainer, for any number of       *)
(* records, any event types, registries and bounds: types, the inductive   *)
(* invariant DeliveryInv of a drain cycle and the delivery guarantees that *)
(* follow from it, and the refinement of the durable outbox.               *)
(***************************************************************************)
EXTENDS HookEmitDelivery, TLAPS

USE DEF faultVars

----------------------------------------------------------------------------
(* The type invariant.                                                     *)

LEMMA InitTypeOK == Init => TypeOK
<1> SUFFICES ASSUME Init PROVE TypeOK
  OBVIOUS
<1> USE JournalAssumption, DrainerAssumption
    DEF JournalAssumption, DrainerAssumption, Init
<1>1. JournalTypeOK
  BY DEF JournalInit, JournalTypeOK, Places
<1>2. CycleTypeOK
  BY DEF CycleTypeOK, Steps, Settling
<1>3. ProcessTypeOK
  <2>1. counts \in [Records -> 0..QuarantineAfter]
    OBVIOUS
  <2>2. mode \in [once : BOOLEAN, preserve : BOOLEAN] /\ stopping \in BOOLEAN
    OBVIOUS
  <2>3. QED
    BY <2>1, <2>2 DEF ProcessTypeOK
<1>4. BrokerTypeOK
  BY DEF BrokerTypeOK
<1>5. DiskTypeOK
  <2>1. stale \in BOOLEAN
    OBVIOUS
  <2>2. registry \subseteq EventTypes /\ reasons \subseteq Records
        /\ installs \in 0..MaxInstalls
    OBVIOUS
  <2>3. QED
    BY <2>1, <2>2 DEF DiskTypeOK
<1>6. FaultTypeOK
  BY DEF FaultTypeOK
<1>7. QED
  BY <1>1, <1>2, <1>3, <1>4, <1>5, <1>6 DEF TypeOK

\* What a step leaves alone keeps its type.
LEMMA UnchangedTyped ==
  /\ JournalTypeOK /\ UNCHANGED journalVars => JournalTypeOK'
  /\ CycleTypeOK /\ UNCHANGED cycleVars => CycleTypeOK'
  /\ ProcessTypeOK /\ UNCHANGED processVars => ProcessTypeOK'
  /\ BrokerTypeOK /\ UNCHANGED brokerVars => BrokerTypeOK'
  /\ DiskTypeOK /\ UNCHANGED diskVars => DiskTypeOK'
  BY DEF JournalTypeOK, CycleTypeOK, ProcessTypeOK, BrokerTypeOK, DiskTypeOK,
         journalVars, cycleVars, processVars, brokerVars, diskVars

LEMMA FaultTyped ==
  FaultTypeOK /\ (Fault \/ NoFault \/ UNCHANGED faultVars) => FaultTypeOK'
  BY DrainerAssumption DEF DrainerAssumption, Fault, NoFault, FaultTypeOK

LEMMA ProcessEndsTyped == ProcessEnds => CycleTypeOK' /\ ProcessTypeOK'
<1> USE DrainerAssumption DEF DrainerAssumption, ProcessEnds
<1>1. ProcessEnds => CycleTypeOK'
  BY DEF CycleTypeOK, Steps, Settling
<1>2. ProcessEnds => counts' \in [Records -> 0..QuarantineAfter]
  OBVIOUS
<1>3. ProcessEnds => mode' \in [once : BOOLEAN, preserve : BOOLEAN]
  OBVIOUS
<1>4. QED
  BY <1>1, <1>2, <1>3 DEF ProcessTypeOK

LEMMA WriterTypeOK ==
  ASSUME TypeOK, NEW r \in Records, Writer(r)
  PROVE  TypeOK'
<1> USE JournalAssumption DEF JournalAssumption, TypeOK, JournalTypeOK, Places
<1>1. JournalTypeOK'
  <2>1. ASSUME NEW t \in WriterTypes, BeginWrite(r, t) PROVE JournalTypeOK'
    BY <2>1 DEF BeginWrite
  <2>2. CASE LandWrite(r)
    BY <2>2 DEF LandWrite
  <2>3. CASE FailWrite(r)
    BY <2>3 DEF FailWrite
  <2>4. QED
    BY <2>1, <2>2, <2>3 DEF Writer
<1>2. QED
  BY <1>1, UnchangedTyped, FaultTyped DEF Writer

LEMMA EnvironmentTypeOK ==
  ASSUME TypeOK, Environment
  PROVE  TypeOK'
<1> USE JournalAssumption, DrainerAssumption, UnchangedTyped, FaultTyped
    DEF JournalAssumption, DrainerAssumption, TypeOK
<1>1. CASE Crash
  BY <1>1, ProcessEndsTyped DEF Crash
<1>2. CASE Signal
  BY <1>2 DEF Signal, ProcessTypeOK
<1>3. CASE BrokerDown
  <2>1. outages' \in 0..MaxOutages
    BY <1>3 DEF BrokerDown, BrokerTypeOK
  <2>2. QED
    BY <1>3, <2>1 DEF BrokerDown, BrokerTypeOK
<1>4. CASE BrokerUp
  BY <1>4 DEF BrokerUp, BrokerTypeOK
<1>5. ASSUME NEW r \in Records, Tear(r) PROVE TypeOK'
  BY <1>5 DEF Tear, JournalTypeOK
<1>6. ASSUME NEW r \in Records, Replay(r) PROVE TypeOK'
  BY <1>6 DEF Replay, JournalTypeOK, Places
<1>7. ASSUME NEW R \in Registries, InstallRegistry(R) PROVE TypeOK'
  BY <1>7 DEF InstallRegistry, DiskTypeOK
<1>8. ASSUME NEW t \in EventTypes, Provision(t) PROVE TypeOK'
  BY <1>8 DEF Provision, BrokerTypeOK
<1>9. QED
  BY <1>1, <1>2, <1>3, <1>4, <1>5, <1>6, <1>7, <1>8 DEF Environment

LEMMA LossLineTyped ==
  ASSUME NEW r \in Records, lossLog \subseteq Records, unlogged \subseteq Records,
         LossLine(r)
  PROVE  /\ lossLog' \subseteq Records /\ unlogged' \subseteq Records
         /\ Fault \/ NoFault
  BY DEF LossLine, RecordLoss

LEMMA ForgetTyped ==
  ASSUME ProcessTypeOK, NEW r \in Records, Forget(r)
  PROVE  counts' \in [Records -> 0..QuarantineAfter]
  BY DrainerAssumption DEF DrainerAssumption, ProcessTypeOK, Forget

LEMMA ListTyped ==
  \A missed : List(missed)
    => pc' = "publish" /\ batch' \subseteq Records /\ atHead' = TRUE
  BY DEF List, ListPending, FirstOf, InPlace

\* Start, migration and the top of the loop.
LEMMA StartTypeOK ==
  ASSUME TypeOK, \/ Start \/ MigrateRecordLoss \/ MigrateDone \/ CheckSources
                 \/ \E r \in Records : \/ MigrateConvert(r) \/ MigrateSetAside(r)
                                        \/ MigrateFails(r)
  PROVE  TypeOK'
<1> USE JournalAssumption, DrainerAssumption, UnchangedTyped, FaultTyped
    DEF JournalAssumption, DrainerAssumption, TypeOK
<1>1. CASE Start
  <2>1. ProcessTypeOK'
    BY <1>1 DEF Start, ProcessTypeOK, DiskTypeOK
  <2>2. CycleTypeOK'
    BY <1>1 DEF Start, CycleTypeOK, Steps, Settling, InPlace
  <2>3. stale' \in BOOLEAN
    BY <1>1 DEF Start
  <2>4. DiskTypeOK'
    BY <1>1, <2>3 DEF Start, DiskTypeOK
  <2>5. QED
    BY <1>1, <2>1, <2>2, <2>4 DEF Start
<1>2. CASE MigrateRecordLoss
  <2>1. cur \in Records
    BY <1>2 DEF MigrateRecordLoss, CycleTypeOK, Settling
  <2>2. JournalTypeOK' /\ FaultTypeOK'
    BY <1>2, <2>1, LossLineTyped DEF MigrateRecordLoss, JournalTypeOK
  <2>3. CycleTypeOK'
    BY <1>2 DEF MigrateRecordLoss, CycleTypeOK, Steps, Settling
  <2>4. QED
    BY <1>2, <2>2, <2>3 DEF MigrateRecordLoss
<1>3. CASE MigrateDone
  <2>1. CycleTypeOK'
    BY <1>3 DEF MigrateDone, Goto, CycleTypeOK, Steps, Settling
  <2>2. ProcessTypeOK'
    BY <1>3 DEF MigrateDone, ProcessTypeOK, DiskTypeOK
  <2>3. QED
    BY <1>3, <2>1, <2>2 DEF MigrateDone
<1>4. CASE CheckSources
  BY <1>4, ProcessEndsTyped DEF CheckSources, Goto, CycleTypeOK, Steps, Settling
<1>5. ASSUME NEW r \in Records, MigrateConvert(r) PROVE TypeOK'
  BY <1>5 DEF MigrateConvert, Passed, JournalTypeOK, CycleTypeOK, ProcessTypeOK
<1>6. ASSUME NEW r \in Records, MigrateSetAside(r) PROVE TypeOK'
  BY <1>6 DEF MigrateSetAside, SetAside, Passed, JournalTypeOK, CycleTypeOK,
              Places, Steps, Settling
<1>7. ASSUME NEW r \in Records, MigrateFails(r) PROVE TypeOK'
  BY <1>7 DEF MigrateFails, Passed, CycleTypeOK
<1>8. QED
  BY <1>1, <1>2, <1>3, <1>4, <1>5, <1>6, <1>7

LEMMA EnforceBoundFaultTyped ==
  ASSUME FaultTypeOK, EnforceBound
  PROVE  FaultTypeOK'
<1>1. misread' \subseteq misread \cup InPlace("journal")
  BY DEF EnforceBound
<1>2. UNCHANGED faults \/ (faults < MaxFaults /\ faults' = faults + 1)
  BY Zenon DEF EnforceBound
<1>3. faults' \in 0..MaxFaults
  BY <1>2, DrainerAssumption DEF DrainerAssumption, FaultTypeOK
<1>4. QED
  BY <1>1, <1>3 DEF FaultTypeOK, InPlace

\* Release, eviction and listing.
LEMMA BoundTypeOK ==
  ASSUME TypeOK, \/ ReleaseDeferred \/ EnforceBound \/ SkipBound
                 \/ EvictUnlink \/ EvictFails \/ EvictDone
                 \/ \E r \in Records : EvictRecordLoss(r)
  PROVE  TypeOK'
<1> USE JournalAssumption, DrainerAssumption, UnchangedTyped, FaultTyped, ListTyped
    DEF JournalAssumption, DrainerAssumption, TypeOK
<1>1. CASE ReleaseDeferred
  BY <1>1 DEF ReleaseDeferred, ReleaseAll, Goto, JournalTypeOK, CycleTypeOK,
              Places, Steps, Settling
<1>2. CASE EnforceBound
  <2>1. CycleTypeOK'
    BY <1>2 DEF EnforceBound, FirstOf, Evictable, InPlace, CycleTypeOK, Steps, Settling
  <2>2. FaultTypeOK'
    BY <1>2, EnforceBoundFaultTyped
  <2>3. QED
    BY <1>2, <2>1, <2>2 DEF EnforceBound
<1>3. CASE SkipBound
  BY <1>3 DEF SkipBound, ListNow, List, CycleTypeOK, Steps, Settling
<1>4. CASE EvictUnlink
  BY <1>4 DEF EvictUnlink, Unlink, Passed, JournalTypeOK, CycleTypeOK, Places,
              Steps, Settling
<1>5. CASE EvictFails
  BY <1>5 DEF EvictFails, ListPending, FirstOf, InPlace, CycleTypeOK, Steps, Settling
<1>6. CASE EvictDone
  BY <1>6 DEF EvictDone, ListNow, List, CycleTypeOK, Steps, Settling
<1>7. ASSUME NEW r \in Records, EvictRecordLoss(r) PROVE TypeOK'
  <2>1. JournalTypeOK' /\ FaultTypeOK'
    BY <1>7, LossLineTyped DEF EvictRecordLoss, JournalTypeOK
  <2>2. QED
    BY <1>7, <2>1 DEF EvictRecordLoss, CycleTypeOK, Steps, Settling
<1>8. QED
  BY <1>1, <1>2, <1>3, <1>4, <1>5, <1>6, <1>7

LEMMA PublishSucceedsTyped ==
  ASSUME TypeOK, NEW r \in Records, PublishSucceeds(r)
  PROVE  /\ lossLog' \subseteq Records /\ unlogged' \subseteq Records
         /\ delivered' \subseteq Records
         /\ FaultTypeOK'
<1> USE DEF TypeOK, JournalTypeOK, BrokerTypeOK
<1>1. CASE Confirmed(r) /\ UNCHANGED <<lossLog, unlogged, faultVars>>
  BY <1>1, FaultTyped DEF Confirmed
<1>2. CASE LossLine(r) /\ UNCHANGED delivered
  BY <1>2, LossLineTyped, FaultTyped
<1>3. QED
  BY <1>1, <1>2 DEF PublishSucceeds

LEMMA NotConfirmedTyped ==
  ASSUME TypeOK, NEW r \in Records, NotConfirmed(r)
  PROVE  delivered' \subseteq Records /\ FaultTypeOK'
  BY FaultTyped DEF NotConfirmed, TypeOK, BrokerTypeOK

LEMMA CountFailureTyped ==
  ASSUME ProcessTypeOK, NEW r \in Records, CountFailure(r)
  PROVE  counts' \in [Records -> 0..QuarantineAfter]
  BY DrainerAssumption DEF DrainerAssumption, ProcessTypeOK, CountFailure

\* The publish loop.
LEMMA PublishTypeOK ==
  ASSUME TypeOK, \/ Ack \/ BatchDone
                 \/ \E r \in Records : \/ Publish(r) \/ PassOver(r) \/ StandDown(r)
                                        \/ HaltBatch(r)
  PROVE  TypeOK'
<1> USE JournalAssumption, DrainerAssumption, UnchangedTyped, FaultTyped
    DEF JournalAssumption, DrainerAssumption, TypeOK
<1>1. CASE Ack
  <2>1. cur \in Records
    BY <1>1 DEF Ack, CycleTypeOK, Settling
  <2>2. ProcessTypeOK'
    BY <1>1, <2>1, ForgetTyped DEF Ack, ProcessTypeOK
  <2>3. JournalTypeOK'
    BY <1>1 DEF Ack, Unlink, JournalTypeOK, Places
  <2>4. CycleTypeOK'
    BY <1>1 DEF Ack, Passed, CycleTypeOK, Steps, Settling
  <2>5. QED
    BY <1>1, <2>2, <2>3, <2>4 DEF Ack
<1>2. CASE BatchDone
  BY <1>2 DEF BatchDone, Goto, CycleTypeOK, Steps, Settling
<1>3. ASSUME NEW r \in Records, Publish(r) PROVE TypeOK'
  <2>1. JournalTypeOK' /\ BrokerTypeOK' /\ FaultTypeOK'
    BY <1>3, PublishSucceedsTyped DEF Publish, JournalTypeOK, BrokerTypeOK
  <2>2. CycleTypeOK'
    BY <1>3 DEF Publish, CycleTypeOK, Steps, Settling
  <2>3. QED
    BY <1>3, <2>1, <2>2 DEF Publish
<1>4. ASSUME NEW r \in Records, PublishFailure(r)
      PROVE  /\ JournalTypeOK' /\ ProcessTypeOK' /\ BrokerTypeOK' /\ DiskTypeOK'
             /\ FaultTypeOK'
  <2>1. BrokerTypeOK' /\ FaultTypeOK'
    BY <1>4, NotConfirmedTyped DEF PublishFailure, BrokerTypeOK
  <2>2. ProcessTypeOK'
    BY <1>4, CountFailureTyped DEF PublishFailure, ProcessTypeOK
  <2>3. QED
    BY <1>4, <2>1, <2>2 DEF PublishFailure
<1>5. ASSUME NEW r \in Records, PassOver(r) PROVE TypeOK'
  <2>1. CycleTypeOK'
    BY <1>5 DEF PassOver, Passed, CycleTypeOK
  <2>2. QED
    BY <1>4, <1>5, <2>1 DEF PassOver
<1>6. ASSUME NEW r \in Records, StandDown(r) PROVE TypeOK'
  <2>1. ProbeOrder(r) \subseteq Records
    BY DEF ProbeOrder, FirstOf, CycleTypeOK
  <2>2. CycleTypeOK'
    BY <1>6, <2>1 DEF StandDown, CycleTypeOK, Steps, Settling
  <2>3. QED
    BY <1>4, <1>6, <2>2 DEF StandDown
<1>7. ASSUME NEW r \in Records, HaltBatch(r) PROVE TypeOK'
  <2>1. CycleTypeOK'
    BY <1>7 DEF HaltBatch, Goto, CycleTypeOK, Steps, Settling
  <2>2. QED
    BY <1>4, <1>7, <2>1 DEF HaltBatch
<1>8. QED
  BY <1>1, <1>2, <1>3, <1>5, <1>6, <1>7

\* The stand-down probe and the dead letter.
LEMMA DeadLetterTypeOK ==
  ASSUME TypeOK, \/ ProbeUnanswered \/ ProbeAck \/ WriteReason \/ MoveAside
                 \/ DeadLetterLoss \/ RecordCycle
                 \/ \E r \in Records : ProbeAnswers(r) \/ ProbeRefused(r)
  PROVE  TypeOK'
<1> USE JournalAssumption, DrainerAssumption, UnchangedTyped, FaultTyped
    DEF JournalAssumption, DrainerAssumption, TypeOK
<1>1. CASE ProbeUnanswered
  BY <1>1 DEF ProbeUnanswered, Goto, CycleTypeOK, Steps, Settling
<1>2. CASE ProbeAck
  <2>1. ProcessTypeOK'
    BY <1>2, ForgetTyped DEF ProbeAck, ProcessTypeOK, CycleTypeOK
  <2>2. JournalTypeOK'
    BY <1>2 DEF ProbeAck, Unlink, JournalTypeOK, Places
  <2>3. CycleTypeOK'
    BY <1>2 DEF ProbeAck, Goto, CycleTypeOK, Steps, Settling
  <2>4. QED
    BY <1>2, <2>1, <2>2, <2>3 DEF ProbeAck
<1>3. CASE WriteReason
  BY <1>3 DEF WriteReason, Goto, DiskTypeOK, CycleTypeOK, Steps, Settling
<1>4. CASE MoveAside
  BY <1>4 DEF MoveAside, SetAside, Goto, JournalTypeOK, CycleTypeOK, Places, Steps,
              Settling
<1>5. CASE DeadLetterLoss
  <2>1. cur \in Records
    BY <1>5 DEF DeadLetterLoss, CycleTypeOK, Settling
  <2>2. JournalTypeOK' /\ FaultTypeOK'
    BY <1>5, <2>1, LossLineTyped DEF DeadLetterLoss, JournalTypeOK
  <2>3. ProcessTypeOK'
    BY <1>5, <2>1, ForgetTyped DEF DeadLetterLoss, ProcessTypeOK, JournalTypeOK
  <2>4. CycleTypeOK'
    BY <1>5 DEF DeadLetterLoss, Goto, CycleTypeOK, Steps, Settling
  <2>5. QED
    BY <1>5, <2>2, <2>3, <2>4 DEF DeadLetterLoss
<1>6. CASE RecordCycle
  <2>1. JournalTypeOK' /\ FaultTypeOK'
    BY <1>6 DEF RecordCycle, JournalTypeOK, ProcessTypeOK
  <2>2. CycleTypeOK' /\ ProcessTypeOK'
    BY <1>6, ProcessEndsTyped DEF RecordCycle, CycleTypeOK, Steps, Settling
  <2>3. QED
    BY <1>6, <2>1, <2>2 DEF RecordCycle
<1>7. ASSUME NEW p \in Records, ProbeAnswers(p) PROVE TypeOK'
  <2>1. JournalTypeOK' /\ BrokerTypeOK' /\ FaultTypeOK'
    BY <1>7, PublishSucceedsTyped DEF ProbeAnswers, JournalTypeOK, BrokerTypeOK
  <2>2. CycleTypeOK'
    BY <1>7 DEF ProbeAnswers, CycleTypeOK, Steps, Settling
  <2>3. QED
    BY <1>7, <2>1, <2>2 DEF ProbeAnswers
<1>8. ASSUME NEW p \in Records, ProbeRefused(p) PROVE TypeOK'
  <2>1. BrokerTypeOK' /\ FaultTypeOK'
    BY <1>8, NotConfirmedTyped DEF ProbeRefused, BrokerTypeOK
  <2>2. CycleTypeOK'
    BY <1>8 DEF ProbeRefused, CycleTypeOK
  <2>3. QED
    BY <1>8, <2>1, <2>2 DEF ProbeRefused
<1>9. QED
  BY <1>1, <1>2, <1>3, <1>4, <1>5, <1>6, <1>7, <1>8

(***************************************************************************)
(* Every variable keeps its type, and a step that settles a record has one *)
(* to settle (drain_once and its helpers never act on a missing entry).    *)
(***************************************************************************)
THEOREM TypeCorrect == Spec => []TypeOK
<1>1. TypeOK /\ [Next]_vars => TypeOK'
  <2> SUFFICES ASSUME TypeOK, [Next]_vars PROVE TypeOK'
    OBVIOUS
  <2>1. CASE UNCHANGED vars
    BY <2>1, UnchangedTyped, FaultTyped DEF TypeOK, vars
  <2>2. CASE Drainer
    BY <2>2, StartTypeOK, BoundTypeOK, PublishTypeOK, DeadLetterTypeOK
       DEF Drainer, OnRecord
  <2>3. CASE Environment
    BY <2>3, EnvironmentTypeOK
  <2>4. CASE \E r \in Records : Writer(r)
    BY <2>4, WriterTypeOK
  <2>5. QED
    BY <2>1, <2>2, <2>3, <2>4 DEF Next
<1>2. QED
  BY InitTypeOK, <1>1, PTL DEF Spec

----------------------------------------------------------------------------
(* DeliveryInv is inductive: one lemma per phase of a cycle, one step per  *)
(* action.                                                                 *)

LEMMA InitDeliveryInv == Init => DeliveryInv
  BY DEF Init, JournalInit, DeliveryInv, InFlight, Justified, Explained, Accounted,
         LedgerRowKept, DeadLetterExplained, InPlace

\* Start, migration and the top of the loop.
LEMMA StartDeliveryInv ==
  ASSUME TypeOK, DeliveryInv,
         \/ Start \/ MigrateRecordLoss \/ MigrateDone \/ CheckSources
         \/ \E r \in Records : \/ MigrateConvert(r) \/ MigrateSetAside(r)
                                \/ MigrateFails(r)
  PROVE  DeliveryInv'
<1> USE DEF TypeOK, JournalTypeOK, CycleTypeOK, Settling, Passed, Goto, InPlace,
            Readable, IsLedger, LossReported, Acknowledged, Malformed, NoLedgerRow,
            Fault, NoFault,
            DeliveryInv, InFlight, Justified, Explained,
            Accounted, LedgerRowKept, DeadLetterExplained,
            journalVars, processVars, brokerVars, diskVars
<1>1. CASE Start
  BY <1>1 DEF Start
<1>2. CASE MigrateRecordLoss
  BY <1>2 DEF MigrateRecordLoss, LossLine, RecordLoss
<1>3. CASE MigrateDone
  BY <1>3 DEF MigrateDone
<1>4. CASE CheckSources
  BY <1>4 DEF CheckSources, ProcessEnds
<1>5. ASSUME NEW r \in Records, MigrateConvert(r) PROVE DeliveryInv'
  BY <1>5 DEF MigrateConvert, IsOldest
<1>6. ASSUME NEW r \in Records, MigrateSetAside(r) PROVE DeliveryInv'
  BY <1>6 DEF MigrateSetAside, IsOldest, SetAside
<1>7. ASSUME NEW r \in Records, MigrateFails(r) PROVE DeliveryInv'
  BY <1>7 DEF MigrateFails
<1>8. QED
  BY <1>1, <1>2, <1>3, <1>4, <1>5, <1>6, <1>7

\* Release, eviction and listing.
LEMMA BoundDeliveryInv ==
  ASSUME TypeOK, DeliveryInv,
         \/ ReleaseDeferred \/ EnforceBound \/ SkipBound
         \/ EvictUnlink \/ EvictFails \/ EvictDone
         \/ \E r \in Records : EvictRecordLoss(r)
  PROVE  DeliveryInv'
<1> USE DEF TypeOK, JournalTypeOK, CycleTypeOK, Settling, Passed, Goto, InPlace,
            Readable, IsLedger, LossReported, Acknowledged, Malformed, NoLedgerRow,
            Fault, NoFault,
            DeliveryInv, InFlight, Justified, Explained,
            Accounted, LedgerRowKept, DeadLetterExplained,
            journalVars, processVars, brokerVars, diskVars
<1>1. CASE ReleaseDeferred
  BY <1>1 DEF ReleaseDeferred, ReleaseAll, Releasable
<1>2. CASE EnforceBound
  BY <1>2 DEF EnforceBound, FirstOf, Evictable
<1>3. CASE SkipBound
  BY <1>3 DEF SkipBound, ListNow, List, ListPending, FirstOf
<1>4. CASE EvictUnlink
  BY <1>4 DEF EvictUnlink, Unlink
<1>5. CASE EvictFails
  BY <1>5 DEF EvictFails, ListPending, FirstOf
<1>6. CASE EvictDone
  BY <1>6 DEF EvictDone, ListNow, List, ListPending, FirstOf
<1>7. ASSUME NEW r \in Records, EvictRecordLoss(r) PROVE DeliveryInv'
  BY <1>7 DEF EvictRecordLoss, LossLine, RecordLoss, IsOldest
<1>8. QED
  BY <1>1, <1>2, <1>3, <1>4, <1>5, <1>6, <1>7

\* The publish loop.
LEMMA PublishDeliveryInv ==
  ASSUME TypeOK, DeliveryInv,
         \/ Ack \/ BatchDone
         \/ \E r \in Records : \/ Publish(r) \/ PassOver(r) \/ StandDown(r)
                                \/ HaltBatch(r)
  PROVE  DeliveryInv'
<1> USE DEF TypeOK, JournalTypeOK, CycleTypeOK, Settling, Passed, Goto, InPlace,
            Readable, IsLedger, LossReported, Acknowledged, Malformed, NoLedgerRow,
            Fault, NoFault,
            DeliveryInv, InFlight, Justified, Explained,
            Accounted, LedgerRowKept, DeadLetterExplained,
            journalVars, processVars, brokerVars, diskVars
<1>1. CASE Ack
  BY <1>1 DEF Ack, Unlink
<1>2. CASE BatchDone
  BY <1>2 DEF BatchDone
<1>3. ASSUME NEW r \in Records, Publish(r) PROVE DeliveryInv'
  BY <1>3 DEF Publish, IsOldest, PublishSucceeds, Confirmed, LossLine, RecordLoss
<1>4. ASSUME NEW r \in Records, PublishFailure(r)
      PROVE  /\ UNCHANGED journalVars /\ reasons' = reasons /\ misread' = misread
             /\ delivered \subseteq delivered' /\ r \in batch /\ pc = "publish"
  BY <1>4 DEF PublishFailure, NotConfirmed, IsOldest
<1>5. ASSUME NEW r \in Records, PassOver(r) PROVE DeliveryInv'
  BY <1>4, <1>5 DEF PassOver
<1>6. ASSUME NEW r \in Records, StandDown(r) PROVE DeliveryInv'
  <2>1. ProbeOrder(r) \subseteq batch \ {r}
    BY DEF ProbeOrder, FirstOf
  <2>2. QED
    BY <1>4, <1>6, <2>1 DEF StandDown
<1>7. ASSUME NEW r \in Records, HaltBatch(r) PROVE DeliveryInv'
  BY <1>4, <1>7 DEF HaltBatch
<1>8. QED
  BY <1>1, <1>2, <1>3, <1>5, <1>6, <1>7

\* The stand-down probe and the dead letter.
LEMMA DeadLetterDeliveryInv ==
  ASSUME TypeOK, DeliveryInv,
         \/ ProbeUnanswered \/ ProbeAck \/ WriteReason \/ MoveAside
         \/ DeadLetterLoss \/ RecordCycle
         \/ \E r \in Records : ProbeAnswers(r) \/ ProbeRefused(r)
  PROVE  DeliveryInv'
<1> USE DEF TypeOK, JournalTypeOK, CycleTypeOK, Settling, Passed, Goto, InPlace,
            Readable, IsLedger, LossReported, Acknowledged, Malformed, NoLedgerRow,
            Fault, NoFault,
            DeliveryInv, InFlight, Justified, Explained,
            Accounted, LedgerRowKept, DeadLetterExplained,
            journalVars, processVars, brokerVars, diskVars
<1>1. CASE ProbeUnanswered
  BY <1>1 DEF ProbeUnanswered
<1>2. CASE ProbeAck
  BY <1>2 DEF ProbeAck, Unlink
<1>3. CASE WriteReason
  BY <1>3 DEF WriteReason
<1>4. CASE MoveAside
  BY <1>4 DEF MoveAside, SetAside
<1>5. CASE DeadLetterLoss
  BY <1>5 DEF DeadLetterLoss, LossLine, RecordLoss
<1>6. CASE RecordCycle
  BY <1>6 DEF RecordCycle, ProcessEnds
<1>7. ASSUME NEW p \in Records, ProbeAnswers(p) PROVE DeliveryInv'
  BY <1>7 DEF ProbeAnswers, IsOldest, PublishSucceeds, Confirmed, LossLine, RecordLoss
<1>8. ASSUME NEW p \in Records, ProbeRefused(p) PROVE DeliveryInv'
  BY <1>8 DEF ProbeRefused, NotConfirmed
<1>9. QED
  BY <1>1, <1>2, <1>3, <1>4, <1>5, <1>6, <1>7, <1>8

\* Hook processes and the environment.
LEMMA OutsideDeliveryInv ==
  ASSUME TypeOK, DeliveryInv, Environment \/ \E r \in Records : Writer(r)
  PROVE  DeliveryInv'
<1> USE DEF TypeOK, JournalTypeOK, CycleTypeOK, Settling, InPlace,
            Readable, IsLedger, LossReported, Acknowledged, Malformed, NoLedgerRow,
            Fault, NoFault,
            DeliveryInv, InFlight, Justified, Explained,
            Accounted, LedgerRowKept, DeadLetterExplained,
            journalVars, cycleVars, processVars, brokerVars, diskVars
<1>1. CASE Crash
  BY <1>1 DEF Crash, ProcessEnds
<1>2. CASE Signal
  BY <1>2 DEF Signal
<1>3. CASE BrokerDown \/ BrokerUp
  BY <1>3 DEF BrokerDown, BrokerUp
<1>4. ASSUME NEW r \in Records, Tear(r) PROVE DeliveryInv'
  BY <1>4 DEF Tear
<1>5. ASSUME NEW r \in Records, Replay(r) PROVE DeliveryInv'
  BY <1>5 DEF Replay
<1>6. ASSUME NEW R \in Registries, InstallRegistry(R) PROVE DeliveryInv'
  BY <1>6 DEF InstallRegistry
<1>7. ASSUME NEW t \in EventTypes, Provision(t) PROVE DeliveryInv'
  BY <1>7 DEF Provision
<1>8. ASSUME NEW r \in Records, Writer(r) PROVE DeliveryInv'
  <2>1. ASSUME NEW t \in WriterTypes, BeginWrite(r, t) PROVE DeliveryInv'
    BY <1>8, <2>1 DEF Writer, BeginWrite
  <2>2. CASE LandWrite(r)
    BY <1>8, <2>2 DEF Writer, LandWrite
  <2>3. CASE FailWrite(r)
    BY <1>8, <2>3 DEF Writer, FailWrite
  <2>4. QED
    BY <1>8, <2>1, <2>2, <2>3 DEF Writer
<1>9. QED
  BY <1>1, <1>2, <1>3, <1>4, <1>5, <1>6, <1>7, <1>8 DEF Environment

(***************************************************************************)
(* What the drainer holds in memory between two durable steps stays true   *)
(* of the disk, for any number of records and any crash, I/O error or      *)
(* writer in between.                                                      *)
(***************************************************************************)
THEOREM DeliveryInvariant == Spec => [](TypeOK /\ DeliveryInv)
<1>1. TypeOK /\ DeliveryInv /\ [Next]_vars => DeliveryInv'
  <2> SUFFICES ASSUME TypeOK, DeliveryInv, [Next]_vars PROVE DeliveryInv'
    OBVIOUS
  <2>1. CASE UNCHANGED vars
    BY <2>1 DEF vars, journalVars, cycleVars, brokerVars, diskVars, DeliveryInv,
                InFlight, Justified, Explained, Accounted, LedgerRowKept,
                DeadLetterExplained, InPlace, Readable, IsLedger, Malformed,
                LossReported, Acknowledged, NoLedgerRow
  <2>2. CASE Drainer
    BY <2>2, StartDeliveryInv, BoundDeliveryInv, PublishDeliveryInv,
       DeadLetterDeliveryInv DEF Drainer, OnRecord
  <2>3. CASE Environment \/ \E r \in Records : Writer(r)
    BY <2>3, OutsideDeliveryInv
  <2>4. QED
    BY <2>1, <2>2, <2>3 DEF Next
<1>2. QED
  BY InitDeliveryInv, TypeCorrect, <1>1, PTL DEF Spec

(***************************************************************************)
(* No record file is ever unlinked before the broker had the record or its *)
(* loss line was attempted (enforce_bound, drain_once, publish).           *)
(***************************************************************************)
THEOREM NoSilentLoss == Spec => []Accounted
  BY DeliveryInvariant, PTL DEF DeliveryInv

(***************************************************************************)
(* A readable work-ledger row leaves the disk delivered, or with its loss  *)
(* line attempted because no request can be built for it or because its    *)
(* read raised in that eviction (_read_for_eviction takes the one for a    *)
(* row that has no type), whatever crashes and fails in between.           *)
(***************************************************************************)
THEOREM LedgerRowsSurvive == Spec => []LedgerRowKept
  BY DeliveryInvariant, PTL DEF DeliveryInv

(***************************************************************************)
(* Every record in quarantine/ that is not a legacy one has its reason     *)
(* file (quarantine_record writes it first).                               *)
(***************************************************************************)
THEOREM DeadLettersExplained == Spec => []DeadLetterExplained
  BY DeliveryInvariant, PTL DEF DeliveryInv

----------------------------------------------------------------------------
(* The drainer implements the durable outbox.                              *)

LEMMA InitOutbox == Init => Outbox!OutboxInit
  BY DEF Init, JournalInit, Outbox!OutboxInit, Item, ItemOf, LossReported

\* A step that leaves the files where they are, and publishes only what is
\* in the journal, leaves every item as it is.
LEMMA ItemsStay ==
  ASSUME place' = place,
         \A r \in Records : place[r] = "gone" => (r \in delivered' <=> r \in delivered)
  PROVE  Item' = Item
  BY DEF Item, ItemOf

\* A step that moves one file moves one item.
LEMMA ItemMoves ==
  ASSUME TypeOK, NEW r \in Records, NEW p \in Places,
         place' = [place EXCEPT ![r] = p], delivered' = delivered
  PROVE  Item' = [Item EXCEPT ![r] = ItemOf(r)']
  BY DEF Item, ItemOf, TypeOK, JournalTypeOK

\* Publishing a queued record is Send, and its loss line Account.
LEMMA SendsOrStays ==
  ASSUME TypeOK, NEW r \in Records, place[r] = "journal", UNCHANGED place,
         \/ /\ delivered' \in {delivered, delivered \cup {r}}
            /\ UNCHANGED <<lossLog, unlogged>>
         \/ UNCHANGED delivered /\ LossLine(r)
  PROVE  [Outbox!OutboxNext]_(Outbox!outboxVars)
<1>1. Item' = Item /\ Item[r] = "queued"
  BY ItemsStay DEF Item, ItemOf
<1>2. CASE delivered' \in {delivered, delivered \cup {r}} /\ UNCHANGED <<lossLog, unlogged>>
  BY <1>1, <1>2 DEF Outbox!OutboxNext, Outbox!Send, Outbox!outboxVars, Item, LossReported
<1>3. CASE UNCHANGED delivered /\ LossLine(r)
  BY <1>1, <1>3 DEF Outbox!OutboxNext, Outbox!Account, Outbox!outboxVars, Item,
                    LossReported, LossLine, RecordLoss
<1>4. QED
  BY <1>2, <1>3

\* A record that may be unlinked is settled or dropped by its unlinking.
LEMMA UnlinkSettlesOrDrops ==
  ASSUME TypeOK, NEW r \in Records, place[r] = "journal", Unlink(r),
         r \in delivered \/ r \in LossReported,
         UNCHANGED <<delivered, lossLog, unlogged>>
  PROVE  Outbox!OutboxNext
<1>1. Item' = [Item EXCEPT ![r] = ItemOf(r)'] /\ Item[r] = "queued"
  BY ItemMoves DEF Unlink, Item, ItemOf, Places
<1>2. ItemOf(r)' = IF r \in delivered THEN "settled" ELSE "lost"
  BY DEF Unlink, ItemOf, TypeOK, JournalTypeOK
<1>3. QED
  BY <1>1, <1>2 DEF Outbox!OutboxNext, Outbox!Settle, Outbox!Drop, Outbox!Move,
                    Item, LossReported

LEMMA RenameMoves ==
  ASSUME TypeOK, NEW r \in Records, UNCHANGED <<delivered, lossLog, unlogged>>,
         \/ place[r] \in {"writing", "deferring"} /\ LandWrite(r)
         \/ place[r] = "journal" /\ SetAside(r)
         \/ place[r] = "quarantine" /\ place' = [place EXCEPT ![r] = "journal"]
  PROVE  Outbox!OutboxNext
<1>1. CASE place[r] \in {"writing", "deferring"} /\ LandWrite(r)
  <2>1. Item' = [Item EXCEPT ![r] = ItemOf(r)'] /\ Item[r] = "absent"
    BY <1>1, ItemMoves DEF LandWrite, Item, ItemOf, Places
  <2>2. ItemOf(r)' \in {"queued", "held"}
    BY <1>1 DEF LandWrite, ItemOf, TypeOK, JournalTypeOK
  <2>3. QED
    BY <2>1, <2>2 DEF Outbox!OutboxNext, Outbox!Accept, Outbox!Move, LossReported
<1>2. CASE place[r] = "journal" /\ SetAside(r)
  <2>1. Item' = [Item EXCEPT ![r] = ItemOf(r)'] /\ Item[r] = "queued"
    BY <1>2, ItemMoves DEF SetAside, Item, ItemOf, Places
  <2>2. ItemOf(r)' = "parked"
    BY <1>2 DEF SetAside, ItemOf, TypeOK, JournalTypeOK
  <2>3. QED
    BY <2>1, <2>2 DEF Outbox!OutboxNext, Outbox!Park, Outbox!Move, LossReported
<1>3. CASE place[r] = "quarantine" /\ place' = [place EXCEPT ![r] = "journal"]
  <2>1. Item' = [Item EXCEPT ![r] = ItemOf(r)'] /\ Item[r] = "parked"
    BY <1>3, ItemMoves DEF Item, ItemOf, Places
  <2>2. ItemOf(r)' = "queued"
    BY <1>3 DEF ItemOf, TypeOK, JournalTypeOK
  <2>3. QED
    BY <2>1, <2>2 DEF Outbox!OutboxNext, Outbox!Unpark, Outbox!Move, LossReported
<1>4. QED
  BY <1>1, <1>2, <1>3

\* The drainer's steps, phase by phase.
LEMMA StartOutbox ==
  ASSUME TypeOK, DeliveryInv,
         \/ Start \/ MigrateRecordLoss \/ MigrateDone \/ CheckSources
         \/ \E r \in Records : \/ MigrateConvert(r) \/ MigrateSetAside(r)
                                \/ MigrateFails(r)
  PROVE  [Outbox!OutboxNext]_(Outbox!outboxVars)
<1> USE DEF journalVars, brokerVars
<1>1. CASE UNCHANGED <<place, delivered, lossLog, unlogged>>
  BY <1>1, ItemsStay DEF Outbox!outboxVars, LossReported
<1>2. CASE MigrateRecordLoss
  <2>1. cur \in Records /\ Item' = Item /\ Item[cur] \in {"queued", "parked"}
    BY <1>2, ItemsStay DEF MigrateRecordLoss, TypeOK, CycleTypeOK, Settling,
       DeliveryInv, InFlight, Item, ItemOf
  <2>2. QED
    BY <1>2, <2>1 DEF MigrateRecordLoss, LossLine, RecordLoss, LossReported,
       Outbox!OutboxNext, Outbox!Account, Outbox!outboxVars
<1>3. ASSUME NEW r \in Records, MigrateSetAside(r)
      PROVE  Outbox!OutboxNext
  BY <1>3, RenameMoves DEF MigrateSetAside, IsOldest, DeliveryInv, InFlight, InPlace
<1>4. QED
  BY <1>1, <1>2, <1>3 DEF Start, MigrateDone, CheckSources, MigrateConvert, MigrateFails

LEMMA BoundOutbox ==
  ASSUME TypeOK, DeliveryInv,
         \/ ReleaseDeferred \/ EnforceBound \/ SkipBound
         \/ EvictUnlink \/ EvictFails \/ EvictDone
         \/ \E r \in Records : EvictRecordLoss(r)
  PROVE  [Outbox!OutboxNext]_(Outbox!outboxVars)
<1> USE DEF journalVars, brokerVars
<1>1. CASE UNCHANGED <<place, delivered, lossLog, unlogged>>
  BY <1>1, ItemsStay DEF Outbox!outboxVars, LossReported
<1>2. CASE ReleaseDeferred
  <2>1. PICK S \in SUBSET Releasable(known) : ReleaseAll(S)
    BY <1>2 DEF ReleaseDeferred
  <2>2. /\ S \in SUBSET Records
        /\ \A i \in S : Item[i] = "held"
        /\ Item' = [i \in Records |-> IF i \in S THEN "queued" ELSE Item[i]]
    BY <1>2, <2>1 DEF ReleaseDeferred, ReleaseAll, Releasable, InPlace, Item, ItemOf
  <2>3. QED
    BY <1>2, <2>2 DEF ReleaseDeferred, Outbox!OutboxNext, Outbox!ReleaseHeld, LossReported
<1>3. CASE EvictUnlink
  BY <1>3, UnlinkSettlesOrDrops
     DEF EvictUnlink, TypeOK, CycleTypeOK, Settling, DeliveryInv, InFlight, Justified
<1>4. ASSUME NEW r \in Records, EvictRecordLoss(r)
      PROVE  [Outbox!OutboxNext]_(Outbox!outboxVars)
  BY <1>4, SendsOrStays DEF EvictRecordLoss, IsOldest, DeliveryInv, InFlight, InPlace
<1>5. QED
  BY <1>1, <1>2, <1>3, <1>4
     DEF EnforceBound, SkipBound, EvictFails, EvictDone, ListNow

LEMMA PublishOutbox ==
  ASSUME TypeOK, DeliveryInv,
         \/ Ack \/ BatchDone
         \/ \E r \in Records : \/ Publish(r) \/ PassOver(r) \/ StandDown(r)
                                \/ HaltBatch(r)
  PROVE  [Outbox!OutboxNext]_(Outbox!outboxVars)
<1> USE DEF journalVars, brokerVars
<1>1. CASE UNCHANGED <<place, delivered, lossLog, unlogged>>
  BY <1>1, ItemsStay DEF Outbox!outboxVars, LossReported
<1>2. CASE Ack /\ place' # place
  BY <1>2, UnlinkSettlesOrDrops
     DEF Ack, TypeOK, CycleTypeOK, Settling, DeliveryInv, InFlight, Justified,
         Acknowledged
<1>3. ASSUME NEW r \in Records, Publish(r)
      PROVE  [Outbox!OutboxNext]_(Outbox!outboxVars)
  BY <1>3, SendsOrStays DEF Publish, PublishSucceeds, Confirmed, IsOldest,
     DeliveryInv, InFlight, InPlace
<1>4. ASSUME NEW r \in Records, PublishFailure(r)
      PROVE  [Outbox!OutboxNext]_(Outbox!outboxVars)
  BY <1>4, SendsOrStays DEF PublishFailure, NotConfirmed, IsOldest,
     DeliveryInv, InFlight, InPlace
<1>5. QED
  BY <1>1, <1>2, <1>3, <1>4 DEF Ack, BatchDone, PassOver, StandDown, HaltBatch

LEMMA DeadLetterOutbox ==
  ASSUME TypeOK, DeliveryInv,
         \/ ProbeUnanswered \/ ProbeAck \/ WriteReason \/ MoveAside
         \/ DeadLetterLoss \/ RecordCycle
         \/ \E r \in Records : ProbeAnswers(r) \/ ProbeRefused(r)
  PROVE  [Outbox!OutboxNext]_(Outbox!outboxVars)
<1> USE DEF journalVars, brokerVars
<1>1. CASE UNCHANGED <<place, delivered, lossLog, unlogged>>
  BY <1>1, ItemsStay DEF Outbox!outboxVars, LossReported
<1>2. CASE ProbeAck /\ place' # place
  <2>1. PICK p \in probes : Unlink(p)
    BY <1>2 DEF ProbeAck
  <2>2. p \in Records /\ place[p] = "journal" /\ Acknowledged(p)
    BY <1>2, <2>1 DEF ProbeAck, TypeOK, CycleTypeOK, DeliveryInv, InFlight,
       Justified, InPlace
  <2>3. QED
    BY <1>2, <2>1, <2>2, UnlinkSettlesOrDrops DEF ProbeAck, Acknowledged
<1>3. CASE MoveAside /\ place' # place
  BY <1>3, RenameMoves
     DEF MoveAside, TypeOK, CycleTypeOK, Settling, DeliveryInv, InFlight
<1>4. CASE DeadLetterLoss
  <2>1. cur \in Records /\ Item' = Item /\ Item[cur] \in {"queued", "parked"}
    BY <1>4, ItemsStay DEF DeadLetterLoss, TypeOK, CycleTypeOK, Settling,
       DeliveryInv, InFlight, Item, ItemOf
  <2>2. QED
    BY <1>4, <2>1 DEF DeadLetterLoss, LossLine, RecordLoss, LossReported,
       Outbox!OutboxNext, Outbox!Account, Outbox!outboxVars
<1>5. ASSUME NEW p \in Records, ProbeAnswers(p)
      PROVE  [Outbox!OutboxNext]_(Outbox!outboxVars)
  BY <1>5, SendsOrStays DEF ProbeAnswers, PublishSucceeds, Confirmed, IsOldest,
     DeliveryInv, InFlight, InPlace
<1>6. ASSUME NEW p \in Records, ProbeRefused(p)
      PROVE  [Outbox!OutboxNext]_(Outbox!outboxVars)
  BY <1>6, SendsOrStays DEF ProbeRefused, NotConfirmed, IsOldest,
     DeliveryInv, InFlight, InPlace
<1>7. QED
  BY <1>1, <1>2, <1>3, <1>4, <1>5, <1>6
     DEF ProbeUnanswered, ProbeAck, WriteReason, MoveAside, RecordCycle

LEMMA OutsideOutbox ==
  ASSUME TypeOK, Environment \/ \E r \in Records : Writer(r)
  PROVE  [Outbox!OutboxNext]_(Outbox!outboxVars)
<1> USE DEF journalVars, brokerVars
<1>1. CASE UNCHANGED <<place, delivered, lossLog, unlogged>>
  BY <1>1, ItemsStay DEF Outbox!outboxVars, LossReported
<1>2. ASSUME NEW r \in Records, Replay(r) PROVE Outbox!OutboxNext
  BY <1>2, RenameMoves DEF Replay
<1>3. ASSUME NEW r \in Records, Writer(r)
      PROVE  [Outbox!OutboxNext]_(Outbox!outboxVars)
  <2>1. CASE LandWrite(r)
    BY <1>3, <2>1, RenameMoves DEF Writer, LandWrite
  <2>2. CASE FailWrite(r) \/ \E t \in WriterTypes : BeginWrite(r, t)
    <3>1. Item' = Item
      BY <1>3, <2>2 DEF Writer, FailWrite, BeginWrite, Item, ItemOf, TypeOK,
         JournalTypeOK
    <3>2. QED
      BY <1>3, <2>2, <3>1 DEF Writer, FailWrite, BeginWrite, Outbox!outboxVars,
         LossReported
  <2>3. QED
    BY <1>3, <2>1, <2>2 DEF Writer
<1>4. QED
  BY <1>1, <1>2, <1>3 DEF Environment, Crash, Signal, BrokerDown, BrokerUp, Tear,
     InstallRegistry, Provision

(***************************************************************************)
(* The journal and its drainer implement the durable outbox: every step of *)
(* a cycle, a crash, a writer or an operator is one of the outbox's steps  *)
(* or leaves it as it is (the delivery semantics of hook_emit_journal.py). *)
(***************************************************************************)
THEOREM ImplementsDurableOutbox == Spec => ImplementsOutbox
<1>1. TypeOK /\ DeliveryInv /\ [Next]_vars => [Outbox!OutboxNext]_(Outbox!outboxVars)
  <2> SUFFICES ASSUME TypeOK, DeliveryInv, [Next]_vars
               PROVE  [Outbox!OutboxNext]_(Outbox!outboxVars)
    OBVIOUS
  <2>1. CASE UNCHANGED vars
    BY <2>1, ItemsStay DEF vars, journalVars, brokerVars, Outbox!outboxVars, LossReported
  <2>2. CASE Drainer
    BY <2>2, StartOutbox, BoundOutbox, PublishOutbox, DeadLetterOutbox
       DEF Drainer, OnRecord
  <2>3. CASE Environment \/ \E r \in Records : Writer(r)
    BY <2>3, OutsideOutbox
  <2>4. QED
    BY <2>1, <2>2, <2>3 DEF Next
<1>2. QED
  BY InitOutbox, DeliveryInvariant, <1>1, PTL DEF Spec, ImplementsOutbox, Outbox!OutboxSpec

============================================================================
