-------------------------- MODULE HookEmitDrainer --------------------------
(***************************************************************************)
(* The singleton drainer of the hook-emit journal                          *)
(* (plugins/onex/hooks/lib/hook_emit_drainer.py), with the journal it      *)
(* drains, the broker it publishes to, and what interrupts it: crashes,    *)
(* I/O errors, broker outages, registry changes and operator replays.      *)
(*                                                                         *)
(* SingletonLock is a kernel lock held for the life of the process: a      *)
(* second drainer exits at once, so the module has one drainer, which is   *)
(* started again each time it is "off".  Every durable effect of a cycle   *)
(* is a step of its own, so a crash may fall between any two.              *)
(***************************************************************************)
EXTENDS HookEmitJournal

CONSTANTS
  LegacyTypes,      \* fully qualified topics that old writers journalled as types
  Semantic,         \* the event type a legacy topic converts to
  MalformedTypes,   \* types no emit request can be built for
  Granted,          \* types the broker accepts from this principal at first
  Provisionable,    \* types an operator may grant later
  Registries,       \* the emit registries that may be installed
  Modes,            \* how a drainer may be started: [once, preserve]
  BatchLimit,       \* drain_once's batch_limit
  QuarantineAfter,  \* drain_once's quarantine_after
  ProbeClasses,     \* most classes the stand-down probe asks
  NoRecord,
  MaxFaults,        \* bound: crashes, signals, I/O errors, lost acks
  MaxOutages,       \* bound: broker outages
  MaxInstalls       \* bound: registry changes

ASSUME DrainerAssumption ==
  /\ LegacyTypes \subseteq EventTypes
  /\ Semantic \in [LegacyTypes -> EventTypes]
  /\ MalformedTypes \subseteq EventTypes
  /\ Granted \subseteq EventTypes
  /\ Provisionable \subseteq EventTypes
  /\ Registries \subseteq SUBSET EventTypes
  /\ Modes \subseteq [once : BOOLEAN, preserve : BOOLEAN]
  /\ BatchLimit \in Nat \ {0}
  /\ QuarantineAfter \in Nat \ {0}
  /\ ProbeClasses \in Nat
  /\ NoRecord \notin Records
  /\ MaxFaults \in Nat /\ MaxOutages \in Nat /\ MaxInstalls \in Nat

VARIABLES
  pc,         \* what the drainer does next
  batch,      \* the records the current loop has still to handle
  cur,        \* the record being settled
  atHead,     \* no record of this batch has been passed yet (index == 0)
  probes,     \* the stand-down probe's candidates, then the one that published
  counts,     \* failure_counts, cut off at QuarantineAfter
  refused,    \* refused_event_types
  known,      \* publishable, as read from the registry by this process
  mode,       \* the options this process was started with
  stopping,   \* _shutdown
  registry,   \* the emit registry installed now; {} if it cannot be read
  stale,      \* it was installed after this process took its fingerprints
  reasons,    \* records with a reason file in quarantine/
  up,         \* the broker is reachable
  granted,    \* the types the broker accepts now
  delivered,  \* records the broker has at least once
  faults, outages, installs,
  misread     \* history: the ledger row whose read enforce_bound has failed

cycleVars   == <<pc, batch, cur, atHead, probes>>
processVars == <<counts, refused, known, mode, stopping>>
brokerVars  == <<up, granted, delivered, outages>>
diskVars    == <<registry, stale, reasons, installs>>
faultVars   == <<faults, misread>>
vars == <<journalVars, cycleVars, processVars, brokerVars, diskVars, faultVars>>

Steps == {"off", "migrate", "migrateLoss", "check", "release", "bound",
          "evict", "evictUnlink", "publish", "ack", "probe", "probeAck",
          "reason", "move", "deadLetterLoss", "record"}

----------------------------------------------------------------------------
Fault   == faults < MaxFaults /\ faults' = faults + 1 /\ UNCHANGED misread
NoFault == UNCHANGED faultVars

Goto(next) ==
  /\ pc' = next
  /\ UNCHANGED <<batch, cur, atHead, probes>>

\* The loop over `batch` is done with r.
Passed(r) == batch' = batch \ {r}

\* The process is gone, and what it held in memory with it.
ProcessEnds ==
  /\ pc' = "off"
  /\ batch' = {} /\ cur' = NoRecord /\ atHead' = FALSE /\ probes' = {}
  /\ counts' = [r \in Records |-> 0]
  /\ refused' = {}
  /\ known' = {}
  /\ mode' = [once |-> FALSE, preserve |-> FALSE]
  /\ stopping' = FALSE

\* record_loss, as the step of a process that goes on either way.
LossLine(r) ==
  \/ NoFault /\ RecordLoss(r, TRUE)
  \/ Fault /\ RecordLoss(r, FALSE)

----------------------------------------------------------------------------
(* run: start, migrate_legacy_journal, and the top of the loop.            *)

\* The fingerprints are taken, then the legacy topics are read from the
\* registry: an unreadable one ({}) leaves legacy records for another start.
Start ==
  /\ pc = "off"
  /\ \E m \in Modes : mode' = m
  /\ known' = registry /\ stale' = FALSE
  /\ batch' = IF registry = {} THEN {}
              ELSE {r \in InPlace("journal") : Readable(r) /\ etype[r] \in LegacyTypes}
  /\ pc' = "migrate"
  /\ UNCHANGED <<journalVars, cur, atHead, probes, counts, refused, stopping,
                 brokerVars, registry, reasons, installs, faultVars>>

\* The record is rewritten in place under its semantic type.
MigrateConvert(r) ==
  /\ pc = "migrate" /\ IsOldest(r, batch)
  /\ Semantic[etype[r]] \in known
  /\ etype' = [etype EXCEPT ![r] = Semantic[@]]
  /\ Passed(r)
  /\ UNCHANGED <<place, torn, status, lossLog, unlogged, pc, cur, atHead, probes,
                 processVars, brokerVars, diskVars, faultVars>>

\* Mutant of MigrateSetAside: the record is deleted.
MigrateDiscard(r) ==
  /\ pc = "migrate" /\ IsOldest(r, batch)
  /\ Semantic[etype[r]] \notin known
  /\ Unlink(r)
  /\ pc' = "migrateLoss" /\ cur' = r
  /\ Passed(r)
  /\ UNCHANGED <<etype, torn, status, lossLog, unlogged, atHead, probes,
                 processVars, brokerVars, diskVars, faultVars>>

MigrateSetAside(r) ==
  /\ pc = "migrate" /\ IsOldest(r, batch)
  /\ Semantic[etype[r]] \notin known
  /\ SetAside(r)
  /\ pc' = "migrateLoss" /\ cur' = r
  /\ Passed(r)
  /\ UNCHANGED <<etype, torn, status, lossLog, unlogged, atHead, probes,
                 processVars, brokerVars, diskVars, faultVars>>

MigrateRecordLoss ==
  /\ pc = "migrateLoss"
  /\ LossLine(cur)
  /\ pc' = "migrate" /\ cur' = NoRecord
  /\ UNCHANGED <<place, etype, torn, status, batch, atHead, probes,
                 processVars, brokerVars, diskVars>>

\* An I/O error leaves the record as it is, for another start.
MigrateFails(r) ==
  /\ pc = "migrate" /\ IsOldest(r, batch)
  /\ Fault
  /\ Passed(r)
  /\ UNCHANGED <<journalVars, pc, cur, atHead, probes, processVars, brokerVars,
                 diskVars>>

\* Then the registry is read again, for the types it lists.
MigrateDone ==
  /\ pc = "migrate" /\ batch = {}
  /\ known' = registry
  /\ Goto("check")
  /\ UNCHANGED <<journalVars, counts, refused, mode, stopping, brokerVars,
                 diskVars, faultVars>>

\* Mutant of CheckSources: the registry is never looked at again.
CheckSourcesNever ==
  /\ pc = "check"
  /\ Goto("release")
  /\ UNCHANGED <<journalVars, processVars, brokerVars, diskVars, faultVars>>

\* A registry that changed on disk ends the process (RELOAD_EXIT_CODE), so
\* that the supervisor's restart picks up the new one.
CheckSources ==
  /\ pc = "check"
  /\ IF ~mode.once /\ stale
     THEN ProcessEnds
     ELSE Goto("release") /\ UNCHANGED processVars
  /\ UNCHANGED <<journalVars, brokerVars, diskVars, faultVars>>

----------------------------------------------------------------------------
(* drain_once: release_deferred, enforce_bound, list_pending.              *)

\* A rename that fails leaves its row deferred; the others are released.
ReleaseDeferred ==
  /\ pc = "release"
  /\ \/ NoFault /\ ReleaseAll(Releasable(known))
     \/ Fault /\ \E S \in SUBSET Releasable(known) : ReleaseAll(S)
  /\ Goto("bound")
  /\ UNCHANGED <<etype, torn, status, lossLog, unlogged, processVars, brokerVars,
                 diskVars>>

\* Mutant of Excess: one record too many.
ExcessOffByOne == Cardinality(InPlace("journal")) - JournalBound + 1

Excess == Cardinality(InPlace("journal")) - JournalBound

\* list_pending, with the loop of drain_once about to start at index 0.
List(missed) ==
  /\ pc' = "publish"
  /\ batch' = ListPending(BatchLimit, missed)
  /\ atHead' = TRUE
  /\ UNCHANGED <<cur, probes>>

ListNow ==
  \/ NoFault /\ List({})
  \/ Fault /\ \E r \in InPlace("journal") : List({r})

\* The files are read one by one.  A ledger row whose read raises has no type
\* to exempt it, and is dropped with the rest.
EnforceBound ==
  /\ pc = "bound"
  /\ ~mode.preserve /\ Cardinality(InPlace("journal")) > JournalBound
  /\ pc' = "evict"
  /\ \/ /\ batch' = FirstOf(Excess, Evictable)
        /\ misread' = misread \ InPlace("journal")
        /\ UNCHANGED faults
     \/ \E r \in InPlace("journal") \ Evictable :
          /\ batch' = FirstOf(Excess, Evictable \cup {r})
          /\ misread' = (misread \ InPlace("journal")) \cup {r}
          /\ faults < MaxFaults /\ faults' = faults + 1
  /\ UNCHANGED <<journalVars, cur, atHead, probes, processVars, brokerVars,
                 diskVars>>

\* Under the bound, or asked to preserve the backlog, or the lock stayed
\* busy (JournalLockTimeout): no eviction this cycle.
SkipBound ==
  /\ pc = "bound"
  /\ \/ (mode.preserve \/ Cardinality(InPlace("journal")) <= JournalBound) /\ ListNow
     \/ Fault /\ List({})
  /\ UNCHANGED <<journalVars, processVars, brokerVars, diskVars>>

\* The loss line comes first and the unlink second.
EvictRecordLoss(r) ==
  /\ pc = "evict" /\ IsOldest(r, batch)
  /\ LossLine(r)
  /\ pc' = "evictUnlink" /\ cur' = r
  /\ UNCHANGED <<place, etype, torn, status, batch, atHead, probes, processVars,
                 brokerVars, diskVars>>

\* Mutant of EvictUnlink: the loop does not move on.
EvictUnlinkAgain ==
  /\ pc = "evictUnlink"
  /\ Unlink(cur)
  /\ pc' = "evict" /\ cur' = NoRecord
  /\ UNCHANGED <<etype, torn, status, lossLog, unlogged, batch, atHead, probes,
                 processVars, brokerVars, diskVars, faultVars>>

EvictUnlink ==
  /\ pc = "evictUnlink"
  /\ Unlink(cur)
  /\ Passed(cur)
  /\ pc' = "evict" /\ cur' = NoRecord
  /\ UNCHANGED <<etype, torn, status, lossLog, unlogged, atHead, probes,
                 processVars, brokerVars, diskVars, faultVars>>

\* An unlink that raises ends the eviction, not the cycle.
EvictFails ==
  /\ pc = "evictUnlink"
  /\ Fault
  /\ pc' = "publish"
  /\ batch' = ListPending(BatchLimit, {}) /\ atHead' = TRUE /\ cur' = NoRecord
  /\ UNCHANGED <<journalVars, probes, processVars, brokerVars, diskVars>>

EvictDone ==
  /\ pc = "evict" /\ batch = {}
  /\ ListNow
  /\ UNCHANGED <<journalVars, processVars, brokerVars, diskVars>>

----------------------------------------------------------------------------
(* drain_once: the publish loop.                                           *)

Malformed(r) == etype[r] \in MalformedTypes

Accepts(r) == up /\ etype[r] \in known /\ etype[r] \in granted

ProvenRefused(r) == etype[r] \in refused

\* A publish of r that the broker confirms.
Confirmed(r) ==
  /\ ~Malformed(r) /\ Accepts(r)
  /\ delivered' = delivered \cup {r}

\* One that is not: refused, or lost on the way there or on the way back, or
\* never tried because the emit handler could not be loaded.
NotConfirmed(r) ==
  \/ /\ ~Malformed(r) /\ ~Accepts(r)
     /\ NoFault /\ UNCHANGED delivered
  \/ /\ ~Malformed(r) /\ Accepts(r)
     /\ Fault /\ delivered' \in {delivered, delivered \cup {r}}
  \/ /\ Malformed(r)
     /\ Fault /\ UNCHANGED delivered

\* Mutant of PublishSucceeds: a publish without an answer counts.
PublishSucceedsOnSend(r) ==
  \/ /\ Confirmed(r)
     /\ UNCHANGED <<lossLog, unlogged, faultVars>>
  \/ /\ ~Malformed(r) /\ Accepts(r) /\ Fault
     /\ UNCHANGED <<lossLog, unlogged, delivered>>

\* _Emitter.publish answers True: the broker confirmed the record, or no
\* request can be built for it, its loss is recorded and it is acked.
PublishSucceeds(r) ==
  \/ /\ Confirmed(r)
     /\ UNCHANGED <<lossLog, unlogged, faultVars>>
  \/ /\ Malformed(r)
     /\ LossLine(r)
     /\ UNCHANGED delivered

Publish(r) ==
  /\ pc = "publish" /\ ~stopping /\ IsOldest(r, batch)
  /\ PublishSucceeds(r)
  /\ pc' = "ack" /\ cur' = r
  /\ UNCHANGED <<place, etype, torn, status, batch, atHead, probes, processVars,
                 up, granted, outages, diskVars>>

Forget(r) == counts' = [counts EXCEPT ![r] = 0]

\* journal.ack unlinks the record; an OSError is swallowed.
Ack ==
  /\ pc = "ack"
  /\ \/ Unlink(cur) /\ NoFault
     \/ UNCHANGED place /\ Fault
  /\ Forget(cur)
  /\ Passed(cur)
  /\ pc' = "publish" /\ cur' = NoRecord /\ atHead' = FALSE
  /\ UNCHANGED <<etype, torn, status, lossLog, unlogged, probes,
                 refused, known, mode, stopping, brokerVars, diskVars>>

\* Mutant of CountFailure: a map of its own for every cycle.
CountFailureAfresh(r) == counts' = [counts EXCEPT ![r] = 1]

CountFailure(r) ==
  counts' = [counts EXCEPT ![r] = IF @ < QuarantineAfter THEN @ + 1 ELSE @]

\* The node that orders the probe answers with records behind the head of up
\* to ProbeClasses other classes, the oldest of each, refused classes left out.
ProbeOrder(r) ==
  LET other == {s \in batch \ {r} : etype[s] # etype[r] /\ ~ProvenRefused(s)}
  IN  FirstOf(ProbeClasses,
              {s \in other : \A q \in other : q < s => etype[q] # etype[s]})

PublishFailure(r) ==
  /\ pc = "publish" /\ ~stopping /\ IsOldest(r, batch)
  /\ NotConfirmed(r)
  /\ CountFailure(r)
  /\ UNCHANGED <<journalVars, refused, known, mode, stopping, up, granted,
                 outages, diskVars>>

\* A record of a proven class past the head is passed over.
PassOver(r) ==
  /\ PublishFailure(r)
  /\ ~atHead /\ ProvenRefused(r)
  /\ Passed(r)
  /\ UNCHANGED <<pc, cur, atHead, probes>>

\* Mutant of StandDown: the first failure is enough.
StandDownAtOnce(r) ==
  /\ PublishFailure(r)
  /\ atHead
  /\ pc' = "probe" /\ cur' = r
  /\ probes' = ProbeOrder(r)
  /\ UNCHANGED <<batch, atHead>>

\* The head of the batch is a candidate for the dead letter.
StandDown(r) ==
  /\ PublishFailure(r)
  /\ atHead /\ (ProvenRefused(r) \/ counts'[r] >= QuarantineAfter)
  /\ pc' = "probe" /\ cur' = r
  /\ probes' = ProbeOrder(r)
  /\ UNCHANGED <<batch, atHead>>

\* Mutant of HaltBatch: the loop goes on to the next record.
HaltBatchNot(r) ==
  /\ PublishFailure(r)
  /\ IF atHead THEN ~ProvenRefused(r) /\ counts'[r] < QuarantineAfter
               ELSE ~ProvenRefused(r)
  /\ Passed(r)
  /\ UNCHANGED <<pc, cur, atHead, probes>>

\* Any other failure ends the batch.
HaltBatch(r) ==
  /\ PublishFailure(r)
  /\ IF atHead THEN ~ProvenRefused(r) /\ counts'[r] < QuarantineAfter
               ELSE ~ProvenRefused(r)
  /\ Goto("record")

BatchDone ==
  /\ pc = "publish" /\ (batch = {} \/ stopping)
  /\ Goto("record")
  /\ UNCHANGED <<journalVars, processVars, brokerVars, diskVars, faultVars>>

----------------------------------------------------------------------------
(* _broker_answers_behind_the_head and quarantine_record.                  *)

ProbeAnswers(p) ==
  /\ pc = "probe" /\ IsOldest(p, probes)
  /\ PublishSucceeds(p)
  /\ pc' = "probeAck" /\ probes' = {p}
  /\ UNCHANGED <<place, etype, torn, status, batch, cur, atHead, processVars,
                 up, granted, outages, diskVars>>

ProbeRefused(p) ==
  /\ pc = "probe" /\ IsOldest(p, probes)
  /\ NotConfirmed(p)
  /\ probes' = probes \ {p}
  /\ UNCHANGED <<journalVars, pc, batch, cur, atHead, processVars,
                 up, granted, outages, diskVars>>

\* Mutant of ProbeUnanswered: the head is set aside all the same.
ProbeUnansweredIgnored ==
  /\ pc = "probe" /\ probes = {}
  /\ Goto("reason")
  /\ UNCHANGED <<journalVars, processVars, brokerVars, diskVars, faultVars>>

\* "the broker is unreachable, so nothing is being dead-lettered"
ProbeUnanswered ==
  /\ pc = "probe" /\ probes = {}
  /\ Goto("record")
  /\ UNCHANGED <<journalVars, processVars, brokerVars, diskVars, faultVars>>

\* Mutant of ProbeAck: the head is forgotten with the probe.
ProbeAckDropsHead ==
  /\ pc = "probeAck"
  /\ \E p \in probes : Unlink(p) /\ Forget(p)
  /\ pc' = "reason" /\ cur' = NoRecord
  /\ UNCHANGED <<batch, atHead, probes, etype, torn, status, lossLog, unlogged,
                 refused, known, mode, stopping, brokerVars, diskVars, faultVars>>

ProbeAck ==
  /\ pc = "probeAck"
  /\ \E p \in probes :
       /\ \/ Unlink(p) /\ NoFault
          \/ UNCHANGED place /\ Fault
       /\ Forget(p)
  /\ Goto("reason")
  /\ UNCHANGED <<etype, torn, status, lossLog, unlogged,
                 refused, known, mode, stopping, brokerVars, diskVars>>

\* Mutant of WriteReason: a failure to write it is ignored.
WriteReasonBestEffort ==
  /\ pc = "reason"
  /\ \/ NoFault /\ reasons' = reasons \cup {cur}
     \/ Fault /\ UNCHANGED reasons
  /\ Goto("move")
  /\ UNCHANGED <<journalVars, processVars, brokerVars, registry, stale,
                 installs>>

\* The reason file is written first and the record moved second.  A failure
\* of either leaves the record queued and ends the cycle.
WriteReason ==
  /\ pc = "reason"
  /\ \/ NoFault /\ reasons' = reasons \cup {cur} /\ Goto("move")
     \/ Fault /\ UNCHANGED reasons /\ Goto("record")
  /\ UNCHANGED <<journalVars, processVars, brokerVars, registry, stale,
                 installs>>

MoveAside ==
  /\ pc = "move"
  /\ \/ NoFault /\ SetAside(cur) /\ Goto("deadLetterLoss")
     \/ Fault /\ UNCHANGED place /\ Goto("record")
  /\ UNCHANGED <<etype, torn, status, lossLog, unlogged, processVars, brokerVars,
                 diskVars>>

\* The loss line, and then the class of the record is held proven refused.
DeadLetterLoss ==
  /\ pc = "deadLetterLoss"
  /\ LossLine(cur)
  /\ Forget(cur)
  /\ refused' = refused \cup {etype[cur]}
  /\ Goto("record")
  /\ UNCHANGED <<place, etype, torn, status, known, mode, stopping, brokerVars,
                 diskVars>>

\* _record_cycle writes the status file; a failure is logged and ignored.
RecordCycle ==
  /\ pc = "record"
  /\ \/ status' = known /\ NoFault
     \/ UNCHANGED status /\ Fault
  /\ IF mode.once \/ stopping
     THEN ProcessEnds
     ELSE /\ pc' = "check"
          /\ batch' = {} /\ cur' = NoRecord /\ atHead' = FALSE /\ probes' = {}
          /\ UNCHANGED processVars
  /\ UNCHANGED <<place, etype, torn, lossLog, unlogged, brokerVars, diskVars>>

----------------------------------------------------------------------------
(* What happens to the drainer and around it.                              *)

Crash ==
  /\ pc # "off" /\ Fault
  /\ ProcessEnds
  /\ UNCHANGED <<journalVars, brokerVars, diskVars>>

\* SIGTERM or SIGINT: the loops look at it when they next may.
Signal ==
  /\ pc # "off" /\ ~stopping /\ Fault
  /\ stopping' = TRUE
  /\ UNCHANGED <<journalVars, cycleVars, counts, refused, known, mode, brokerVars,
                 diskVars>>

\* A host that goes down may leave a renamed file without its data: nothing
\* is synced.  The drainer is down with it.
Tear(r) ==
  /\ pc = "off" /\ Fault
  /\ place[r] \in {"journal", "deferred"} /\ Readable(r)
  /\ torn' = torn \cup {r}
  /\ UNCHANGED <<place, etype, status, lossLog, unlogged, cycleVars, processVars,
                 brokerVars, diskVars>>

BrokerDown ==
  /\ up /\ outages < MaxOutages
  /\ up' = FALSE /\ outages' = outages + 1
  /\ UNCHANGED <<journalVars, cycleVars, processVars, granted, delivered, diskVars,
                 faultVars>>

BrokerUp ==
  /\ ~up
  /\ up' = TRUE
  /\ UNCHANGED <<journalVars, cycleVars, processVars, granted, delivered, outages,
                 diskVars, faultVars>>

InstallRegistry(R) ==
  /\ installs < MaxInstalls
  /\ registry' = R /\ stale' = TRUE /\ installs' = installs + 1
  /\ UNCHANGED <<journalVars, cycleVars, processVars, brokerVars, reasons, faultVars>>

\* "Provision the grant, then move this file back into the journal directory."
Provision(t) ==
  /\ t \in Provisionable \ granted
  /\ granted' = granted \cup {t}
  /\ UNCHANGED <<journalVars, cycleVars, processVars, up, delivered, outages,
                 diskVars, faultVars>>

Replay(r) ==
  /\ place[r] = "quarantine" /\ etype[r] \in granted
  /\ place' = [place EXCEPT ![r] = "journal"]
  /\ UNCHANGED <<etype, torn, status, lossLog, unlogged, cycleVars, processVars,
                 brokerVars, diskVars, faultVars>>

----------------------------------------------------------------------------
Init ==
  /\ JournalInit
  /\ pc = "off" /\ batch = {} /\ cur = NoRecord /\ atHead = FALSE /\ probes = {}
  /\ counts = [r \in Records |-> 0]
  /\ refused = {} /\ known = {} /\ stopping = FALSE
  /\ mode = [once |-> FALSE, preserve |-> FALSE]
  /\ registry \in Registries /\ stale = FALSE /\ reasons = {}
  /\ up = TRUE /\ granted = Granted /\ delivered = {}
  /\ faults = 0 /\ outages = 0 /\ installs = 0 /\ misread = {}

Writer(r) ==
  /\ \/ \E t \in WriterTypes : BeginWrite(r, t)
     \/ LandWrite(r)
     \/ FailWrite(r)
  /\ UNCHANGED <<cycleVars, processVars, brokerVars, diskVars, faultVars>>

OnRecord(r) ==
  \/ MigrateConvert(r) \/ MigrateSetAside(r) \/ MigrateFails(r)
  \/ EvictRecordLoss(r)
  \/ Publish(r) \/ PassOver(r) \/ StandDown(r) \/ HaltBatch(r)
  \/ ProbeAnswers(r) \/ ProbeRefused(r)

Drainer ==
  \/ Start \/ MigrateRecordLoss \/ MigrateDone \/ CheckSources
  \/ ReleaseDeferred \/ EnforceBound \/ SkipBound
  \/ EvictUnlink \/ EvictFails \/ EvictDone
  \/ Ack \/ BatchDone
  \/ ProbeUnanswered \/ ProbeAck \/ WriteReason \/ MoveAside \/ DeadLetterLoss
  \/ RecordCycle
  \/ \E r \in Records : OnRecord(r)

Environment ==
  \/ Crash \/ Signal \/ BrokerDown \/ BrokerUp
  \/ \E r \in Records : Tear(r) \/ Replay(r)
  \/ \E R \in Registries : InstallRegistry(R)
  \/ \E t \in EventTypes : Provision(t)

Next == Drainer \/ Environment \/ \E r \in Records : Writer(r)

Spec == Init /\ [][Next]_vars

\* launchd keeps the drainer running and a broker outage ends; nothing is
\* assumed of the hook processes, the operator or the faults.
Fairness == WF_vars(Drainer) /\ WF_vars(BrokerUp)

FairSpec == Spec /\ Fairness

\* The steps at which one record is being settled.
Settling == {"migrateLoss", "evictUnlink", "ack", "probe", "probeAck",
             "reason", "move", "deadLetterLoss"}

CycleTypeOK ==
  /\ pc \in Steps
  /\ batch \subseteq Records /\ probes \subseteq Records
  /\ cur \in Records \cup {NoRecord}
  /\ pc \in Settling => cur \in Records
  /\ atHead \in BOOLEAN

ProcessTypeOK ==
  /\ counts \in [Records -> 0..QuarantineAfter]
  /\ refused \subseteq EventTypes \cup {NoType} /\ known \subseteq EventTypes
  /\ mode \in [once : BOOLEAN, preserve : BOOLEAN]
  /\ stopping \in BOOLEAN

BrokerTypeOK ==
  /\ up \in BOOLEAN /\ granted \subseteq EventTypes /\ delivered \subseteq Records
  /\ outages \in 0..MaxOutages

DiskTypeOK ==
  /\ registry \subseteq EventTypes /\ stale \in BOOLEAN
  /\ reasons \subseteq Records
  /\ installs \in 0..MaxInstalls

FaultTypeOK == faults \in 0..MaxFaults /\ misread \subseteq Records

TypeOK ==
  /\ JournalTypeOK /\ CycleTypeOK /\ ProcessTypeOK /\ BrokerTypeOK /\ DiskTypeOK
  /\ FaultTypeOK

============================================================================
