-------------------------- MODULE HookEmitDelivery --------------------------
(***************************************************************************)
(* What the journal and the drainer guarantee about delivery, and the      *)
(* refinement that says that they implement a durable outbox.              *)
(***************************************************************************)
EXTENDS HookEmitDrainer

LossReported == lossLog \cup unlogged

\* What publish answers True for.
Acknowledged(r) == r \in delivered \/ (Malformed(r) /\ r \in LossReported)

(***************************************************************************)
(* A record is set aside only while publish has answered True for another  *)
(* one from behind it, through whatever the broker, the registry and a     *)
(* restart do meanwhile (_broker_answers_behind_the_head).  The answer     *)
(* means that the broker had that record, or that no request could be      *)
(* built for it and its loss line was attempted.                           *)
(***************************************************************************)
SetAsideAfterAnswer ==
  pc \in {"probeAck", "reason", "move", "deadLetterLoss"}
    => probes # {} /\ \A p \in probes : p # cur /\ Acknowledged(p)

(***************************************************************************)
(* "A publish that succeeds is the only evidence": a record is set aside   *)
(* only after the broker had one from behind it.  It holds only as long as *)
(* no malformed record is there to be probed.                              *)
(***************************************************************************)
ProbeIsEvidence ==
  pc \in {"probeAck", "reason", "move", "deadLetterLoss"}
    => probes \cap delivered # {}

(***************************************************************************)
(* No silent loss: a record file is unlinked only after the broker had the *)
(* record or after its loss line was attempted, wherever a crash, a        *)
(* failing unlink or a failing loss log falls (hook_emit_journal.py,       *)
(* "Delivery semantics"; _record_eviction before unlink, the unpublishable *)
(* callback before ack).                                                   *)
(***************************************************************************)
Accounted == \A r \in InPlace("gone") : r \in delivered \cup LossReported

(***************************************************************************)
(* A readable work.ledger.* row never leaves the disk undelivered: the     *)
(* bound passes over it and a refusal only sets it aside (enforce_bound,   *)
(* OMN-20735).  A row no request can be built for is one exception; a row  *)
(* whose read raised in the eviction that dropped it is the other, and its *)
(* loss line was attempted.                                                *)
(***************************************************************************)
LedgerRowKept ==
  \A r \in InPlace("gone") :
    IsLedger(r) /\ Readable(r)
      => \/ r \in delivered
         \/ r \in LossReported /\ (Malformed(r) \/ r \in misread)

(***************************************************************************)
(* A record in the dead letter has its reason file, even if the drainer    *)
(* died in the middle of quarantine_record: the reason is written first.   *)
(* Unclassified legacy records are moved without one.                      *)
(***************************************************************************)
DeadLetterExplained ==
  \A r \in InPlace("quarantine") : etype[r] \notin LegacyTypes => r \in reasons

(***************************************************************************)
(* Eviction stops at the bound: no record is dropped while the journal     *)
(* holds JournalBound records or fewer, although hooks keep appending and  *)
(* an earlier eviction may have been cut short (enforce_bound re-lists     *)
(* under its lock).                                                        *)
(***************************************************************************)
EvictionOnlyOverBound ==
  [][pc = "evictUnlink" /\ place' # place
       => Cardinality(InPlace("journal")) > JournalBound]_vars

(***************************************************************************)
(* While the broker stays reachable and fewer than QuarantineAfter answers *)
(* are lost, only records that the broker or the registry refuses are dead *)
(* lettered ("the broker is answering and is refusing this one").          *)
(***************************************************************************)
OnlyRefusedSetAside ==
  [][\A r \in Records :
       pc = "move" /\ place[r] = "journal" /\ place'[r] = "quarantine"
         => etype[r] \notin granted \cap known]_vars

(***************************************************************************)
(* Every record the drainer does not publish -- evicted, unpublishable or  *)
(* dead-lettered -- has its loss line, or a report that it could not be    *)
(* written (the comment on LOSS_LOG_FILENAME).  It holds only as long as   *)
(* no drainer is killed between the move and the line.                     *)
(***************************************************************************)
EveryLossLogged ==
  \A r \in InPlace("gone") \cup InPlace("quarantine") :
    \/ r \in delivered \cup LossReported
    \/ pc \in {"migrateLoss", "deadLetterLoss"} /\ cur = r

(***************************************************************************)
(* A refused class never holds the queue: a record the broker would accept *)
(* leaves the journal in the end, however many refused records stand       *)
(* before it ("a refused record does not hold the queue forever").         *)
(***************************************************************************)
Owed(r) ==
  /\ place[r] = "journal" /\ Readable(r)
  /\ etype[r] \in granted \cap registry

AuthorisedLeavesJournal ==
  \A r \in Records : Owed(r) ~> ~Owed(r)

(***************************************************************************)
(* A deferred ledger row does not stay behind once the installed registry  *)
(* lists its type: the drainer reloads and releases it.                    *)
(***************************************************************************)
Releasing(r) ==
  place[r] = "deferred" /\ Readable(r) /\ etype[r] \in registry

DeferredReleased ==
  \A r \in Records : Releasing(r) ~> ~Releasing(r)

----------------------------------------------------------------------------
(* What holds between the steps of a cycle, and makes the three invariants *)
(* above inductive.                                                        *)

\* What the drainer is about to work on has not been moved by anyone else.
InFlight ==
  /\ pc \in {"migrate", "migrateLoss", "evict", "evictUnlink", "publish", "ack"}
       => batch \subseteq InPlace("journal")
  /\ pc \in {"evictUnlink", "ack", "probe", "probeAck", "reason", "move"}
       => place[cur] = "journal"
  /\ pc \in {"migrateLoss", "deadLetterLoss"}
       => place[cur] \in {"journal", "quarantine"}
  /\ pc \in {"probe", "probeAck"} => probes \subseteq InPlace("journal") \ {cur}

\* What enforce_bound takes for no ledger row.
NoLedgerRow(r) == Readable(r) /\ IsLedger(r) => r \in misread

\* What is about to be unlinked may be.
Justified ==
  /\ pc = "evict" => \A r \in batch : NoLedgerRow(r)
  /\ pc = "evictUnlink" => /\ cur \in LossReported
                           /\ \A r \in batch \cup {cur} : NoLedgerRow(r)
  /\ pc = "ack" => Acknowledged(cur)
  /\ pc = "probeAck" => \A p \in probes : Acknowledged(p)

\* What is about to be set aside is a legacy record or has its reason.
Explained ==
  /\ pc \in {"migrate", "migrateLoss"} => \A r \in batch : etype[r] \in LegacyTypes
  /\ pc \in {"move", "deadLetterLoss"} => cur \in reasons

(***************************************************************************)
(* The inductive invariant: whatever the drainer holds in memory between   *)
(* two durable steps of drain_once, enforce_bound or the migration is      *)
(* still where it was listed, and the evidence for the next step is on     *)
(* disk or at the broker already.                                          *)
(***************************************************************************)
DeliveryInv ==
  /\ InFlight /\ Justified /\ Explained
  /\ Accounted /\ LedgerRowKept /\ DeadLetterExplained

----------------------------------------------------------------------------
\* Journal places as states of an outbox item.
ItemOf(r) ==
  CASE place[r] = "deferred"   -> "held"
    [] place[r] = "journal"    -> "queued"
    [] place[r] = "quarantine" -> "parked"
    [] place[r] = "gone"       -> IF r \in delivered THEN "settled" ELSE "lost"
    [] OTHER                   -> "absent"

Item == [r \in Records |-> ItemOf(r)]

Outbox == INSTANCE DurableOutbox WITH
            Items     <- Records,
            item      <- Item,
            sent      <- delivered,
            accounted <- LossReported

(***************************************************************************)
(* The journal and its drainer implement the durable outbox.               *)
(***************************************************************************)
ImplementsOutbox == Outbox!OutboxSpec

============================================================================
