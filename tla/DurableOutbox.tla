--------------------------- MODULE DurableOutbox ---------------------------
(***************************************************************************)
(* What the journal and its drainer promise together, with no files, no    *)
(* processes and no cycles: an outbox with at-least-once delivery in which *)
(* an item leaves the queue only because it was sent, because its loss was *)
(* accounted for first, or because it was parked where an operator can put *)
(* it back ("duplicates are acceptable on a telemetry stream, silent loss  *)
(* is not").                                                               *)
(***************************************************************************)
EXTENDS Naturals

CONSTANT Items

VARIABLES
  item,       \* the state of each item
  sent,       \* items the broker has at least once
  accounted   \* items whose loss or parking has been reported

outboxVars == <<item, sent, accounted>>

ItemStates == {"absent", "held", "queued", "parked", "settled", "lost"}

OutboxInit ==
  /\ item = [i \in Items |-> "absent"]
  /\ sent = {}
  /\ accounted = {}

Move(i, from, to) ==
  /\ item[i] = from
  /\ item' = [item EXCEPT ![i] = to]
  /\ UNCHANGED <<sent, accounted>>

Accept(i) == Move(i, "absent", "queued") \/ Move(i, "absent", "held")

ReleaseHeld(S) ==
  /\ \A i \in S : item[i] = "held"
  /\ item' = [i \in Items |-> IF i \in S THEN "queued" ELSE item[i]]
  /\ UNCHANGED <<sent, accounted>>

\* Only a queued item is sent; it may be sent again.
Send(i) ==
  /\ item[i] = "queued"
  /\ sent' = sent \cup {i}
  /\ UNCHANGED <<item, accounted>>

Account(i) ==
  /\ item[i] \in {"queued", "parked"}
  /\ accounted' = accounted \cup {i}
  /\ UNCHANGED <<item, sent>>

Settle(i) == i \in sent /\ Move(i, "queued", "settled")

Drop(i) == i \in accounted /\ Move(i, "queued", "lost")

Park(i) == Move(i, "queued", "parked")

Unpark(i) == Move(i, "parked", "queued")

OutboxNext ==
  \/ \E i \in Items : \/ Accept(i) \/ Send(i) \/ Account(i) \/ Settle(i)
                      \/ Drop(i) \/ Park(i) \/ Unpark(i)
  \/ \E S \in SUBSET Items : ReleaseHeld(S)

OutboxSpec == OutboxInit /\ [][OutboxNext]_outboxVars

============================================================================
