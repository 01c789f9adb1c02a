------------------------ MODULE AgentActionsConsumer ------------------------
(***************************************************************************)
(* The agent actions consumer: it reads Kafka in batches, writes each      *)
(* batch to PostgreSQL in one transaction and commits its offsets by hand  *)
(* (consumers/agent_actions_consumer.py).                                  *)
(*                                                                         *)
(* One partition and the consumers of its group.  The partition is a log   *)
(* that is never trimmed; what has not been produced yet is what a poll    *)
(* does not return yet.  A step is one call of the consumer to the broker  *)
(* or to the database, with what it does in memory before the next one.    *)
(*                                                                         *)
(* Not modelled: the tables a message is routed to, the health endpoint,   *)
(* metrics, the background file-operation log, messages that are not JSON. *)
(***************************************************************************)
EXTENDS Naturals, Sequences, FiniteSets

CONSTANTS
  Consumers,      \* the processes of the consumer group
  Nobody,         \* the owner of a partition that is assigned to no one
  LastOffset,     \* offset of the last message
  Poison,         \* messages the database refuses whenever they are inserted
  BatchSize,      \* BATCH_SIZE
  MaxRetries,     \* self.max_retries
  MaxFaults,      \* bound: failed or unanswered calls in one behaviour
  MaxMoves        \* bound: crashes and revocations in one behaviour

ASSUME ConsumerAssumption ==
  /\ Nobody \notin Consumers
  /\ LastOffset \in Nat
  /\ Poison \subseteq 1..LastOffset
  /\ BatchSize \in Nat \ {0}
  /\ MaxRetries \in Nat \ {0}
  /\ MaxFaults \in Nat
  /\ MaxMoves \in Nat

VARIABLES
  committed,   \* the group's committed offset
  owner,       \* the consumer the partition is assigned to
  stage,       \* where each consumer is in its loop
  position,    \* the offset each consumer reads next
  batch,       \* the offsets in each consumer's batch
  retryCounts, \* self.retry_counts of each consumer
  giveUp,      \* committable_offsets: where in the batch they are
  stored,      \* messages with a row in the database
  twice,       \* messages with more than one row
  dead,        \* messages in the dead letter topic
  refused,     \* messages that were in a batch whose insert failed
  faults,      \* failed or unanswered calls so far
  moves        \* crashes and revocations so far

memory == <<position, batch, retryCounts, giveUp>>
outcome == <<stored, twice, dead, refused>>
vars == <<committed, owner, stage, memory, outcome, faults, moves>>

Offsets == 1..LastOffset
Stages == {"down", "polling", "inserting", "committing", "failed", "passing"}
NoCounts == [m \in Offsets |-> 0]

TypeOK ==
  /\ committed \in 1..(LastOffset + 1)
  /\ owner \in Consumers \cup {Nobody}
  /\ stage \in [Consumers -> Stages]
  /\ position \in [Consumers -> 1..(LastOffset + 1)]
  /\ batch \in [Consumers -> Seq(Offsets)]
  /\ retryCounts \in [Consumers -> [Offsets -> 0..MaxRetries]]
  /\ giveUp \in [Consumers -> SUBSET Nat]
  /\ \A c \in Consumers : giveUp[c] \subseteq DOMAIN batch[c]
  /\ stored \subseteq Offsets
  /\ twice \subseteq stored
  /\ dead \subseteq Offsets
  /\ refused \subseteq Offsets
  /\ faults \in 0..MaxFaults
  /\ moves \in 0..MaxMoves

Init ==
  /\ committed = 1
  /\ owner = Nobody
  /\ stage = [c \in Consumers |-> "polling"]
  /\ position = [c \in Consumers |-> 1]
  /\ batch = [c \in Consumers |-> << >>]
  /\ retryCounts = [c \in Consumers |-> NoCounts]
  /\ giveUp = [c \in Consumers |-> {}]
  /\ stored = {} /\ twice = {} /\ dead = {} /\ refused = {}
  /\ faults = 0 /\ moves = 0

-----------------------------------------------------------------------------
(* The messages of c's batch, and how many copies it holds of one: a        *)
(* consumer that loses its partition keeps its batch, and polls the same   *)
(* messages again when the partition comes back.                           *)
InBatch(c) == {batch[c][i] : i \in DOMAIN batch[c]}
Copies(c, m) == Cardinality({i \in DOMAIN batch[c] : batch[c][i] = m})

Goto(c, s) == stage' = [stage EXCEPT ![c] = s]
Fault == faults < MaxFaults /\ faults' = faults + 1

(* The group coordinator gives the partition to a consumer in its poll,     *)
(* which then reads from the committed offset.                             *)
Assign(c) ==
  /\ owner = Nobody
  /\ stage[c] = "polling"
  /\ owner' = c
  /\ position' = [position EXCEPT ![c] = committed]
  /\ UNCHANGED <<committed, stage, batch, retryCounts, giveUp, outcome, faults,
                 moves>>

(* The coordinator takes the partition away: a rebalance, or a consumer     *)
(* that has not polled for too long.  The batch stays where it is.         *)
Revoke ==
  /\ owner # Nobody
  /\ moves < MaxMoves
  /\ moves' = moves + 1
  /\ owner' = Nobody
  /\ UNCHANGED <<committed, stage, memory, outcome, faults>>

(* Mutant of Due: a batch waits until it is full. *)
DueWhenFull(b) == Len(b) >= BatchSize

(* A batch is processed when it is full or old enough: any batch gets old. *)
Due(b) == b # << >>

(* Mutant of CommitOnPoll: enable_auto_commit is left at its default. *)
AutoCommit(c) == committed' = IF owner = c THEN position'[c] ELSE committed

(* enable_auto_commit=False: polling commits nothing. *)
CommitOnPoll(c) == UNCHANGED committed

(* consume_loop: poll, extend the batch, and go on to process it.  A full   *)
(* batch does not go back to polling.                                      *)
Poll(c) ==
  /\ stage[c] = "polling"
  /\ \E k \in 0..BatchSize :
       /\ k > 0 => owner = c /\ position[c] + k =< LastOffset + 1
       /\ position' = [position EXCEPT ![c] = @ + k]
       /\ batch' = [batch EXCEPT ![c] = @ \o [i \in 1..k |-> position[c] + i - 1]]
  /\ \/ Len(batch'[c]) < BatchSize /\ UNCHANGED stage
     \/ Due(batch'[c]) /\ Goto(c, "inserting")
  /\ CommitOnPoll(c)
  /\ UNCHANGED <<owner, retryCounts, giveUp, outcome, faults, moves>>

(* insert_batch: all the messages in one transaction.  Their ids are made   *)
(* up on the spot, so a message inserted again is a row of its own.        *)
Store(c) ==
  /\ stored' = stored \cup InBatch(c)
  /\ twice' = twice \cup {m \in InBatch(c) : m \in stored \/ Copies(c, m) > 1}

Insert(c) ==
  /\ stage[c] = "inserting"
  /\ InBatch(c) \cap Poison = {}
  /\ Store(c)
  /\ Goto(c, "committing")
  /\ UNCHANGED <<committed, owner, memory, dead, refused, faults, moves>>

(* The database commits and the answer is lost. *)
InsertUnanswered(c) ==
  /\ stage[c] = "inserting"
  /\ InBatch(c) \cap Poison = {}
  /\ Fault
  /\ Store(c)
  /\ Goto(c, "failed")
  /\ UNCHANGED <<committed, owner, memory, dead, refused, moves>>

(* A poison message, or an error, rolls the whole batch back. *)
InsertFails(c) ==
  /\ stage[c] = "inserting"
  /\ \/ InBatch(c) \cap Poison # {} /\ UNCHANGED faults
     \/ Fault
  /\ refused' = refused \cup InBatch(c)
  /\ Goto(c, "failed")
  /\ UNCHANGED <<committed, owner, memory, stored, twice, dead, moves>>

(* Mutant of Drop: the batch is not emptied after it was processed. *)
DropNothing(c) == UNCHANGED batch

(* consume_loop: the batch is forgotten once process_batch has returned,    *)
(* whatever became of it.                                                  *)
Drop(c) == batch' = [batch EXCEPT ![c] = << >>]

(* commit(): the consumer's own position, for the partitions it has.        *)
CommitPosition(c) ==
  /\ stage[c] = "committing"
  /\ committed' = IF owner = c THEN position[c] ELSE committed
  /\ Drop(c)
  /\ Goto(c, "polling")
  /\ UNCHANGED <<owner, position, retryCounts, giveUp, outcome, faults, moves>>

(* A commit that fails takes stored messages into the retry path; one by a  *)
(* consumer that was put out of the group fails without a fault.           *)
CommitPositionFails(c) ==
  /\ stage[c] = "committing"
  /\ Fault \/ (owner # c /\ UNCHANGED faults)
  /\ Goto(c, "failed")
  /\ UNCHANGED <<committed, owner, memory, outcome, moves>>

(* The except branch counts each copy in turn: a count that has reached     *)
(* MaxRetries is deleted and the copy given up, so that counts go round     *)
(* modulo MaxRetries + 1.                                                   *)
Earlier(c, i) == Cardinality({j \in 1..(i - 1) : batch[c][j] = batch[c][i]})

(* Mutant of CountAfter: the count of a message given up is not deleted. *)
CountKept(c, m) == retryCounts[c][m] + Copies(c, m)

CountAfter(c, m) == (retryCounts[c][m] + Copies(c, m)) % (MaxRetries + 1)

Exhausted(c) ==
  {i \in DOMAIN batch[c] :
     (retryCounts[c][batch[c][i]] + Earlier(c, i)) % (MaxRetries + 1) = MaxRetries}

(* Retries are counted, and what has none left is sent to the dead letter   *)
(* topic.  An error of the send is logged and the message is passed over   *)
(* all the same.                                                           *)
CountRetries(c) ==
  /\ stage[c] = "failed"
  /\ retryCounts' = [retryCounts EXCEPT
                       ![c] = [m \in Offsets |-> CountAfter(c, m)]]
  /\ LET poison == {batch[c][i] : i \in Exhausted(c)} IN
       \/ dead' = dead \cup poison /\ UNCHANGED faults
       \/ /\ poison # {}
          /\ Fault
          /\ \E D \in SUBSET poison : dead' = dead \cup D
  /\ giveUp' = [giveUp EXCEPT ![c] = Exhausted(c)]
  /\ IF Exhausted(c) = {}
     THEN Drop(c) /\ Goto(c, "polling")
     ELSE UNCHANGED batch /\ Goto(c, "passing")
  /\ UNCHANGED <<committed, owner, position, stored, twice, refused, moves>>

(* Each message given up is committed by its offset, in the batch's order.  *)
(* A consumer may do so for a partition that is no longer its own.         *)
CommitPast(c) ==
  /\ stage[c] = "passing"
  /\ \E i \in giveUp[c] :
       /\ \A j \in giveUp[c] : i =< j
       /\ committed' = batch[c][i] + 1
       /\ giveUp' = [giveUp EXCEPT ![c] = @ \ {i}]
  /\ IF giveUp'[c] = {}
     THEN Drop(c) /\ Goto(c, "polling")
     ELSE UNCHANGED <<batch, stage>>
  /\ UNCHANGED <<owner, position, retryCounts, outcome, faults, moves>>

(* An error of the dead letters' flush or of a commit leaves process_batch, *)
(* and the loop keeps the batch.                                           *)
CommitPastFails(c) ==
  /\ stage[c] = "passing"
  /\ Fault \/ (owner # c /\ UNCHANGED faults)
  /\ giveUp' = [giveUp EXCEPT ![c] = {}]
  /\ Goto(c, "polling")
  /\ UNCHANGED <<committed, owner, position, batch, retryCounts, outcome, moves>>

(* A kill, and a signal too: its handler closes the clients before the rest *)
(* of the loop runs, so that every later insert, send and commit fails.    *)
Crash(c) ==
  /\ stage[c] # "down"
  /\ moves < MaxMoves
  /\ moves' = moves + 1
  /\ owner' = IF owner = c THEN Nobody ELSE owner
  /\ Goto(c, "down")
  /\ batch' = [batch EXCEPT ![c] = << >>]
  /\ retryCounts' = [retryCounts EXCEPT ![c] = NoCounts]
  /\ giveUp' = [giveUp EXCEPT ![c] = {}]
  /\ UNCHANGED <<committed, position, outcome, faults>>

Restart(c) ==
  /\ stage[c] = "down"
  /\ Goto(c, "polling")
  /\ UNCHANGED <<committed, owner, memory, outcome, faults, moves>>

Process(c) ==
  \/ Insert(c) \/ InsertUnanswered(c) \/ InsertFails(c)
  \/ CommitPosition(c) \/ CommitPositionFails(c)
  \/ CountRetries(c) \/ CommitPast(c) \/ CommitPastFails(c)

Next ==
  \/ Revoke
  \/ \E c \in Consumers :
       Assign(c) \/ Poll(c) \/ Process(c) \/ Crash(c) \/ Restart(c)

(* The loop runs, the batch timeout passes, the broker hands out what it    *)
(* has, and a free partition is assigned to each live consumer that keeps  *)
(* polling, sooner or later.  systemd restarts a service that was killed   *)
(* (Restart=on-failure); one that SIGTERM stopped, whoever stopped it.     *)
Fairness ==
  \A c \in Consumers :
    /\ WF_vars(Poll(c) /\ stage'[c] = "inserting")
    /\ WF_vars(Process(c))
    /\ WF_vars(Restart(c))
    /\ SF_vars(Assign(c))

Spec == Init /\ [][Next]_vars
FairSpec == Spec /\ Fairness

-----------------------------------------------------------------------------
(* Every message is stored, dead-lettered or refused with a batch, under    *)
(* rebalances, restarts, failed commits and unanswered inserts: none waits *)
(* in a batch that is never processed, or behind an offset that was        *)
(* committed too early.                                                    *)
EveryMessageDealtWith ==
  \A m \in Offsets : <>(m \in stored \cup dead \cup refused)

(* As long as no consumer dies or loses the partition and every call but a  *)
(* refused insert succeeds, no message has two rows: the retry path alone  *)
(* never stores a message twice.                                           *)
StoredOnceWhileStable == faults = 0 /\ moves = 0 => twice = {}

(* The consumer implements the log reader: the committed offset never       *)
(* passes a message that was not at least tried.                           *)
Reader == INSTANCE LogReader WITH cursor <- committed,
                                  dealtWith <- stored \cup dead \cup refused
ImplementsLogReader == Reader!ReaderSpec

(* "Dead letter queue for failed messages" (line 15): whatever the offset   *)
(* has passed has a row or a dead letter.                                  *)
PassedMeansKept == \A m \in 1..(committed - 1) : m \in stored \cup dead

=============================================================================
