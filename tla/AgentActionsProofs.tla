------------------------- MODULE AgentActionsProofs -------------------------
(***************************************************************************)
(* The agent actions consumer keeps its types, and implements the log      *)
(* reader: for any number of consumers, messages, retries, faults and      *)
(* rebalances, the committed offset never passes a message that was not at *)
(* least tried.  And its retries alone never store a message twice.        *)
(***************************************************************************)
EXTENDS AgentActionsConsumer, FiniteSetTheorems, TLAPS

-----------------------------------------------------------------------------
(* Types. *)

\* Only a consumer that is passing messages over has any left to pass.
PassingOnly == \A c \in Consumers : stage[c] # "passing" => giveUp[c] = {}

TypeInv == TypeOK /\ PassingOnly

LEMMA InitTypeInv == Init => TypeInv
  BY ConsumerAssumption
  DEF Init, TypeInv, TypeOK, PassingOnly, ConsumerAssumption, Stages, NoCounts,
      Offsets

LEMMA FaultTyped ==
  ASSUME TypeOK, Fault
  PROVE  faults' \in 0..MaxFaults
  BY ConsumerAssumption DEF TypeOK, Fault, ConsumerAssumption

LEMMA CopiesInNat ==
  ASSUME TypeOK, NEW c \in Consumers, NEW m
  PROVE  Copies(c, m) \in Nat
<1>1. DOMAIN batch[c] = 1..Len(batch[c]) /\ Len(batch[c]) \in Nat
  BY DEF TypeOK
<1>2. IsFiniteSet(1..Len(batch[c]))
  BY <1>1, FS_Interval
<1>3. IsFiniteSet({i \in DOMAIN batch[c] : batch[c][i] = m})
  BY <1>1, <1>2, FS_Subset
<1>4. QED
  BY <1>3, FS_CardinalityType DEF Copies

LEMMA CountTyped ==
  ASSUME TypeOK, NEW c \in Consumers, NEW m \in Offsets
  PROVE  CountAfter(c, m) \in 0..MaxRetries
<1>1. retryCounts[c][m] + Copies(c, m) \in Nat
  BY CopiesInNat, ConsumerAssumption DEF TypeOK, ConsumerAssumption
<1>2. \A a \in Nat, b \in Nat : a % (b + 1) \in 0..b
  OBVIOUS
<1>3. QED
  BY <1>1, <1>2, ConsumerAssumption DEF CountAfter, ConsumerAssumption

\* What a poll appends, as a batch and as a set.
LEMMA PollAppends ==
  ASSUME TypeOK, NEW c \in Consumers, NEW k \in Nat,
         position[c] + k =< LastOffset + 1,
         NEW b, b = batch[c] \o [i \in 1..k |-> position[c] + i - 1]
  PROVE  /\ b \in Seq(Offsets)
         /\ DOMAIN batch[c] \subseteq DOMAIN b
         /\ {b[i] : i \in DOMAIN b}
              = InBatch(c) \cup position[c]..(position[c] + k - 1)
<1> DEFINE new == [i \in 1..k |-> position[c] + i - 1]
<1>1. position[c] \in 1..(LastOffset + 1) /\ batch[c] \in Seq(Offsets)
  BY DEF TypeOK
<1>2. new \in Seq(Offsets) /\ Len(new) = k
  BY <1>1, ConsumerAssumption DEF Offsets, ConsumerAssumption
<1>3. /\ b \in Seq(Offsets)
      /\ Len(b) = Len(batch[c]) + k
      /\ \A i \in 1..Len(b) :
           b[i] = IF i =< Len(batch[c]) THEN batch[c][i]
                                        ELSE new[i - Len(batch[c])]
  BY <1>1, <1>2
<1>4. Len(batch[c]) \in Nat /\ DOMAIN batch[c] = 1..Len(batch[c])
      /\ DOMAIN b = 1..Len(b)
  BY <1>1, <1>3
<1>5. ASSUME NEW x, x \in {b[i] : i \in DOMAIN b}
      PROVE  x \in InBatch(c) \cup position[c]..(position[c] + k - 1)
  <2>1. PICK i \in 1..Len(b) : x = b[i]
    BY <1>4, <1>5
  <2>2. CASE i =< Len(batch[c])
    <3>1. i \in DOMAIN batch[c] /\ x = batch[c][i]
      BY <1>3, <1>4, <2>1, <2>2
    <3>2. QED
      BY <3>1 DEF InBatch
  <2>3. CASE i > Len(batch[c])
    <3>1. i - Len(batch[c]) \in 1..k
      BY <1>3, <1>4, <2>3
    <3>2. x = position[c] + (i - Len(batch[c])) - 1
      BY <1>3, <1>4, <2>1, <2>3, <3>1
    <3>3. QED
      BY <1>1, <3>1, <3>2, ConsumerAssumption DEF ConsumerAssumption
  <2>4. QED
    BY <1>4, <2>2, <2>3
<1>6. ASSUME NEW x \in InBatch(c)
      PROVE  x \in {b[i] : i \in DOMAIN b}
  BY <1>3, <1>4 DEF InBatch
<1>7. ASSUME NEW x \in position[c]..(position[c] + k - 1)
      PROVE  x \in {b[i] : i \in DOMAIN b}
  <2>0. position[c] \in Nat /\ x \in Nat
    BY <1>1, ConsumerAssumption DEF ConsumerAssumption
  <2>1. PICK j \in 1..k : x = position[c] + j - 1
    <3>1. x - position[c] + 1 \in 1..k
      BY <2>0
    <3>2. x = position[c] + (x - position[c] + 1) - 1
      BY <2>0
    <3>3. QED
      BY <3>1, <3>2
  <2>2. j + Len(batch[c]) \in 1..Len(b)
        /\ ~ (j + Len(batch[c]) =< Len(batch[c]))
        /\ j + Len(batch[c]) - Len(batch[c]) = j
    BY <1>3, <1>4, <2>1
  <2>3. b[j + Len(batch[c])] = new[j] /\ new[j] = x
    BY <1>3, <2>1, <2>2
  <2>4. QED
    BY <1>4, <2>2, <2>3
<1>8. DOMAIN batch[c] \subseteq DOMAIN b
  BY <1>3, <1>4
<1>9. QED
  BY <1>3, <1>5, <1>6, <1>7, <1>8

LEMMA PollTypeInv ==
  ASSUME TypeInv, NEW c \in Consumers, Poll(c)
  PROVE  TypeInv'
<1>1. PICK k \in 0..BatchSize :
        /\ k > 0 => owner = c /\ position[c] + k =< LastOffset + 1
        /\ position' = [position EXCEPT ![c] = @ + k]
        /\ batch' = [batch EXCEPT ![c] =
                       @ \o [i \in 1..k |-> position[c] + i - 1]]
  BY DEF Poll
<1>2. position[c] \in 1..(LastOffset + 1) /\ k \in Nat
      /\ position[c] + k =< LastOffset + 1
  BY <1>1, ConsumerAssumption DEF TypeInv, TypeOK, ConsumerAssumption
<1>3. batch'[c] = batch[c] \o [i \in 1..k |-> position[c] + i - 1]
  BY <1>1 DEF TypeInv, TypeOK
<1>4. batch'[c] \in Seq(Offsets) /\ DOMAIN batch[c] \subseteq DOMAIN batch'[c]
  BY <1>2, <1>3, PollAppends DEF TypeInv
<1>5. position' \in [Consumers -> 1..(LastOffset + 1)]
  BY <1>1, <1>2, ConsumerAssumption DEF TypeInv, TypeOK, ConsumerAssumption
<1>6. batch' \in [Consumers -> Seq(Offsets)]
      /\ \A d \in Consumers : DOMAIN batch[d] \subseteq DOMAIN batch'[d]
  BY <1>1, <1>4 DEF TypeInv, TypeOK
<1>7. stage' \in [Consumers -> Stages] /\ stage'[c] # "passing"
      /\ \A d \in Consumers \ {c} : stage'[d] = stage[d]
      /\ stage[c] # "passing"
  BY DEF Poll, Goto, Stages, TypeInv, TypeOK
<1>8. QED
  BY <1>5, <1>6, <1>7
  DEF TypeInv, TypeOK, PassingOnly, Poll, CommitOnPoll, outcome

LEMMA BatchInOffsets ==
  ASSUME TypeOK, NEW c \in Consumers
  PROVE  InBatch(c) \subseteq Offsets
  BY DEF TypeOK, InBatch

LEMMA DropTyped ==
  ASSUME TypeOK, NEW c \in Consumers, Drop(c)
  PROVE  /\ batch' \in [Consumers -> Seq(Offsets)]
         /\ batch'[c] = << >>
         /\ \A d \in Consumers \ {c} : batch'[d] = batch[d]
<1>1. << >> \in Seq(Offsets)
  OBVIOUS
<1>2. batch \in [Consumers -> Seq(Offsets)]
  BY DEF TypeOK
<1>3. QED
  BY <1>1, <1>2 DEF Drop

LEMMA InsertTypeInv ==
  ASSUME TypeInv, NEW c \in Consumers,
         Insert(c) \/ InsertUnanswered(c) \/ InsertFails(c)
  PROVE  TypeInv'
<1>1. InBatch(c) \subseteq Offsets
  BY BatchInOffsets DEF TypeInv
<1>2. faults' \in 0..MaxFaults
  BY FaultTyped DEF Insert, InsertUnanswered, InsertFails, TypeInv, TypeOK
<1>3. stored' \subseteq Offsets /\ twice' \subseteq stored'
      /\ refused' \subseteq Offsets
  BY <1>1
  DEF Insert, InsertUnanswered, InsertFails, Store, TypeInv, TypeOK
<1>4. stage' \in [Consumers -> Stages] /\ stage'[c] # "passing"
      /\ stage[c] # "passing"
      /\ \A d \in Consumers \ {c} : stage'[d] = stage[d]
  BY DEF Insert, InsertUnanswered, InsertFails, Goto, Stages, TypeInv, TypeOK
<1>5. QED
  BY <1>2, <1>3, <1>4
  DEF Insert, InsertUnanswered, InsertFails, TypeInv, TypeOK, PassingOnly,
      memory

LEMMA CommitTypeInv ==
  ASSUME TypeInv, NEW c \in Consumers,
         CommitPosition(c) \/ CommitPositionFails(c)
  PROVE  TypeInv'
<1>1. faults' \in 0..MaxFaults
  BY FaultTyped DEF CommitPosition, CommitPositionFails, TypeInv, TypeOK
<1>2. committed' \in 1..(LastOffset + 1)
  BY DEF CommitPosition, CommitPositionFails, TypeInv, TypeOK
<1>3. stage' \in [Consumers -> Stages] /\ stage'[c] # "passing"
      /\ giveUp[c] = {}
      /\ \A d \in Consumers \ {c} : stage'[d] = stage[d]
  BY DEF CommitPosition, CommitPositionFails, Goto, Stages, TypeInv, TypeOK,
         PassingOnly
<1>4. batch' \in [Consumers -> Seq(Offsets)]
      /\ \A d \in Consumers \ {c} : batch'[d] = batch[d]
  BY DropTyped DEF CommitPosition, CommitPositionFails, TypeInv, TypeOK, memory
<1>5. QED
  BY <1>1, <1>2, <1>3, <1>4
  DEF CommitPosition, CommitPositionFails, TypeInv, TypeOK, PassingOnly,
      memory, outcome

LEMMA CountTypeInv ==
  ASSUME TypeInv, NEW c \in Consumers, CountRetries(c)
  PROVE  TypeInv'
<1>1. faults' \in 0..MaxFaults
  BY FaultTyped DEF CountRetries, TypeInv, TypeOK
<1>2. {batch[c][i] : i \in Exhausted(c)} \subseteq Offsets
      /\ Exhausted(c) \subseteq DOMAIN batch[c]
  BY DEF Exhausted, TypeInv, TypeOK
<1>3. dead' \subseteq Offsets
  BY <1>2 DEF CountRetries, TypeInv, TypeOK
<1>4. retryCounts' \in [Consumers -> [Offsets -> 0..MaxRetries]]
  BY CountTyped DEF CountRetries, TypeInv, TypeOK
<1>5. /\ giveUp' \in [Consumers -> SUBSET Nat]
      /\ giveUp'[c] = Exhausted(c)
      /\ \A d \in Consumers \ {c} : giveUp'[d] = giveUp[d]
  BY <1>2 DEF CountRetries, TypeInv, TypeOK
<1>6. /\ batch' \in [Consumers -> Seq(Offsets)]
      /\ \A d \in Consumers \ {c} : batch'[d] = batch[d]
      /\ Exhausted(c) # {} => batch'[c] = batch[c]
  BY DropTyped DEF CountRetries, TypeInv, TypeOK
<1>7. /\ stage' \in [Consumers -> Stages]
      /\ \A d \in Consumers \ {c} : stage'[d] = stage[d]
      /\ Exhausted(c) # {} => stage'[c] = "passing"
  BY DEF CountRetries, Goto, Stages, TypeInv, TypeOK
<1>8. QED
  BY <1>1, <1>2, <1>3, <1>4, <1>5, <1>6, <1>7
  DEF CountRetries, TypeInv, TypeOK, PassingOnly

LEMMA PassTypeInv ==
  ASSUME TypeInv, NEW c \in Consumers, CommitPast(c) \/ CommitPastFails(c)
  PROVE  TypeInv'
<1>1. faults' \in 0..MaxFaults
  BY FaultTyped DEF CommitPast, CommitPastFails, TypeInv, TypeOK
<1>2. committed' \in 1..(LastOffset + 1)
  <2>1. ASSUME NEW i \in giveUp[c]
        PROVE  batch[c][i] + 1 \in 1..(LastOffset + 1)
    <3>1. batch[c] \in Seq(Offsets) /\ i \in DOMAIN batch[c]
      BY DEF TypeInv, TypeOK
    <3>2. batch[c][i] \in Offsets
      BY <3>1
    <3>3. QED
      BY <3>2, ConsumerAssumption DEF ConsumerAssumption, Offsets
  <2>2. QED
    BY <2>1 DEF CommitPast, CommitPastFails, TypeInv, TypeOK
<1>3. /\ giveUp' \in [Consumers -> SUBSET Nat]
      /\ giveUp'[c] \subseteq giveUp[c]
      /\ \A d \in Consumers \ {c} : giveUp'[d] = giveUp[d]
  BY DEF CommitPast, CommitPastFails, TypeInv, TypeOK
<1>4. /\ batch' \in [Consumers -> Seq(Offsets)]
      /\ \A d \in Consumers \ {c} : batch'[d] = batch[d]
      /\ giveUp'[c] # {} => batch'[c] = batch[c]
  BY DropTyped DEF CommitPast, CommitPastFails, TypeInv, TypeOK
<1>5. /\ stage' \in [Consumers -> Stages]
      /\ \A d \in Consumers \ {c} : stage'[d] = stage[d]
      /\ giveUp'[c] # {} => stage'[c] = "passing"
  BY DEF CommitPast, CommitPastFails, Goto, Stages, TypeInv, TypeOK
<1>6. QED
  BY <1>1, <1>2, <1>3, <1>4, <1>5
  DEF CommitPast, CommitPastFails, TypeInv, TypeOK, PassingOnly, outcome

LEMMA GroupTypeInv ==
  ASSUME TypeInv,
         \/ Revoke
         \/ \E c \in Consumers : Assign(c) \/ Crash(c) \/ Restart(c)
  PROVE  TypeInv'
<1>1. CASE Revoke
  BY <1>1, ConsumerAssumption
  DEF Revoke, TypeInv, TypeOK, PassingOnly, memory, outcome, ConsumerAssumption
<1>2. ASSUME NEW c \in Consumers, Assign(c) \/ Restart(c)
      PROVE  TypeInv'
  BY <1>2
  DEF Assign, Restart, Goto, Stages, TypeInv, TypeOK, PassingOnly, memory,
      outcome
<1>3. ASSUME NEW c \in Consumers, Crash(c)
      PROVE  TypeInv'
  <2>1. moves' \in 0..MaxMoves
    BY <1>3, ConsumerAssumption DEF Crash, TypeInv, TypeOK, ConsumerAssumption
  <2>2. /\ batch' \in [Consumers -> Seq(Offsets)]
        /\ giveUp' \in [Consumers -> SUBSET Nat]
        /\ giveUp'[c] = {}
        /\ \A d \in Consumers \ {c} :
             batch'[d] = batch[d] /\ giveUp'[d] = giveUp[d]
    BY <1>3 DEF Crash, TypeInv, TypeOK
  <2>3. retryCounts' \in [Consumers -> [Offsets -> 0..MaxRetries]]
    BY <1>3, ConsumerAssumption
    DEF Crash, NoCounts, TypeInv, TypeOK, ConsumerAssumption
  <2>4. stage' \in [Consumers -> Stages]
        /\ \A d \in Consumers \ {c} : stage'[d] = stage[d]
    BY <1>3 DEF Crash, Goto, Stages, TypeInv, TypeOK
  <2>5. QED
    BY <1>3, <2>1, <2>2, <2>3, <2>4
    DEF Crash, TypeInv, TypeOK, PassingOnly, outcome
<1>4. QED
  BY <1>1, <1>2, <1>3

LEMMA StepTypeInv ==
  ASSUME TypeInv, [Next]_vars
  PROVE  TypeInv'
<1>1. CASE UNCHANGED vars
  BY <1>1 DEF TypeInv, TypeOK, PassingOnly, vars, memory, outcome
<1>2. QED
  BY <1>1, PollTypeInv, InsertTypeInv, CommitTypeInv, CountTypeInv,
     PassTypeInv, GroupTypeInv
  DEF Next, Process

(* The consumer's variables keep their types, and messages are passed over *)
(* only out of the batch they are in.                                      *)
THEOREM TypeCorrect == Spec => [](TypeOK /\ PassingOnly)
<1>1. Init => TypeInv
  BY InitTypeInv
<1>2. TypeInv /\ [Next]_vars => TypeInv'
  BY StepTypeInv
<1>3. TypeInv => TypeOK /\ PassingOnly
  BY DEF TypeInv
<1>4. QED
  BY <1>1, <1>2, <1>3, PTL DEF Spec

-----------------------------------------------------------------------------
(* The refinement.  What is below the offset a consumer reads next is dealt *)
(* with or in its batch, a batch has no gap below its messages but what is *)
(* dealt with, and whoever commits has tried its batch.                    *)

Dealt == stored \cup dead \cup refused

Known(c) == Dealt \cup InBatch(c)

CommittedDealt == \A m \in Offsets : m < committed => m \in Dealt

PolledKnown ==
  \A c \in Consumers : owner = c =>
    \A m \in Offsets : m < position[c] => m \in Known(c)

BatchGapless ==
  \A c \in Consumers : \A b \in InBatch(c) :
    \A m \in Offsets : m < b => m \in Known(c)

TriedBatch ==
  \A c \in Consumers :
    stage[c] \in {"committing", "failed", "passing"} => InBatch(c) \subseteq Dealt

ReadInv ==
  TypeInv /\ CommittedDealt /\ PolledKnown /\ BatchGapless /\ TriedBatch

LEMMA InitReadInv == Init => ReadInv
<1>1. ASSUME Init, NEW c \in Consumers
      PROVE  InBatch(c) = {}
  BY <1>1 DEF Init, InBatch
<1>2. Init => CommittedDealt
  BY ConsumerAssumption DEF Init, CommittedDealt, Offsets, ConsumerAssumption
<1>3. Init => PolledKnown
  BY ConsumerAssumption DEF Init, PolledKnown, ConsumerAssumption
<1>4. QED
  BY <1>1, <1>2, <1>3, InitTypeInv DEF Init, ReadInv, BatchGapless, TriedBatch

\* A step that only adds to what is dealt with, and leaves the batches alone.
LEMMA DealingKeeps ==
  ASSUME ReadInv, TypeInv', Dealt \subseteq Dealt',
         UNCHANGED <<committed, owner, position, batch>>,
         \A c \in Consumers :
           stage'[c] \in {"committing", "failed", "passing"} =>
             stage'[c] = stage[c] \/ InBatch(c) \subseteq Dealt'
  PROVE  ReadInv'
<1>1. \A c \in Consumers : InBatch(c)' = InBatch(c)
  BY DEF InBatch
<1>2. \A c \in Consumers : Known(c) \subseteq Known(c)'
  BY <1>1 DEF Known
<1>3. CommittedDealt'
  BY DEF ReadInv, CommittedDealt
<1>4. PolledKnown' /\ BatchGapless'
  BY <1>1, <1>2 DEF ReadInv, PolledKnown, BatchGapless
<1>5. TriedBatch'
  BY <1>1 DEF ReadInv, TriedBatch
<1>6. QED
  BY <1>3, <1>4, <1>5 DEF ReadInv

\* A step of c that changes c's batch alone.
LEMMA OthersKnown ==
  ASSUME TypeOK, NEW c \in Consumers, NEW d \in Consumers, d # c,
         batch'[d] = batch[d], Dealt \subseteq Dealt'
  PROVE  InBatch(d)' = InBatch(d) /\ Known(d) \subseteq Known(d)'
<1>1. InBatch(d)' = InBatch(d)
  BY DEF InBatch
<1>2. QED
  BY <1>1 DEF Known

LEMMA PollReadInv ==
  ASSUME ReadInv, NEW c \in Consumers, Poll(c)
  PROVE  ReadInv'
<1>1. TypeInv'
  BY PollTypeInv DEF ReadInv
<1>2. PICK k \in 0..BatchSize :
        /\ k > 0 => owner = c /\ position[c] + k =< LastOffset + 1
        /\ position' = [position EXCEPT ![c] = @ + k]
        /\ batch' = [batch EXCEPT ![c] =
                       @ \o [i \in 1..k |-> position[c] + i - 1]]
  BY DEF Poll
<1>3. position[c] \in 1..(LastOffset + 1) /\ k \in Nat
      /\ position[c] + k =< LastOffset + 1
  BY <1>2, ConsumerAssumption DEF ReadInv, TypeInv, TypeOK, ConsumerAssumption
<1>4. batch'[c] = batch[c] \o [i \in 1..k |-> position[c] + i - 1]
      /\ position'[c] = position[c] + k
      /\ \A d \in Consumers \ {c} :
           batch'[d] = batch[d] /\ position'[d] = position[d]
  BY <1>2 DEF ReadInv, TypeInv, TypeOK
<1>5. InBatch(c)' = InBatch(c) \cup position[c]..(position[c] + k - 1)
  <2>1. {batch'[c][i] : i \in DOMAIN batch'[c]}
          = InBatch(c) \cup position[c]..(position[c] + k - 1)
    BY <1>3, <1>4, PollAppends DEF ReadInv, TypeInv
  <2>2. QED
    BY <2>1 DEF InBatch
<1>6. UNCHANGED <<committed, owner, stored, dead, refused>> /\ Dealt' = Dealt
  BY DEF Poll, CommitOnPoll, outcome, Dealt
<1>7. \A d \in Consumers : Known(d) \subseteq Known(d)'
  BY <1>4, <1>5, <1>6, OthersKnown DEF Known, ReadInv, TypeInv
<1>8. \A d \in Consumers \ {c} : InBatch(d)' = InBatch(d)
  BY <1>4, <1>6, OthersKnown DEF ReadInv, TypeInv
<1>9. CommittedDealt'
  BY <1>6 DEF ReadInv, CommittedDealt
<1>10. ASSUME owner = c, NEW m \in Offsets, m < position[c] + k
       PROVE  m \in Known(c)'
  <2>1. CASE m < position[c]
    BY <1>7, <1>10, <2>1 DEF ReadInv, PolledKnown
  <2>2. CASE ~ (m < position[c])
    <3>1. m \in position[c]..(position[c] + k - 1)
      BY <1>3, <1>10, <2>2, ConsumerAssumption DEF Offsets, ConsumerAssumption
    <3>2. QED
      BY <1>5, <3>1 DEF Known
  <2>3. QED
    BY <2>1, <2>2
<1>11. PolledKnown'
  BY <1>4, <1>6, <1>7, <1>10 DEF ReadInv, PolledKnown
<1>12. BatchGapless'
  <2>1. ASSUME NEW b \in InBatch(c)', NEW m \in Offsets, m < b
        PROVE  m \in Known(c)'
    <3>1. CASE b \in InBatch(c)
      BY <1>7, <2>1, <3>1 DEF ReadInv, BatchGapless
    <3>2. CASE b \in position[c]..(position[c] + k - 1)
      <4>1. k > 0 /\ m < position[c] + k
        BY <1>3, <2>1, <3>2, ConsumerAssumption DEF Offsets, ConsumerAssumption
      <4>2. QED
        BY <1>2, <1>10, <4>1
    <3>3. QED
      BY <1>5, <3>1, <3>2
  <2>2. QED
    BY <1>7, <1>8, <2>1 DEF ReadInv, BatchGapless
<1>13. TriedBatch'
  <2>1. stage'[c] \in {"polling", "inserting"}
        /\ \A d \in Consumers \ {c} : stage'[d] = stage[d]
    BY DEF Poll, Goto, ReadInv, TypeInv, TypeOK
  <2>2. QED
    BY <1>6, <1>8, <2>1 DEF ReadInv, TriedBatch
<1>14. QED
  BY <1>1, <1>9, <1>11, <1>12, <1>13 DEF ReadInv

LEMMA InsertReadInv ==
  ASSUME ReadInv, NEW c \in Consumers,
         Insert(c) \/ InsertUnanswered(c) \/ InsertFails(c)
  PROVE  ReadInv'
<1>1. TypeInv'
  BY InsertTypeInv DEF ReadInv
<1>2. Dealt \subseteq Dealt' /\ InBatch(c) \subseteq Dealt'
  BY DEF Insert, InsertUnanswered, InsertFails, Store, Dealt
<1>3. \A d \in Consumers \ {c} : stage'[d] = stage[d]
  BY DEF Insert, InsertUnanswered, InsertFails, Goto, ReadInv, TypeInv, TypeOK
<1>4. UNCHANGED <<committed, owner, position, batch>>
  BY DEF Insert, InsertUnanswered, InsertFails, memory
<1>5. QED
  BY <1>1, <1>2, <1>3, <1>4, DealingKeeps

\* c forgets a batch that it has dealt with, or stands to lose nothing by it.
LEMMA ForgetKeeps ==
  ASSUME ReadInv, TypeInv', NEW c \in Consumers, Dealt \subseteq Dealt',
         batch'[c] = << >>,
         \A d \in Consumers \ {c} : batch'[d] = batch[d] /\ stage'[d] = stage[d],
         UNCHANGED position,
         owner' = owner \/ owner' = Nobody,
         owner' = c => InBatch(c) \subseteq Dealt',
         CommittedDealt'
  PROVE  ReadInv'
<1>1. InBatch(c)' = {}
  BY DEF InBatch
<1>2. \A d \in Consumers \ {c} :
        InBatch(d)' = InBatch(d) /\ Known(d) \subseteq Known(d)'
  BY OthersKnown DEF ReadInv, TypeInv
<1>3. owner' = c => Known(c) \subseteq Known(c)'
  BY DEF Known
<1>4. PolledKnown'
  BY <1>2, <1>3, ConsumerAssumption
  DEF ReadInv, PolledKnown, ConsumerAssumption
<1>5. BatchGapless'
  BY <1>1, <1>2 DEF ReadInv, BatchGapless
<1>6. TriedBatch'
  BY <1>1, <1>2 DEF ReadInv, TriedBatch
<1>7. QED
  BY <1>4, <1>5, <1>6 DEF ReadInv

LEMMA CommitReadInv ==
  ASSUME ReadInv, NEW c \in Consumers,
         CommitPosition(c) \/ CommitPositionFails(c)
  PROVE  ReadInv'
<1>1. TypeInv'
  BY CommitTypeInv DEF ReadInv
<1>2. InBatch(c) \subseteq Dealt
  BY DEF ReadInv, TriedBatch, CommitPosition, CommitPositionFails
<1>3. Dealt' = Dealt
  BY DEF CommitPosition, CommitPositionFails, outcome, Dealt
<1>4. \A d \in Consumers \ {c} : stage'[d] = stage[d]
  BY DEF CommitPosition, CommitPositionFails, Goto, ReadInv, TypeInv, TypeOK
<1>5. CASE CommitPosition(c)
  <2>1. CommittedDealt'
    BY <1>2, <1>3, <1>5
    DEF CommitPosition, ReadInv, CommittedDealt, PolledKnown, Known
  <2>2. QED
    BY <1>1, <1>2, <1>3, <1>4, <1>5, <2>1, DropTyped, ForgetKeeps
    DEF CommitPosition, ReadInv, TypeInv
<1>6. CASE CommitPositionFails(c)
  BY <1>1, <1>2, <1>3, <1>4, <1>6, DealingKeeps
  DEF CommitPositionFails, memory
<1>7. QED
  BY <1>5, <1>6

LEMMA CountReadInv ==
  ASSUME ReadInv, NEW c \in Consumers, CountRetries(c)
  PROVE  ReadInv'
<1>1. TypeInv'
  BY CountTypeInv DEF ReadInv
<1>2. Dealt \subseteq Dealt'
  BY DEF CountRetries, Dealt
<1>3. InBatch(c) \subseteq Dealt'
  BY <1>2 DEF ReadInv, TriedBatch, CountRetries
<1>4. \A d \in Consumers \ {c} : stage'[d] = stage[d]
  BY DEF CountRetries, Goto, ReadInv, TypeInv, TypeOK
<1>5. CASE Exhausted(c) = {}
  <2>1. CommittedDealt'
    BY <1>2 DEF CountRetries, ReadInv, CommittedDealt
  <2>2. QED
    BY <1>1, <1>2, <1>3, <1>4, <1>5, <2>1, DropTyped, ForgetKeeps
    DEF CountRetries, ReadInv, TypeInv
<1>6. CASE Exhausted(c) # {}
  BY <1>1, <1>2, <1>3, <1>4, <1>6, DealingKeeps DEF CountRetries
<1>7. QED
  BY <1>5, <1>6

LEMMA PassReadInv ==
  ASSUME ReadInv, NEW c \in Consumers, CommitPast(c) \/ CommitPastFails(c)
  PROVE  ReadInv'
<1>1. TypeInv'
  BY PassTypeInv DEF ReadInv
<1>2. InBatch(c) \subseteq Dealt
  BY DEF ReadInv, TriedBatch, CommitPast, CommitPastFails
<1>3. Dealt' = Dealt
  BY DEF CommitPast, CommitPastFails, outcome, Dealt
<1>4. \A d \in Consumers \ {c} : stage'[d] = stage[d]
  BY DEF CommitPast, CommitPastFails, Goto, ReadInv, TypeInv, TypeOK
<1>5. CASE CommitPast(c)
  <2>1. PICK i \in giveUp[c] : committed' = batch[c][i] + 1
    BY <1>5 DEF CommitPast
  <2>2. batch[c] \in Seq(Offsets) /\ i \in DOMAIN batch[c]
    BY DEF ReadInv, TypeInv, TypeOK
  <2>3. batch[c][i] \in InBatch(c) /\ batch[c][i] \in Offsets
    BY <2>2 DEF InBatch
  <2>4. ASSUME NEW m \in Offsets, m < committed'
        PROVE  m \in Dealt
    <3>1. m < batch[c][i] \/ m = batch[c][i]
      BY <2>1, <2>3, <2>4, ConsumerAssumption DEF Offsets, ConsumerAssumption
    <3>2. QED
      BY <1>2, <2>3, <3>1 DEF ReadInv, BatchGapless, Known
  <2>5. CommittedDealt'
    BY <1>3, <2>4 DEF CommittedDealt
  <2>6. CASE giveUp'[c] = {}
    BY <1>1, <1>2, <1>3, <1>4, <1>5, <2>5, <2>6, DropTyped, ForgetKeeps
    DEF CommitPast, ReadInv, TypeInv
  <2>7. CASE giveUp'[c] # {}
    <3>1. UNCHANGED <<owner, position, batch, stage, stored, dead, refused>>
      BY <1>5, <2>7 DEF CommitPast, outcome
    <3>2. PolledKnown' /\ BatchGapless' /\ TriedBatch'
      BY <3>1
      DEF ReadInv, PolledKnown, BatchGapless, TriedBatch, Known, InBatch, Dealt
    <3>3. QED
      BY <1>1, <2>5, <3>2 DEF ReadInv
  <2>8. QED
    BY <2>6, <2>7
<1>6. CASE CommitPastFails(c)
  BY <1>1, <1>2, <1>3, <1>4, <1>6, DealingKeeps DEF CommitPastFails
<1>7. QED
  BY <1>5, <1>6

LEMMA GroupReadInv ==
  ASSUME ReadInv,
         \/ Revoke
         \/ \E c \in Consumers : Assign(c) \/ Crash(c) \/ Restart(c)
  PROVE  ReadInv'
<1>1. TypeInv'
  BY GroupTypeInv DEF ReadInv
<1>2. Dealt' = Dealt
  BY DEF Revoke, Assign, Crash, Restart, outcome, Dealt
<1>3. CASE Revoke
  <2>1. UNCHANGED <<committed, position, batch, stage, stored, dead, refused>>
        /\ owner' = Nobody
    BY <1>3 DEF Revoke, memory, outcome
  <2>2. QED
    BY <1>1, <2>1, ConsumerAssumption
    DEF ReadInv, CommittedDealt, PolledKnown, BatchGapless, TriedBatch, Known,
        InBatch, Dealt, ConsumerAssumption
<1>4. ASSUME NEW c \in Consumers, Assign(c)
      PROVE  ReadInv'
  <2>1. UNCHANGED <<committed, batch, stage, stored, dead, refused>>
        /\ owner' = c /\ position'[c] = committed
    BY <1>4 DEF Assign, outcome, ReadInv, TypeInv, TypeOK
  <2>2. QED
    BY <1>1, <2>1
    DEF ReadInv, CommittedDealt, PolledKnown, BatchGapless, TriedBatch, Known,
        InBatch, Dealt
<1>5. ASSUME NEW c \in Consumers, Restart(c)
      PROVE  ReadInv'
  <2>1. \A d \in Consumers :
          stage'[d] \in {"committing", "failed", "passing"} =>
            stage'[d] = stage[d]
    BY <1>5 DEF Restart, Goto, ReadInv, TypeInv, TypeOK
  <2>2. QED
    BY <1>1, <1>2, <1>5, <2>1, DealingKeeps DEF Restart, memory
<1>6. ASSUME NEW c \in Consumers, Crash(c)
      PROVE  ReadInv'
  <2>1. batch'[c] = << >>
        /\ \A d \in Consumers \ {c} :
             batch'[d] = batch[d] /\ stage'[d] = stage[d]
    BY <1>6 DEF Crash, Goto, ReadInv, TypeInv, TypeOK
  <2>2. (owner' = owner \/ owner' = Nobody) /\ owner' # c
    BY <1>6, ConsumerAssumption DEF Crash, ConsumerAssumption
  <2>3. CommittedDealt'
    BY <1>2, <1>6 DEF Crash, ReadInv, CommittedDealt
  <2>4. QED
    BY <1>1, <1>2, <1>6, <2>1, <2>2, <2>3, ForgetKeeps DEF Crash
<1>7. QED
  BY <1>3, <1>4, <1>5, <1>6

LEMMA StepReadInv ==
  ASSUME ReadInv, [Next]_vars
  PROVE  ReadInv'
<1>1. CASE UNCHANGED vars
  <2>1. TypeInv'
    BY StepTypeInv DEF ReadInv
  <2>2. Dealt' = Dealt
    BY <1>1 DEF vars, outcome, Dealt
  <2>3. QED
    BY <1>1, <2>1, <2>2, DealingKeeps DEF vars, memory
<1>2. QED
  BY <1>1, PollReadInv, InsertReadInv, CommitReadInv, CountReadInv,
     PassReadInv, GroupReadInv
  DEF Next, Process

\* A step that deals with messages, or with none, is a step of the reader.
LEMMA DealingIsReading ==
  ASSUME TypeOK', Dealt \subseteq Dealt', UNCHANGED committed
  PROVE  Reader!ReaderNext
<1>1. Dealt' \in SUBSET (1..LastOffset)
  BY DEF TypeOK, Dealt, Offsets
<1>2. Dealt' = Dealt \cup Dealt'
  OBVIOUS
<1>3. QED
  BY <1>1, <1>2 DEF Reader!ReaderNext, Reader!DealWith, Dealt

LEMMA StepIsReading ==
  ASSUME ReadInv, ReadInv', [Next]_vars
  PROVE  [Reader!ReaderNext]_(Reader!readerVars)
<1>1. CASE committed' = committed
  <2>1. Dealt \subseteq Dealt'
    BY DEF Next, Process, vars, outcome, Dealt, Revoke, Assign, Poll, Insert,
           InsertUnanswered, InsertFails, Store, CommitPosition,
           CommitPositionFails, CountRetries, CommitPast, CommitPastFails,
           Crash, Restart
  <2>2. QED
    BY <1>1, <2>1, DealingIsReading DEF ReadInv, TypeInv
<1>2. CASE committed' # committed
  <2>1. UNCHANGED outcome
    BY <1>2
    DEF Next, Process, vars, Revoke, Assign, Poll, CommitOnPoll, Insert,
        InsertUnanswered, InsertFails, CommitPosition, CommitPositionFails,
        CountRetries, CommitPast, CommitPastFails, Crash, Restart
  <2>2. committed' \in 1..(LastOffset + 1)
    BY DEF ReadInv, TypeInv, TypeOK
  <2>3. UNCHANGED Dealt
    BY <2>1 DEF outcome, Dealt
  <2>4. \A m \in 1..LastOffset : m < committed' => m \in Dealt
    BY <2>3 DEF ReadInv, CommittedDealt, Offsets
  <2>5. QED
    BY <2>2, <2>3, <2>4 DEF Reader!ReaderNext, Reader!MoveTo, Dealt
<1>3. QED
  BY <1>1, <1>2

(* The consumer implements the log reader: every behaviour of the loop, the *)
(* retries, the dead letters, the rebalances and the restarts is one in    *)
(* which the committed offset moves only over messages that were stored,   *)
(* dead-lettered or refused.                                               *)
THEOREM ReaderImplemented == Spec => ImplementsLogReader
<1>1. Init => ReadInv
  BY InitReadInv
<1>2. ReadInv /\ [Next]_vars => ReadInv'
  BY StepReadInv
<1>3. Init => Reader!ReaderInit
  BY DEF Init, Reader!ReaderInit
<1>4. ReadInv /\ ReadInv' /\ [Next]_vars
        => [Reader!ReaderNext]_(Reader!readerVars)
  BY StepIsReading
<1>5. QED
  BY <1>1, <1>2, <1>3, <1>4, PTL DEF Spec, ImplementsLogReader, Reader!ReaderSpec

-----------------------------------------------------------------------------
(* Rows.  As long as no call fails or goes unanswered and no consumer loses *)
(* the partition, one consumer has messages, in the order of the log and   *)
(* each once, and what it holds outside a commit has no row yet.           *)

Ascending(c) ==
  \A i, j \in DOMAIN batch[c] : i < j => batch[c][i] < batch[c][j]

OneReader ==
  \A c \in Consumers : c # owner => batch[c] = << >>

StableInv ==
  faults = 0 /\ moves = 0 =>
    /\ OneReader
    /\ twice = {}
    /\ owner = Nobody => stored = {}
    /\ \A c \in Consumers : owner = c =>
         /\ Ascending(c)
         /\ \A m \in stored \cup InBatch(c) : m < position[c]
         /\ stage[c] # "committing" => InBatch(c) \cap stored = {}

\* The batch after a poll, message by message.
LEMMA PollElements ==
  ASSUME TypeOK, NEW c \in Consumers, NEW k \in Nat,
         NEW b, b = batch[c] \o [i \in 1..k |-> position[c] + i - 1]
  PROVE  /\ Len(batch[c]) \in Nat /\ DOMAIN batch[c] = 1..Len(batch[c])
         /\ DOMAIN b = 1..(Len(batch[c]) + k)
         /\ \A i \in 1..(Len(batch[c]) + k) :
              b[i] = IF i =< Len(batch[c]) THEN batch[c][i]
                     ELSE position[c] + (i - Len(batch[c])) - 1
<1> DEFINE new == [i \in 1..k |-> position[c] + i - 1]
<1>1. position[c] \in 1..(LastOffset + 1) /\ batch[c] \in Seq(Offsets)
  BY DEF TypeOK
<1>2. new \in Seq(Int) /\ Len(new) = k /\ batch[c] \in Seq(Int)
  BY <1>1, ConsumerAssumption DEF Offsets, ConsumerAssumption
<1>3. /\ b \in Seq(Int)
      /\ Len(b) = Len(batch[c]) + k
      /\ \A i \in 1..Len(b) :
           b[i] = IF i =< Len(batch[c]) THEN batch[c][i]
                                        ELSE new[i - Len(batch[c])]
  BY <1>2
<1>4. Len(batch[c]) \in Nat /\ DOMAIN batch[c] = 1..Len(batch[c])
      /\ DOMAIN b = 1..Len(b)
  BY <1>1, <1>3
<1>5. ASSUME NEW i \in 1..(Len(batch[c]) + k), ~ (i =< Len(batch[c]))
      PROVE  new[i - Len(batch[c])] = position[c] + (i - Len(batch[c])) - 1
  <2>1. i - Len(batch[c]) \in 1..k
    BY <1>4, <1>5
  <2>2. QED
    BY <2>1
<1>6. QED
  BY <1>3, <1>4, <1>5

\* What a poll appends keeps the batch in the order of the log.
LEMMA PollAscends ==
  ASSUME TypeOK, NEW c \in Consumers, NEW k \in Nat, Ascending(c),
         position[c] + k =< LastOffset + 1,
         \A m \in InBatch(c) : m < position[c],
         NEW b, b = batch[c] \o [i \in 1..k |-> position[c] + i - 1]
  PROVE  \A i, j \in DOMAIN b : i < j => b[i] < b[j]
<1> DEFINE L == Len(batch[c])
<1>1. /\ position[c] \in Nat /\ batch[c] \in Seq(Offsets)
      /\ Offsets \subseteq Nat
  BY ConsumerAssumption DEF TypeOK, ConsumerAssumption, Offsets
<1>3. /\ L \in Nat /\ DOMAIN batch[c] = 1..L /\ DOMAIN b = 1..(L + k)
      /\ \A i \in 1..(L + k) :
           b[i] = IF i =< L THEN batch[c][i] ELSE position[c] + (i - L) - 1
  BY PollElements
<1>4. \A i \in 1..L : batch[c][i] < position[c] /\ batch[c][i] \in Nat
  <2>1. ASSUME NEW i \in 1..L PROVE batch[c][i] \in InBatch(c) /\ batch[c][i] \in Offsets
    BY <1>1, <1>3 DEF InBatch
  <2>2. QED
    BY <1>1, <2>1
<1>5. SUFFICES ASSUME NEW i \in 1..(L + k), NEW j \in 1..(L + k), i < j
               PROVE  b[i] < b[j]
  BY <1>3
<1>6. CASE j =< L
  <2>1. i \in 1..L /\ j \in 1..L
    BY <1>3, <1>5, <1>6
  <2>2. batch[c][i] < batch[c][j]
    BY <1>3, <1>5, <2>1 DEF Ascending
  <2>3. QED
    BY <1>3, <2>1, <2>2
<1>7. CASE i =< L /\ ~ (j =< L)
  <2>1. i \in 1..L /\ j - L >= 1
    BY <1>3, <1>5, <1>7
  <2>2. b[i] = batch[c][i] /\ b[j] = position[c] + (j - L) - 1
    BY <1>3, <1>7
  <2>3. QED
    BY <1>1, <1>3, <1>4, <2>1, <2>2
<1>8. CASE ~ (i =< L)
  <2>1. ~ (j =< L)
    BY <1>3, <1>5, <1>8
  <2>2. b[i] = position[c] + (i - L) - 1 /\ b[j] = position[c] + (j - L) - 1
    BY <1>3, <1>8, <2>1
  <2>3. i \in Int /\ j \in Int
    BY <1>3
  <2>4. position[c] + (i - L) - 1 < position[c] + (j - L) - 1
    BY <1>1, <1>3, <1>5, <2>3
  <2>5. QED
    BY <2>2, <2>4
<1>9. QED
  BY <1>3, <1>6, <1>7, <1>8

\* A batch in the order of the log has no message twice.
LEMMA NoCopies ==
  ASSUME TypeOK, NEW c \in Consumers, Ascending(c), NEW m
  PROVE  ~ (Copies(c, m) > 1)
<1> DEFINE I == {i \in DOMAIN batch[c] : batch[c][i] = m}
<1>1. DOMAIN batch[c] \subseteq Nat /\ \A i \in DOMAIN batch[c] : batch[c][i] \in Nat
  <2>0. Offsets \subseteq Nat
    BY ConsumerAssumption DEF ConsumerAssumption, Offsets
  <2>1. batch[c] \in Seq(Offsets)
    BY DEF TypeOK
  <2>2. DOMAIN batch[c] = 1..Len(batch[c]) /\ Len(batch[c]) \in Nat
    BY <2>1
  <2>3. \A i \in 1..Len(batch[c]) : batch[c][i] \in Offsets
    BY <2>1
  <2>4. DOMAIN batch[c] \subseteq Nat
    BY <2>2
  <2>5. QED
    BY <2>0, <2>2, <2>3, <2>4
<1>2. \A i, j \in I : i = j
  BY <1>1 DEF Ascending
<1>3. Cardinality(I) \in {0, 1}
  <2>1. CASE I = {}
    BY <2>1, FS_EmptySet
  <2>2. CASE I # {}
    <3>1. PICK i \in I : TRUE
      BY <2>2
    <3>2. I = {i}
      BY <1>2, <3>1
    <3>3. QED
      BY <3>2, FS_Singleton
  <2>3. QED
    BY <2>1, <2>2
<1>4. QED
  BY <1>3 DEF Copies

LEMMA StepStable ==
  ASSUME TypeOK, TypeOK', StableInv, [Next]_vars
  PROVE  StableInv'
<1> SUFFICES ASSUME faults' = 0, moves' = 0
             PROVE  StableInv'
  BY DEF StableInv
<1>1. faults \in Nat /\ moves \in Nat /\ Nobody \notin Consumers
  BY ConsumerAssumption DEF TypeOK, ConsumerAssumption
<1>2. ~ Fault
  BY <1>1 DEF Fault
<1>3. ASSUME UNCHANGED <<owner, position, batch, stored, twice, faults, moves>>,
             \A c \in Consumers : stage[c] = "committing" /\ owner = c
                                    => stage'[c] = "committing"
      PROVE  StableInv'
  BY <1>1, <1>3 DEF StableInv, OneReader, Ascending, InBatch
<1>4. ASSUME NEW c \in Consumers, batch' = [batch EXCEPT ![c] = << >>],
             UNCHANGED <<owner, position, stored, twice, faults, moves>>,
             \A d \in Consumers \ {c} : stage'[d] = stage[d]
      PROVE  StableInv'
  <2>1. batch'[c] = << >> /\ InBatch(c)' = {} /\ Ascending(c)'
    BY <1>4 DEF InBatch, Ascending, TypeOK
  <2>2. \A d \in Consumers \ {c} : batch'[d] = batch[d]
    BY <1>4 DEF TypeOK
  <2>3. \A d \in Consumers \ {c} : InBatch(d)' = InBatch(d)
                                   /\ (Ascending(d) => Ascending(d)')
    BY <2>2 DEF InBatch, Ascending
  <2>4. QED
    BY <1>1, <1>4, <2>1, <2>2, <2>3 DEF StableInv, OneReader
<1>5. ASSUME NEW c \in Consumers, Assign(c) PROVE StableInv'
  <2>1. /\ owner = Nobody /\ stored = {} /\ \A d \in Consumers : batch[d] = << >>
        /\ twice = {}
    BY <1>1, <1>5 DEF Assign, StableInv, OneReader
  <2>2. UNCHANGED <<batch, stored, twice>>
    BY <1>5 DEF Assign, outcome
  <2>3. \A d \in Consumers : InBatch(d)' = {} /\ Ascending(d)'
    BY <2>1, <2>2 DEF InBatch, Ascending
  <2>4. QED
    BY <1>1, <1>5, <2>1, <2>2, <2>3 DEF Assign, StableInv, OneReader
<1>6. ASSUME NEW c \in Consumers, Poll(c) PROVE StableInv'
  <2>1. PICK k \in 0..BatchSize :
          /\ k > 0 => owner = c /\ position[c] + k =< LastOffset + 1
          /\ position' = [position EXCEPT ![c] = @ + k]
          /\ batch' = [batch EXCEPT ![c] =
                         @ \o [i \in 1..k |-> position[c] + i - 1]]
    BY <1>6 DEF Poll
  <2>2. /\ UNCHANGED <<owner, stored, twice, faults, moves>>
        /\ \A d \in Consumers \ {c} : stage'[d] = stage[d]
        /\ stage[c] = "polling" /\ stage'[c] # "committing"
    BY <1>6 DEF Poll, Goto, outcome, TypeOK
  <2>3. /\ position[c] \in 1..(LastOffset + 1) /\ k \in Nat
        /\ position[c] + k =< LastOffset + 1
        /\ position[c] \in Nat /\ Offsets \subseteq Nat
    BY <2>1, ConsumerAssumption DEF TypeOK, ConsumerAssumption, Offsets
  <2>4. /\ batch'[c] = batch[c] \o [i \in 1..k |-> position[c] + i - 1]
        /\ position'[c] = position[c] + k
        /\ \A d \in Consumers \ {c} :
             batch'[d] = batch[d] /\ position'[d] = position[d]
    BY <2>1 DEF TypeOK
  <2>5. CASE owner = c
    <3>1. /\ Ascending(c) /\ InBatch(c) \cap stored = {}
          /\ \A m \in stored \cup InBatch(c) : m < position[c]
      BY <1>1, <2>2, <2>5 DEF StableInv
    <3>2. \A i, j \in DOMAIN batch'[c] : i < j => batch'[c][i] < batch'[c][j]
      BY <2>3, <2>4, <3>1, PollAscends
    <3>3. {batch'[c][i] : i \in DOMAIN batch'[c]}
            = InBatch(c) \cup position[c]..(position[c] + k - 1)
      BY <2>3, <2>4, PollAppends
    <3>4. InBatch(c) \subseteq Nat /\ stored \subseteq Nat
      BY <2>3, BatchInOffsets DEF TypeOK
    <3>5. \A m \in stored \cup {batch'[c][i] : i \in DOMAIN batch'[c]} :
            m < position'[c]
      BY <2>3, <2>4, <3>1, <3>3, <3>4
    <3>6. {batch'[c][i] : i \in DOMAIN batch'[c]} \cap stored = {}
      BY <2>3, <3>1, <3>3, <3>4
    <3>7. /\ Ascending(c)' /\ InBatch(c)' \cap stored' = {}
          /\ \A m \in stored' \cup InBatch(c)' : m < position'[c]
      BY <2>2, <3>2, <3>5, <3>6 DEF Ascending, InBatch
    <3>8. OneReader'
      BY <1>1, <2>2, <2>4, <2>5 DEF StableInv, OneReader
    <3>9. twice' = {} /\ owner' = c /\ owner' # Nobody
      BY <1>1, <2>2, <2>5 DEF StableInv
    <3>10. QED
      BY <3>7, <3>8, <3>9 DEF StableInv
  <2>6. CASE owner # c
    <3>1. k = 0
      BY <2>1, <2>3, <2>6
    <3>2. batch[c] = << >>
      BY <1>1, <2>2, <2>6 DEF StableInv, OneReader
    <3>3. batch'[c] = << >>
      BY <2>4, <3>1, <3>2
    <3>4. QED
      BY <1>1, <2>2, <2>4, <2>6, <3>2, <3>3
      DEF StableInv, OneReader, Ascending, InBatch
  <2>7. QED
    BY <2>5, <2>6
<1>7. ASSUME NEW c \in Consumers, Insert(c) PROVE StableInv'
  <2>1. /\ UNCHANGED <<owner, position, batch, faults, moves>> /\ Store(c)
        /\ \A d \in Consumers \ {c} : stage'[d] = stage[d]
        /\ stage[c] = "inserting" /\ stage'[c] = "committing"
    BY <1>7 DEF Insert, Goto, memory, TypeOK
  <2>2. CASE owner = c
    <3>1. /\ Ascending(c) /\ InBatch(c) \cap stored = {} /\ twice = {}
      BY <1>1, <2>1, <2>2 DEF StableInv
    <3>2. twice' = {}
      BY <2>1, <3>1, NoCopies DEF Store
    <3>3. stored' = stored \cup InBatch(c)
      BY <2>1 DEF Store
    <3>4. QED
      BY <1>1, <2>1, <2>2, <3>2, <3>3
      DEF StableInv, OneReader, Ascending, InBatch
  <2>3. CASE owner # c
    <3>1. InBatch(c) = {}
      BY <1>1, <2>1, <2>3 DEF StableInv, OneReader, InBatch
    <3>2. UNCHANGED <<stored, twice>>
      BY <2>1, <3>1 DEF Store
    <3>3. QED
      BY <1>3, <2>1, <2>3, <3>2
  <2>4. QED
    BY <2>2, <2>3
<1>8. ASSUME NEW c \in Consumers, InsertUnanswered(c) \/ InsertFails(c) PROVE StableInv'
  BY <1>2, <1>3, <1>8
  DEF InsertUnanswered, InsertFails, Goto, memory, TypeOK
<1>9. ASSUME NEW c \in Consumers, CommitPosition(c) PROVE StableInv'
  BY <1>4, <1>9 DEF CommitPosition, Drop, Goto, outcome, TypeOK
<1>10. ASSUME NEW c \in Consumers, CommitPositionFails(c) PROVE StableInv'
  <2>1. owner # c
    BY <1>2, <1>10 DEF CommitPositionFails
  <2>2. /\ \A d \in Consumers \ {c} : stage'[d] = stage[d]
        /\ UNCHANGED <<owner, position, batch, stored, twice, moves, faults>>
    BY <1>2, <1>10 DEF CommitPositionFails, Goto, memory, outcome, TypeOK
  <2>3. QED
    BY <1>3, <2>1, <2>2
<1>11. ASSUME NEW c \in Consumers, CountRetries(c) PROVE StableInv'
  <2>1. stage[c] = "failed" /\ \A d \in Consumers \ {c} : stage'[d] = stage[d]
    BY <1>11 DEF CountRetries, Goto, TypeOK
  <2>2. UNCHANGED <<owner, position, stored, twice, moves, faults>>
    BY <1>2, <1>11 DEF CountRetries
  <2>3. batch' = [batch EXCEPT ![c] = << >>] \/ batch' = batch
    BY <1>11 DEF CountRetries, Drop
  <2>4. QED
    BY <1>3, <1>4, <2>1, <2>2, <2>3
<1>12. ASSUME NEW c \in Consumers, CommitPast(c) PROVE StableInv'
  <2>1. /\ stage[c] = "passing" /\ \A d \in Consumers \ {c} : stage'[d] = stage[d]
        /\ UNCHANGED <<owner, position, stored, twice, moves, faults>>
    BY <1>12 DEF CommitPast, Goto, outcome, TypeOK
  <2>2. batch' = [batch EXCEPT ![c] = << >>] \/ batch' = batch
    BY <1>12 DEF CommitPast, Drop
  <2>3. QED
    BY <1>3, <1>4, <2>1, <2>2
<1>13. ASSUME NEW c \in Consumers, CommitPastFails(c) \/ Restart(c) PROVE StableInv'
  BY <1>2, <1>3, <1>13
  DEF CommitPastFails, Restart, Goto, memory, outcome, TypeOK
<1>14. ASSUME Revoke \/ \E c \in Consumers : Crash(c) PROVE FALSE
  BY <1>1, <1>14 DEF Revoke, Crash
<1>15. CASE UNCHANGED vars
  BY <1>3, <1>15 DEF vars, memory, outcome
<1>16. QED
  BY <1>5, <1>6, <1>7, <1>8, <1>9, <1>10, <1>11, <1>12, <1>13, <1>14, <1>15
  DEF Next, Process

(* For any number of consumers, messages and retries, poison or not: as     *)
(* long as every call is answered and no consumer dies or loses the        *)
(* partition, no message has two rows (process_batch, its retry counts and *)
(* the offsets it gives up).                                               *)
THEOREM RetriesStoreOnce == Spec => []StoredOnceWhileStable
<1>1. Init => StableInv
  BY DEF Init, StableInv, OneReader, Ascending, InBatch
<1>2. TypeOK /\ TypeOK' /\ StableInv /\ [Next]_vars => StableInv'
  BY StepStable
<1>3. StableInv => StoredOnceWhileStable
  BY DEF StableInv, StoredOnceWhileStable
<1>4. QED
  BY <1>1, <1>2, <1>3, TypeCorrect, PTL DEF Spec

=============================================================================
