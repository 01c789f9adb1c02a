----------------------------- MODULE LogReader -----------------------------
(***************************************************************************)
(* What a consumer of one log partition promises, with no batches, no      *)
(* retries, no memory and no group: the committed offset stands only where *)
(* every message below it has been dealt with, and what was dealt with     *)
(* stays dealt with.  The offset may move back; reading again is allowed.  *)
(***************************************************************************)
EXTENDS Naturals

CONSTANT LastOffset       \* the offset of the last message of the log

VARIABLES
  cursor,           \* the committed offset: where a new reader starts
  dealtWith         \* messages stored, dead-lettered or refused

readerVars == <<cursor, dealtWith>>

ReaderInit == cursor = 1 /\ dealtWith = {}

DealWith(S) ==
  /\ dealtWith' = dealtWith \cup S
  /\ UNCHANGED cursor

MoveTo(k) ==
  /\ \A m \in 1..LastOffset : m < k => m \in dealtWith
  /\ cursor' = k
  /\ UNCHANGED dealtWith

ReaderNext == \/ \E S \in SUBSET (1..LastOffset) : DealWith(S)
              \/ \E k \in 1..(LastOffset + 1) : MoveTo(k)

ReaderSpec == ReaderInit /\ [][ReaderNext]_readerVars

=============================================================================
