-------------------------- MODULE HookEmitJournal --------------------------
(***************************************************************************)
(* The hook-emit journal: the directory of event records that hook         *)
(* processes append to and the drainer empties                             *)
(* (plugins/onex/hooks/lib/hook_emit_journal.py and hook_emit_append.py).  *)
(*                                                                         *)
(* A record is one file.  Its filename starts with a nanosecond sequence   *)
(* number taken before the file is written, so the records are numbered    *)
(* 1..NumRecords in filename order, and r < s means that r's name sorts    *)
(* first.  A record file lives in exactly one place, because every move    *)
(* is a rename.                                                            *)
(***************************************************************************)
EXTENDS Naturals, FiniteSets

CONSTANTS
  NumRecords,    \* bound: records written in one behaviour
  EventTypes,    \* the event types that hooks emit
  LedgerTypes,   \* those of the family work.ledger.*
  WriterTypes,   \* the types that the writers of a run use
  JournalBound,  \* enforce_bound's max_records
  NoType         \* the type of a record not yet written

ASSUME JournalAssumption ==
  /\ NumRecords \in Nat
  /\ JournalBound \in Nat \ {0}
  /\ LedgerTypes \subseteq EventTypes
  /\ WriterTypes \subseteq EventTypes
  /\ NoType \notin EventTypes

VARIABLES
  place,     \* where each record's file is
  etype,     \* its event type
  torn,      \* records whose file no longer parses
  status,    \* the types the drainer's status file lists; {} if it lists none
  lossLog,   \* records with a line in the loss log
  unlogged   \* records whose loss line could not be written (said on stderr)

journalVars == <<place, etype, torn, status, lossLog, unlogged>>

Records == 1..NumRecords

(***************************************************************************)
(* "writing" and "deferring" are a temp file bound for the journal and for *)
(* deferred/; "unwritable" is a record whose writer raised or was killed   *)
(* before the rename; "gone" is an unlinked file.                          *)
(***************************************************************************)
Places == {"unwritten", "writing", "deferring", "unwritable",
           "journal", "deferred", "quarantine", "gone"}

JournalTypeOK ==
  /\ place \in [Records -> Places]
  /\ etype \in [Records -> EventTypes \cup {NoType}]
  /\ torn \subseteq Records
  /\ status \subseteq EventTypes
  /\ lossLog \subseteq Records
  /\ unlogged \subseteq Records

JournalInit ==
  /\ place = [r \in Records |-> "unwritten"]
  /\ etype = [r \in Records |-> NoType]
  /\ torn = {}
  /\ status = {}
  /\ lossLog = {}
  /\ unlogged = {}

----------------------------------------------------------------------------
(* Directory listings.                                                     *)

InPlace(p) == {r \in Records : place[r] = p}

Readable(r) == r \notin torn

IsLedger(r) == etype[r] \in LedgerTypes

\* The record of S whose filename sorts first.
IsOldest(r, S) == r \in S /\ \A s \in S : r <= s

\* The first n records of S in filename order.
FirstOf(n, S) == {r \in S : Cardinality({s \in S : s < r}) < n}

\* Mutant of Evictable: ledger rows are not passed over.
EvictableAll == InPlace("journal")

\* What enforce_bound may drop: everything but readable ledger rows.
Evictable == {r \in InPlace("journal") : ~(Readable(r) /\ IsLedger(r))}

\* list_pending skips the files it cannot parse, and those it misses because
\* their read raises.
ListPending(limit, missed) ==
  FirstOf(limit, {r \in InPlace("journal") : Readable(r)} \ missed)

----------------------------------------------------------------------------
(* Hook processes.  Each record has a writer of its own.                   *)

(***************************************************************************)
(* append_event: the status file is read, the event is routed, and the     *)
(* sequence number is taken.  Only a caller that names the status file     *)
(* has its ledger rows deferred.                                           *)
(***************************************************************************)
BeginWrite(r, t) ==
  /\ place[r] = "unwritten"
  /\ \A s \in Records : s < r => place[s] # "unwritten"
  /\ \E namesStatus \in BOOLEAN :
       place' = [place EXCEPT ![r] =
                   IF namesStatus /\ t \in LedgerTypes /\ t \notin status
                   THEN "deferring" ELSE "writing"]
  /\ etype' = [etype EXCEPT ![r] = t]
  /\ UNCHANGED <<torn, status, lossLog, unlogged>>

\* The rename in _write_record: the record becomes visible, complete.
LandWrite(r) ==
  /\ \/ /\ place[r] = "writing"
        /\ place' = [place EXCEPT ![r] = "journal"]
     \/ /\ place[r] = "deferring"
        /\ place' = [place EXCEPT ![r] = "deferred"]
  /\ UNCHANGED <<etype, torn, status, lossLog, unlogged>>

\* JournalWriteError, or a writer killed before its rename.
FailWrite(r) ==
  /\ place[r] \in {"writing", "deferring"}
  /\ place' = [place EXCEPT ![r] = "unwritable"]
  /\ UNCHANGED <<etype, torn, status, lossLog, unlogged>>

----------------------------------------------------------------------------
(* Parts of the drainer's steps.                                           *)

\* release_deferred's rename: under the record's own name, so its queue
\* position is the time it was written.
ReleaseAll(S) ==
  place' = [r \in Records |-> IF r \in S THEN "journal" ELSE place[r]]

Releasable(publishable) ==
  {r \in InPlace("deferred") : Readable(r) /\ etype[r] \in publishable}

Unlink(r) == place' = [place EXCEPT ![r] = "gone"]

SetAside(r) == place' = [place EXCEPT ![r] = "quarantine"]

\* Mutant of RecordLoss: a loss that says nothing.
RecordLossSilent(r, written) == UNCHANGED <<lossLog, unlogged>>

\* record_loss never raises: a line that cannot be written is reported on
\* stderr and the loss goes ahead.
RecordLoss(r, written) ==
  /\ lossLog'  = IF written THEN lossLog \cup {r} ELSE lossLog
  /\ unlogged' = IF written THEN unlogged ELSE unlogged \cup {r}

============================================================================
